-------------------------- MODULE MCEscrowWallets --------------------------
EXTENDS EscrowWallets, TLC

CONSTANTS o1, o2, h1, h2

Price(total, cbt, provider, percent, flat) ==
    [total |-> total, cbt |-> cbt, provider |-> provider, percent |-> percent, flat |-> flat]
(* Repriced to the first, the fee exceeds the tenant's share; at the        *)
(* second, center and tenant earn more than the price.                     *)
SamplePrices == {Price(3, 1, 1, 100, 1), Price(2, 2, 1, 50, 0)}

Symmetry == Permutations({o1, o2}) \cup Permutations({h1, h2})

(* A lost write may create money, and after it any amount of it.  A second *)
(* order and the largest balances are looked at while no write is lost.    *)
FewLosses ==
    lost => /\ InWallets + escrow + aside <= MaxOutside
            /\ outside <= 3
            /\ \A o, p \in Orders :
                 order[o].status # "NONE" /\ order[p].status # "NONE" => o = p
============================================================================
