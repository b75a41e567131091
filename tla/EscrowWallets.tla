--------------------------- MODULE EscrowWallets ---------------------------
(***************************************************************************)
(* The wallets an order moves money between (orders.service.ts,            *)
(* orders-release-queue.service.ts, wallet.service.ts): the requester's    *)
(* with its escrow, the center's, the tenant admin's and the platform's.   *)
(* Nearly every writer reads a balance and writes the sum it computed,     *)
(* some of them reading before their transaction begins; only a credited   *)
(* funding and a failed payout increment.  So a writer may overwrite what  *)
(* another one did in between: lost and drift record that it happened, and *)
(* what it did to the money there is.                                      *)
(* When an order may be released, disputed or refunded is in               *)
(* OrderLifecycle; here is what each of these moves.                       *)
(***************************************************************************)
EXTENDS Integers, FiniteSetsExt

CONSTANTS
    Orders,
    Calls,      \* handlers that may be in flight at a time
    Prices,     \* prices a tenant may set for the service
    Deposits,   \* amounts a funding may credit
    Payouts,    \* amounts a center may ask to withdraw
    MaxOutside, \* bound: money that has come in from outside
    NoOrder

PriceRecords == [total : Nat, cbt : Nat, provider : Nat, percent : 0..100, flat : Nat]

ASSUME WalletAssumption ==
    /\ NoOrder \notin Orders
    /\ Prices \subseteq PriceRecords
    /\ Deposits \subseteq Nat /\ Payouts \subseteq Nat /\ MaxOutside \in Nat

VARIABLES
    available,  \* Wallet.availableBalance of each owner
    escrow,     \* Wallet.escrowBalance of the requester
    aside,      \* withdrawals requested and not returned
    outside,    \* deposits and manual refunds less purchases and penalties
    order,      \* Order row: what settles it, and its PENALTY transaction
    call,       \* handlers in flight
    (* History, which no handler reads: *)
    lost,       \* a handler has written over a change it had not seen
    drift,      \* the money such writes added to the wallets, or took (< 0)
    overpaid,   \* what releases paid beyond the price they took from escrow
    shortfall   \* what the earners' parts exceeded the price by, at releases

paid == <<overpaid, shortfall>>
history == <<lost, drift, paid>>
vars == <<available, escrow, aside, outside, order, call, history>>

-----------------------------------------------------------------------------
Owners == {"requester", "center", "tenant", "platform"}
Statuses == {"NONE", "HELD", "DISPUTED", "REFUNDED", "RESOLVED", "COMPLETED"}
Penalties == {"none", "PENDING", "SUCCESS", "REVERSED"}

(* HELD is a manual order from its creation to the end of its dispute      *)
(* window; an automated one is COMPLETED at once and pays no center.  An   *)
(* order may be repriced that was placed on the platform's service, while  *)
(* the tenant had one of its own, and that was never disputed.             *)
OrderRecords ==
    [status : Statuses, released : BOOLEAN, repriceable : BOOLEAN, penalty : Penalties,
     total : Nat, fee : Nat, share : Nat, cbt : Nat]
NoSuchOrder ==
    [status |-> "NONE", released |-> FALSE, repriceable |-> FALSE, penalty |-> "none",
     total |-> 0, fee |-> 0, share |-> 0, cbt |-> 0]

(* createOrder takes the percentage of the tenant's earnings, the          *)
(* remediation that of the center's commission as well.                    *)
FeeAtCreation(p) == (p.provider * p.percent) \div 100
FeeAtRemediation(p) == ((p.cbt + p.provider) * p.percent) \div 100

Ordered(p) ==
    [status |-> "HELD", released |-> FALSE, repriceable |-> TRUE, penalty |-> "none",
     total |-> p.total, fee |-> FeeAtCreation(p), share |-> p.provider, cbt |-> p.cbt]
Purchased(p) ==
    [status |-> "COMPLETED", released |-> FALSE, repriceable |-> FALSE, penalty |-> "none",
     total |-> p.provider + p.flat, fee |-> p.flat, share |-> 0, cbt |-> 0]

(* A handler keeps the row and the balances it read; inTx says that its    *)
(* transaction has read the balances it reads itself (ReadInTx), the rest  *)
(* having been read before it.  as is what the handler will write.         *)
Kinds == {"idle", "create", "purchase", "release", "refund", "repay", "penalty",
          "remediate", "withdraw", "reject"}
ReadsInTx == {"purchase", "refund", "repay", "penalty", "remediate"}
Balances(kind) ==
    CASE kind \in {"create", "refund", "repay", "remediate"} -> {"requester"}
      [] kind = "purchase" -> {"requester", "platform"}
      [] kind = "release" -> {"center", "tenant", "platform"}
      [] OTHER -> {"center"}
ReadInTx(kind) == IF kind = "purchase" THEN {"platform"} ELSE Balances(kind)
ReadBalances(kind) == [w \in Owners |-> IF w \in Balances(kind) THEN available[w] ELSE 0]
ReadEscrow(kind) == IF kind \in {"create", "release", "refund", "remediate"} THEN escrow ELSE 0
IdleCall ==
    [kind |-> "idle", o |-> NoOrder, row |-> NoSuchOrder, as |-> NoSuchOrder,
     amount |-> 0, inTx |-> FALSE, seen |-> [w \in Owners |-> 0], held |-> 0]
CallRecords ==
    [kind : Kinds, o : Orders \cup {NoOrder}, row : OrderRecords, as : OrderRecords,
     amount : Nat, inTx : BOOLEAN, seen : [Owners -> Int], held : Int]

Init ==
    /\ available = [w \in Owners |-> 0]
    /\ escrow = 0
    /\ aside = 0
    /\ outside = 0
    /\ order = [o \in Orders |-> NoSuchOrder]
    /\ call = [c \in Calls |-> IdleCall]
    /\ lost = FALSE /\ drift = 0
    /\ overpaid = 0 /\ shortfall = 0

-----------------------------------------------------------------------------
(* Reading and writing                                                     *)

Begins(c, kind, o, row, as, amount) ==
    /\ call[c].kind = "idle"
    /\ call' = [call EXCEPT ![c] =
                  [kind |-> kind, o |-> o, row |-> row, as |-> as, amount |-> amount,
                   inTx |-> kind \notin ReadsInTx, seen |-> ReadBalances(kind), held |-> ReadEscrow(kind)]]
    /\ UNCHANGED <<available, escrow, aside, outside, order, history>>

Ready(c, kind) == call[c].kind = kind /\ call[c].inTx
Ends(c) == call' = [call EXCEPT ![c] = IdleCall]

(* How far what the handler has seen of these owners is from what is there. *)
Stale(c, owners) ==
    LET stale(w) == IF w \in owners THEN call[c].seen[w] - available[w] ELSE 0
    IN  stale("requester") + stale("center") + stale("tenant") + stale("platform")

(* Writes the balances of the owners in the domain of moves, and the       *)
(* escrow if hold is not zero, from what the handler has seen.             *)
Writes(c, moves, hold) ==
    /\ available' = [w \in Owners |-> IF w \in DOMAIN moves
                                      THEN call[c].seen[w] + moves[w] ELSE available[w]]
    /\ escrow' = IF hold = 0 THEN escrow ELSE call[c].held + hold
    /\ lost' = \/ lost
               \/ \E w \in DOMAIN moves : available[w] # call[c].seen[w]
               \/ hold # 0 /\ escrow # call[c].held
               \/ call[c].o \in Orders /\ order[call[c].o] # call[c].row
    /\ drift' = drift + Stale(c, DOMAIN moves)
                      + (IF hold = 0 THEN 0 ELSE call[c].held - escrow)
    /\ Ends(c)

Moves(w, amount) == [v \in {w} |-> amount]

-----------------------------------------------------------------------------
(* completeFundingTransaction, once its claim of the row has succeeded.    *)

CreditFunding(amount) ==
    /\ outside + amount <= MaxOutside
    /\ available' = [available EXCEPT !["requester"] = @ + amount]
    /\ outside' = outside + amount
    /\ UNCHANGED <<escrow, aside, order, call, history>>

-----------------------------------------------------------------------------
(* createOrder: balance and price are read before the transaction.         *)

Unused(o) == order[o].status = "NONE" /\ \A c \in Calls : call[c].o # o

BeginCreateOrder(c, o, p) ==
    /\ Unused(o)
    /\ available["requester"] >= p.total
    /\ Begins(c, "create", o, order[o], Ordered(p), p.total)

CommitCreateOrder(c) ==
    /\ Ready(c, "create")
    /\ order' = [order EXCEPT ![call[c].o] = call[c].as]
    /\ Writes(c, Moves("requester", -call[c].amount), call[c].amount)
    /\ UNCHANGED <<aside, outside, paid>>

(* createAutomatedOrder: the provider has delivered when the balance read  *)
(* before is looked at; an order that is refused then is not in the model. *)
(* The transaction reads the platform's wallet, not the requester's again. *)
PurchaseFromProvider(c, o, p) ==
    /\ Unused(o)
    /\ available["requester"] >= p.provider + p.flat
    /\ Begins(c, "purchase", o, order[o], Purchased(p), p.provider)

CommitPurchase(c) ==
    /\ Ready(c, "purchase")
    /\ order' = [order EXCEPT ![call[c].o] = call[c].as]
    /\ Writes(c, [w \in {"requester", "platform"} |->
                    IF w = "requester" THEN -call[c].as.total ELSE call[c].as.fee], 0)
    /\ outside' = outside - call[c].amount
    /\ UNCHANGED <<aside, paid>>

-----------------------------------------------------------------------------
(* processReleaseEscrow: one transaction reads order and wallets, splits   *)
(* the price and writes.  Where the platform's fee is above the tenant's   *)
(* share the platform is credited the difference, and nobody is charged;   *)
(* where center and tenant earn more than the price the platform pays.     *)
(* No price is checked against either.                                     *)

ReadRelease(c, o) ==
    /\ order[o].status = "HELD" /\ ~order[o].released
    /\ escrow >= order[o].total
    /\ Begins(c, "release", o, order[o], order[o], order[o].total)

TenantNet(row) == IF row.share > 0 THEN row.share - row.fee ELSE 0
PlatformActual(row) == row.total - row.cbt - TenantNet(row)

Split_FullShare(row) ==
    [w \in Owners \ {"requester"} |->
        CASE w = "center" -> row.cbt
          [] w = "platform" -> PlatformActual(row)
          [] w = "tenant" -> row.share]

Split(row) ==
    [w \in {"center", "platform"} \cup (IF TenantNet(row) > 0 THEN {"tenant"} ELSE {}) |->
        CASE w = "center" -> row.cbt
          [] w = "platform" -> PlatformActual(row)
          [] w = "tenant" -> TenantNet(row)]

Above0(n) == IF n > 0 THEN n ELSE 0

CommitRelease(c) ==
    /\ Ready(c, "release")
    /\ order' = [order EXCEPT ![call[c].o].released = TRUE]
    /\ Writes(c, Split(call[c].row), -call[c].amount)
    /\ overpaid' = overpaid + Above0(-TenantNet(call[c].row))
    /\ shortfall' = shortfall + Above0(-PlatformActual(call[c].row))
    /\ UNCHANGED <<aside, outside>>

-----------------------------------------------------------------------------
(* Disputes.  The row is read first, the wallet by the transaction.        *)

CreateDispute(o) ==
    /\ order[o].status = "HELD" /\ ~order[o].released
    /\ order' = [order EXCEPT ![o].status = "DISPUTED", ![o].repriceable = FALSE]
    /\ UNCHANGED <<available, escrow, aside, outside, call, history>>

ReviewForCbt(o) ==
    /\ order[o].status = "DISPUTED"
    /\ order' = [order EXCEPT ![o].status = "HELD"]
    /\ UNCHANGED <<available, escrow, aside, outside, call, history>>

ReviewForRequester(c, o, penalty) ==
    /\ order[o].status = "DISPUTED"
    /\ Begins(c, "refund", o, order[o],
              [order[o] EXCEPT !.status = IF order[o].released THEN "RESOLVED" ELSE "REFUNDED",
                               !.penalty = penalty],
              order[o].total)

CommitRefund_KeepsEscrow(c) ==
    /\ Ready(c, "refund")
    /\ order' = [order EXCEPT ![call[c].o].status = call[c].as.status,
                              ![call[c].o].penalty = call[c].as.penalty]
    /\ IF call[c].row.released
       THEN UNCHANGED <<available, escrow, lost, drift>> /\ Ends(c)
       ELSE Writes(c, Moves("requester", call[c].amount), 0)
    /\ UNCHANGED <<aside, outside, paid>>

CommitRefund(c) ==
    /\ Ready(c, "refund")
    /\ order' = [order EXCEPT ![call[c].o].status = call[c].as.status,
                              ![call[c].o].penalty = call[c].as.penalty]
    /\ IF call[c].row.released
       THEN UNCHANGED <<available, escrow, lost, drift>> /\ Ends(c)
       ELSE Writes(c, Moves("requester", call[c].amount), -call[c].amount)
    /\ UNCHANGED <<aside, outside, paid>>

(* reviewDisputeFinancialFollowUp: a manual refund is taken from no        *)
(* wallet, a penalty is given to none.                                     *)
FollowUpRefund(c, o) ==
    /\ order[o].status = "RESOLVED" /\ order[o].released
    /\ Begins(c, "repay", o, order[o], [order[o] EXCEPT !.status = "REFUNDED"], order[o].total)

CommitManualRefund(c) ==
    /\ Ready(c, "repay")
    /\ order' = [order EXCEPT ![call[c].o].status = "REFUNDED"]
    /\ Writes(c, Moves("requester", call[c].amount), 0)
    /\ outside' = outside + call[c].amount
    /\ UNCHANGED <<aside, paid>>

FollowUpPenalty(c, o) ==
    /\ order[o].penalty = "PENDING"
    /\ Begins(c, "penalty", o, order[o], [order[o] EXCEPT !.penalty = "SUCCESS"], order[o].cbt)

CommitPenalty(c) ==
    /\ Ready(c, "penalty")
    /\ order' = [order EXCEPT ![call[c].o].penalty = "SUCCESS"]
    /\ Writes(c, Moves("center", -call[c].amount), 0)
    /\ outside' = outside - call[c].amount
    /\ UNCHANGED <<aside, paid>>

WaivePenalty(o) ==
    /\ order[o].penalty = "PENDING"
    /\ order' = [order EXCEPT ![o].penalty = "REVERSED"]
    /\ UNCHANGED <<available, escrow, aside, outside, call, history>>

-----------------------------------------------------------------------------
(* applyOrderPricingRemediation: the candidates are worked out first, each *)
(* is then applied in a transaction that reads the wallet again, and not   *)
(* the order; no wallet is written when the price stays the same.          *)

Repriced_Delta(row, p) ==
    [row EXCEPT !.repriceable = FALSE, !.total = p.total - row.total, !.fee = FeeAtRemediation(p), !.cbt = p.cbt]

Repriced(row, p) ==
    [row EXCEPT !.repriceable = FALSE, !.total = p.total, !.fee = FeeAtRemediation(p), !.cbt = p.cbt]

RemediationCandidate(c, o, p) ==
    LET row == order[o] IN
    /\ row.status = "HELD" /\ ~row.released /\ row.repriceable
    /\ available["requester"] >= p.total - row.total
    /\ escrow >= row.total - p.total
    /\ Begins(c, "remediate", o, row, Repriced(row, p), 0)

CommitRemediation(c) ==
    LET delta == call[c].as.total - call[c].row.total IN
    /\ Ready(c, "remediate")
    /\ order' = [order EXCEPT ![call[c].o].repriceable = FALSE,
                              ![call[c].o].total = call[c].as.total,
                              ![call[c].o].fee = call[c].as.fee,
                              ![call[c].o].cbt = call[c].as.cbt]
    /\ Writes(c, IF delta = 0 THEN [w \in {} |-> 0] ELSE Moves("requester", -delta), delta)
    /\ UNCHANGED <<aside, outside, paid>>

-----------------------------------------------------------------------------
(* createWithdrawalRequest, and the two ways a withdrawal comes back.  That *)
(* it comes back once is the business of Withdrawals.                      *)

RequestWithdrawal(c, amount) ==
    /\ available["center"] >= amount
    /\ Begins(c, "withdraw", NoOrder, NoSuchOrder, NoSuchOrder, amount)

CommitWithdrawal(c) ==
    /\ Ready(c, "withdraw")
    /\ aside' = aside + call[c].amount
    /\ Writes(c, Moves("center", -call[c].amount), 0)
    /\ UNCHANGED <<outside, order, paid>>

RejectWithdrawal(c, amount) ==
    /\ aside >= amount
    /\ \A d \in Calls : call[d].kind # "reject"
    /\ Begins(c, "reject", NoOrder, NoSuchOrder, NoSuchOrder, amount)

CommitRejection(c) ==
    /\ Ready(c, "reject")
    /\ aside' = aside - call[c].amount
    /\ Writes(c, Moves("center", call[c].amount), 0)
    /\ UNCHANGED <<outside, order, paid>>

PayoutFailed(amount) ==
    /\ aside >= amount
    /\ \A d \in Calls : call[d].kind # "reject"
    /\ aside' = aside - amount
    /\ available' = [available EXCEPT !["center"] = @ + amount]
    /\ UNCHANGED <<escrow, outside, order, call, history>>

-----------------------------------------------------------------------------
(* The transaction's own read, with the checks made on it.                 *)
Affordable_RefundOnly(k) == k.kind = "refund" => k.row.released \/ escrow >= k.amount

Affordable(k) ==
    CASE k.kind = "refund" -> k.row.released \/ escrow >= k.amount
      [] k.kind = "penalty" -> available["center"] >= k.amount
      [] k.kind = "remediate" -> /\ available["requester"] >= k.as.total - k.row.total
                                 /\ escrow >= k.row.total - k.as.total
      [] OTHER -> TRUE

NowSeen(k) ==
    [w \in Owners |-> IF w \in ReadInTx(k.kind) THEN available[w] ELSE k.seen[w]]

TransactionReads(c) ==
    /\ call[c].kind \in ReadsInTx /\ ~call[c].inTx
    /\ Affordable(call[c])
    /\ call' = [call EXCEPT ![c] =
                  [call[c] EXCEPT !.inTx = TRUE, !.seen = NowSeen(call[c]),
                                  !.held = ReadEscrow(call[c].kind)]]
    /\ UNCHANGED <<available, escrow, aside, outside, order, history>>

(* A check, a write or the process fails; nothing is written.              *)
Fails(c) ==
    /\ call[c].kind # "idle"
    /\ Ends(c)
    /\ UNCHANGED <<available, escrow, aside, outside, order, history>>

-----------------------------------------------------------------------------
Starts(c) ==
    \/ \E o \in Orders :
         \/ \E p \in Prices : \/ BeginCreateOrder(c, o, p) \/ PurchaseFromProvider(c, o, p)
                              \/ RemediationCandidate(c, o, p)
         \/ \E penalty \in {order[o].penalty, "PENDING"} : ReviewForRequester(c, o, penalty)
         \/ ReadRelease(c, o) \/ FollowUpRefund(c, o) \/ FollowUpPenalty(c, o)
    \/ \E amount \in Payouts : RequestWithdrawal(c, amount) \/ RejectWithdrawal(c, amount)

Commits(c) ==
    \/ CommitCreateOrder(c) \/ CommitPurchase(c) \/ CommitRelease(c)
    \/ CommitRefund(c) \/ CommitManualRefund(c) \/ CommitPenalty(c)
    \/ CommitRemediation(c) \/ CommitWithdrawal(c) \/ CommitRejection(c)

Next ==
    \/ \E amount \in Deposits : CreditFunding(amount)
    \/ \E amount \in Payouts : PayoutFailed(amount)
    \/ \E c \in Calls : Starts(c) \/ TransactionReads(c) \/ Commits(c) \/ Fails(c)
    \/ \E o \in Orders : CreateDispute(o) \/ ReviewForCbt(o) \/ WaivePenalty(o)

Spec == Init /\ [][Next]_vars

-----------------------------------------------------------------------------
(* Balances are integers: that they stay above zero is NeverOverdrawn.     *)
TypeOK ==
    /\ available \in [Owners -> Int]
    /\ escrow \in Int
    /\ aside \in Int
    /\ outside \in Int
    /\ order \in [Orders -> OrderRecords]
    /\ call \in [Calls -> CallRecords]
    /\ lost \in BOOLEAN
    /\ drift \in Int
    /\ overpaid \in Nat
    /\ shortfall \in Nat

(* However the handlers overlap, whatever writes get lost and whatever the *)
(* prices, no escrow and no balance of a requester, a center or a tenant   *)
(* goes below zero: orders, repricings, penalties and withdrawals check    *)
(* the very balance they compute from.  The platform's does at worst by    *)
(* what center and tenant were paid beyond the prices of their orders,     *)
(* which no code checks.                                                   *)
NeverOverdrawn ==
    /\ escrow >= 0
    /\ \A w \in Owners \ {"platform"} : available[w] >= 0
    /\ available["platform"] >= -shortfall

(* Every kobo is in a wallet, in escrow or set aside (processReleaseEscrow: *)
(* "Platform earns whatever is left"), repricings included, but for what   *)
(* two things account for exactly: releases of orders whose fee exceeds    *)
(* the tenant's share pay out the excess on top of the price they take     *)
(* from escrow (overpaid), and writes over unseen changes undo these       *)
(* (drift, which may be of either sign).                                   *)
InWallets == available["requester"] + available["center"]
             + available["tenant"] + available["platform"]
Conserved == InWallets + escrow + aside = outside + overpaid + drift

(* Unless a write was lost, the escrow is the price of the orders that     *)
(* still wait for a decision, each at the amount its row now says, at any  *)
(* prices and through any repricing.  A lost write ends this for good: an  *)
(* escrow written over a change it had not seen stays off by that change.  *)
Unsettled == {o \in Orders : order[o].status \in {"HELD", "DISPUTED"} /\ ~order[o].released}
EscrowBacksOrders == ~lost => escrow = MapThenSumSet(LAMBDA o : order[o].total, Unsettled)

=============================================================================
