---------------------------- MODULE MCCbtAccounts ----------------------------
EXTENDS CbtAccounts, Naturals, FiniteSets, TLC

CONSTANTS center1, staff1, o1, o2, k1, k2, c1, c2

Alike == Permutations(Orders) \cup Permutations(Categories) \cup Permutations(Calls)

(* Jobs one after the other, as two of them share only whom they keep from *)
(* being deleted, and a paid job does that as well as one in work; they    *)
(* are of no interest where a category was deleted, and nothing is where a *)
(* job was parted.                                                         *)
Begun == {o \in Orders : order[o] # NewOrder}
OneByOne ==
    /\ Cardinality({o \in Begun : order[o].earner = Nobody}) <= 1
    /\ catalogue # Categories => Begun = {}
    /\ parted = {}

(* Handlers for centers overlap with changes of account and with their own *)
(* kind, and come before the second job; the others with each other.       *)
ForCenters == {"approve", "reject", "categories", "drop"}
Together ==
    \A c, d \in Calls :
        call[c].kind \in ForCenters =>
            /\ call[d].kind \in ForCenters \cup {"none", "remove", "role"}
            /\ Cardinality(Begun) <= 1

Focus == OneByOne /\ Together
=============================================================================
