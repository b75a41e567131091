----------------------------- MODULE EscrowHold -----------------------------
(***************************************************************************)
(* What an order promises about the money it holds.  The price is locked   *)
(* when the order is created and leaves escrow once: to the center, when   *)
(* no dispute stands against the order, or back to the requester, when a   *)
(* dispute is decided for the requester.  A decision is final.  Nothing is *)
(* promised any more of an order that a handler has written after what it  *)
(* had read there was overtaken.                                           *)
(***************************************************************************)
CONSTANT Orders

VARIABLES
    escrow,     \* where the money of the order is
    claim       \* the requester's claim against the order

EscrowStates == {"none", "held", "released", "refunded", "overtaken"}
ClaimStates == {"none", "standing", "rejected", "upheld", "overtaken"}

TypeOK ==
    /\ escrow \in [Orders -> EscrowStates]
    /\ claim \in [Orders -> ClaimStates]

Init ==
    /\ escrow = [o \in Orders |-> "none"]
    /\ claim = [o \in Orders |-> "none"]

Lock(o) ==
    /\ escrow[o] = "none"
    /\ escrow' = [escrow EXCEPT ![o] = "held"]
    /\ UNCHANGED claim

(* A claim is raised once, while the money is still held.                  *)
Raise(o) ==
    /\ escrow[o] = "held"
    /\ claim[o] = "none"
    /\ claim' = [claim EXCEPT ![o] = "standing"]
    /\ UNCHANGED escrow

Reject(o) ==
    /\ claim[o] = "standing"
    /\ claim' = [claim EXCEPT ![o] = "rejected"]
    /\ UNCHANGED escrow

Uphold(o) ==
    /\ escrow[o] = "held"
    /\ claim[o] = "standing"
    /\ claim' = [claim EXCEPT ![o] = "upheld"]
    /\ escrow' = [escrow EXCEPT ![o] = "refunded"]

Release(o) ==
    /\ escrow[o] = "held"
    /\ claim[o] \in {"none", "rejected"}
    /\ escrow' = [escrow EXCEPT ![o] = "released"]
    /\ UNCHANGED claim

Overtake(o) ==
    /\ escrow' = [escrow EXCEPT ![o] = "overtaken"]
    /\ claim' = [claim EXCEPT ![o] = "overtaken"]

Next ==
    \E o \in Orders :
        \/ Lock(o) \/ Raise(o) \/ Reject(o) \/ Uphold(o) \/ Release(o)
        \/ Overtake(o)

Spec == Init /\ [][Next]_<<escrow, claim>>
==============================================================================
