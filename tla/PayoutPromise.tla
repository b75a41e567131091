---------------------------- MODULE PayoutPromise ----------------------------
(***************************************************************************)
(* What a withdrawal promises.  The amount is set aside when the owner of  *)
(* the wallet asks for it.  From there it leaves once: to his bank, if an  *)
(* admin has approved the request, or back to his wallet.  Where handlers, *)
(* admins or the gateway contradict each other about a request it becomes  *)
(* unclear, for good, where its amount is.                                 *)
(***************************************************************************)
CONSTANT Requests

VARIABLES
    amount,     \* where the amount of the request is
    consent     \* requests an admin has approved

Places == {"wallet", "aside", "bank", "returned", "unclear"}

TypeOK ==
    /\ amount \in [Requests -> Places]
    /\ consent \subseteq Requests

Init ==
    /\ amount = [w \in Requests |-> "wallet"]
    /\ consent = {}

Moves(w, from, to) ==
    /\ amount[w] = from
    /\ amount' = [amount EXCEPT ![w] = to]

SetAside(w) == Moves(w, "wallet", "aside") /\ UNCHANGED consent

Approve(w) ==
    /\ amount[w] \in {"aside", "unclear"}
    /\ consent' = consent \cup {w}
    /\ UNCHANGED amount

PayOut(w) == w \in consent /\ Moves(w, "aside", "bank") /\ UNCHANGED consent

GiveBack(w) == Moves(w, "aside", "returned") /\ UNCHANGED consent

Contradict(w) ==
    /\ amount[w] # "wallet"
    /\ amount' = [amount EXCEPT ![w] = "unclear"]
    /\ UNCHANGED consent

Next ==
    \E w \in Requests :
        SetAside(w) \/ Approve(w) \/ PayOut(w) \/ GiveBack(w) \/ Contradict(w)

Spec == Init /\ [][Next]_<<amount, consent>>
==============================================================================
