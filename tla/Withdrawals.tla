---------------------------- MODULE Withdrawals ----------------------------
(***************************************************************************)
(* Paying out of a wallet (wallet.service.ts): the owner requests a        *)
(* withdrawal, an admin reviews it, an approval sends a transfer to the    *)
(* gateway, an admin may retry it, and the gateway reports by webhook how  *)
(* the transfer ended.  Reviews read before they write in one READ         *)
(* COMMITTED transaction, a payout waits for the gateway between its       *)
(* writes, and a webhook looks the request up before its transaction; so   *)
(* each is several steps here and keeps what it read.  The arithmetic of   *)
(* the wallet's balance is in EscrowWallets.                               *)
(***************************************************************************)
EXTENDS Naturals, FiniteSets

CONSTANTS
    Requests,   \* withdrawal requests
    Transfers,  \* the gateway's ids of transfers, in the order it accepts them
    Calls,      \* handlers that may be in flight at a time
    NoRequest,
    NoRef,      \* gatewayRef is NULL
    HandRef     \* gatewayRef typed by an admin

ASSUME WithdrawalAssumption ==
    /\ Transfers \subseteq Nat
    /\ NoRequest \notin Requests
    /\ NoRef \notin Transfers /\ HandRef \notin Transfers /\ NoRef # HandRef

VARIABLES
    request,    \* WithdrawalRequest row: status and gatewayRef
    ledger,     \* status of the WITHDRAWAL row written with the request
    counted,    \* times the amount was added to totalWithdrawn (2: or more)
    returned,   \* times the amount was put back into the wallet (2: or more)
    approved,   \* requests an admin has ever approved
    transfer,   \* at the gateway: the request it pays, and its state
    events,     \* webhooks of the gateway still to be delivered
    call,       \* handlers in flight
    (* History, which no handler reads: requests                           *)
    overlapped, \* that two handlers were at work on at a time
    unanswered, \* whose transfer went out and whose reference was not written
    contested   \* decided by hand with a transfer out, reported on when they
                \* were settled, or whose payout was reversed

history == <<overlapped, unanswered, contested>>
vars == <<request, ledger, counted, returned, approved, transfer, events, call, history>>

-----------------------------------------------------------------------------
Statuses == {"NONE", "PENDING", "APPROVED", "PROCESSING", "COMPLETED", "REJECTED"}
Decisions == Statuses \ {"NONE", "PENDING"}
Refs == Transfers \cup {NoRef, HandRef}
Rows == {"NONE", "PENDING", "SUCCESS", "REVERSED"}
Reports == {"success", "failed"}

(* to is the status to write, row the ledger row's status as it was read.  *)
Handler(kind, w, to, ref) == [kind |-> kind, w |-> w, to |-> to, ref |-> ref, row |-> "NONE"]
IdleCall == Handler("idle", NoRequest, "NONE", NoRef)
CallRecords ==
    [kind : {"idle", "review", "payout", "sent", "settled", "webhook"},
     w : Requests \cup {NoRequest}, to : Statuses, ref : Refs, row : Rows]

Transition_SkipsApproval(status) ==
    CASE status \in {"PENDING", "APPROVED"} -> {"APPROVED", "PROCESSING", "COMPLETED", "REJECTED"}
      [] status = "PROCESSING" -> {"COMPLETED", "REJECTED"}
      [] OTHER -> {}

Transition_Reopens(status) ==
    CASE status = "PENDING" -> {"APPROVED", "REJECTED"}
      [] status = "APPROVED" -> {"PROCESSING", "COMPLETED", "REJECTED"}
      [] status \in {"PROCESSING", "COMPLETED"} -> {"COMPLETED", "REJECTED"}
      [] OTHER -> {}

Transition(status) ==
    CASE status = "PENDING" -> {"APPROVED", "REJECTED"}
      [] status = "APPROVED" -> {"PROCESSING", "COMPLETED", "REJECTED"}
      [] status = "PROCESSING" -> {"COMPLETED", "REJECTED"}
      [] OTHER -> {}

Once(n) == IF n = 0 THEN 1 ELSE 2
Accepted(w) == \E t \in Transfers : transfer[t].of = w
Settled(w) == request[w].status \in {"COMPLETED", "REJECTED"}

Init ==
    /\ request = [w \in Requests |-> [status |-> "NONE", ref |-> NoRef]]
    /\ ledger = [w \in Requests |-> "NONE"]
    /\ counted = [w \in Requests |-> 0]
    /\ returned = [w \in Requests |-> 0]
    /\ approved = {}
    /\ transfer = [t \in Transfers |-> [of |-> NoRequest, state |-> "none"]]
    /\ events = {}
    /\ call = [c \in Calls |-> IdleCall]
    /\ overlapped = {} /\ unanswered = {} /\ contested = {}

Ends(c) == call' = [call EXCEPT ![c] = IdleCall]

(* A handler takes on a request, which no other may be at work on yet.     *)
TakesOn(c, k) ==
    /\ call[c].kind = "idle"
    /\ call' = [call EXCEPT ![c] = k]
    /\ overlapped' = IF \E d \in Calls : call[d].w = k.w
                     THEN overlapped \cup {k.w} ELSE overlapped
    /\ UNCHANGED <<request, ledger, counted, returned, approved, transfer, events, unanswered>>

Pays(w) ==
    /\ request' = [request EXCEPT ![w].status = "COMPLETED"]
    /\ counted' = [counted EXCEPT ![w] = Once(@)]
    /\ UNCHANGED returned

Returns_KeepsMoney(w) ==
    /\ request' = [request EXCEPT ![w].status = "REJECTED"]
    /\ UNCHANGED <<counted, returned>>

Returns(w) ==
    /\ request' = [request EXCEPT ![w].status = "REJECTED"]
    /\ returned' = [returned EXCEPT ![w] = Once(@)]
    /\ UNCHANGED counted

ClosesRow_AsRequest(w, row) ==
    ledger' = [ledger EXCEPT ![w] = IF @ = "PENDING" THEN request'[w].status ELSE @]

(* updateMany over the rows that are still PENDING.                        *)
ClosesRow(w, row) ==
    ledger' = [ledger EXCEPT ![w] = IF @ = "PENDING" THEN row ELSE @]

-----------------------------------------------------------------------------
(* The owner asks                                                          *)

CreateWithdrawalRequest(w) ==
    /\ request[w].status = "NONE"
    /\ request' = [request EXCEPT ![w].status = "PENDING"]
    /\ ledger' = [ledger EXCEPT ![w] = "PENDING"]
    /\ UNCHANGED <<counted, returned, approved, transfer, events, call, history>>

-----------------------------------------------------------------------------
(* reviewWithdrawalRequest: what the transaction reads, then what it writes *)

ReviewWithdrawalRequest(c, w, to, ref) ==
    /\ to \in Transition(request[w].status)
    /\ IF to = "REJECTED" THEN ref = NoRef ELSE ledger[w] = "PENDING"
    /\ TakesOn(c, [kind |-> "review", w |-> w, to |-> to, ref |-> ref, row |-> ledger[w]])
    /\ contested' = IF Accepted(w) THEN contested \cup {w} ELSE contested

CommitRejection_KeepsRow(c) ==
    /\ call[c].kind = "review" /\ call[c].to = "REJECTED"
    /\ Returns(call[c].w)
    /\ Ends(c)
    /\ UNCHANGED <<ledger, approved, transfer, events, history>>

CommitRejection(c) ==
    /\ call[c].kind = "review" /\ call[c].to = "REJECTED"
    /\ ledger' = IF call[c].row = "PENDING"
                 THEN [ledger EXCEPT ![call[c].w] = "REVERSED"] ELSE ledger
    /\ Returns(call[c].w)
    /\ Ends(c)
    /\ UNCHANGED <<approved, transfer, events, history>>

(* An approval goes on to send the payout.                                 *)
CommitDecision(c) ==
    LET w == call[c].w  to == call[c].to IN
    /\ call[c].kind = "review" /\ to # "REJECTED"
    /\ request' = [request EXCEPT ![w] = [status |-> to, ref |-> call[c].ref]]
    /\ IF to = "COMPLETED"
       THEN /\ counted' = [counted EXCEPT ![w] = Once(@)]
            /\ ledger' = [ledger EXCEPT ![w] = "SUCCESS"]
       ELSE UNCHANGED <<counted, ledger>>
    /\ IF to = "APPROVED"
       THEN /\ approved' = approved \cup {w}
            /\ call' = [call EXCEPT ![c] = Handler("payout", w, "NONE", NoRef)]
       ELSE UNCHANGED approved /\ Ends(c)
    /\ UNCHANGED <<returned, transfer, events, history>>

-----------------------------------------------------------------------------
(* initiateWithdrawalPayout, by an approval or by retryWithdrawalPayout    *)

Retryable_Processing(w) == request[w].status \in {"APPROVED", "PROCESSING"}

Retryable(w) ==
    \/ request[w].status = "APPROVED"
    \/ request[w].status = "PROCESSING" /\ request[w].ref = NoRef

RetryWithdrawalPayout(c, w) ==
    /\ Retryable(w)
    /\ TakesOn(c, Handler("payout", w, "NONE", NoRef))
    /\ UNCHANGED contested

(* The gateway accepts the transfer, and may settle it at once: by its     *)
(* answer, by a webhook or by both.  The answer may be lost.  Whether the  *)
(* gateway would refuse a second transfer with the same reference of the   *)
(* merchant is its business, and no code here relies on it.                *)
InitiateTransfer(c, t) ==
    LET w == call[c].w IN
    /\ call[c].kind = "payout"
    /\ transfer[t].state = "none"
    /\ \A u \in Transfers : u < t => transfer[u].state # "none"
    /\ \E settled \in BOOLEAN :
         /\ transfer' = [transfer EXCEPT ![t] =
                           [of |-> w, state |-> IF settled THEN "paid" ELSE "pending"]]
         /\ \/ UNCHANGED events
            \/ settled /\ events' = events \cup {<<t, "success">>}
         /\ \/ /\ call' = [call EXCEPT ![c] =
                             Handler("sent", w, IF settled THEN "COMPLETED" ELSE "PROCESSING", t)]
               /\ UNCHANGED unanswered
            \/ Ends(c) /\ unanswered' = unanswered \cup {w}
    /\ UNCHANGED <<request, ledger, counted, returned, approved, overlapped, contested>>

AdvancePayout(c) ==
    /\ call[c].kind = "sent"
    /\ request' = [request EXCEPT ![call[c].w] =
                     [status |-> "PROCESSING", ref |-> call[c].ref]]
    /\ IF call[c].to = "COMPLETED"
       THEN call' = [call EXCEPT ![c] = Handler("settled", call[c].w, "COMPLETED", call[c].ref)]
       ELSE Ends(c)
    /\ UNCHANGED <<ledger, counted, returned, approved, transfer, events, history>>

SettlePayout(c) ==
    /\ call[c].kind = "settled"
    /\ Pays(call[c].w)
    /\ ClosesRow(call[c].w, "SUCCESS")
    /\ Ends(c)
    /\ UNCHANGED <<approved, transfer, events, history>>

(* The gateway refuses or is not reached, the process stops, or a write    *)
(* fails: whatever was not yet written is left as it is.                   *)
Fails(c) ==
    /\ call[c].kind # "idle"
    /\ Ends(c)
    /\ unanswered' = IF call[c].kind = "sent" THEN unanswered \cup {call[c].w} ELSE unanswered
    /\ UNCHANGED <<request, ledger, counted, returned, approved, transfer, events,
                   overlapped, contested>>

-----------------------------------------------------------------------------
(* handlePayoutWebhook.  It looks at no status.                            *)

FindPayout(c, w, t, report) ==
    /\ <<t, report>> \in events
    /\ request[w].ref = t
    /\ TakesOn(c, Handler("webhook", w,
                          IF report = "success" THEN "COMPLETED" ELSE "REJECTED", t))
    /\ contested' = IF Settled(w) THEN contested \cup {w} ELSE contested

(* What was handled may be delivered again.                                *)
RecordPaid(c) ==
    /\ call[c].kind = "webhook" /\ call[c].to = "COMPLETED"
    /\ Pays(call[c].w)
    /\ ClosesRow(call[c].w, "SUCCESS")
    /\ Ends(c)
    /\ UNCHANGED <<approved, transfer, events, history>>

RecordFailed(c) ==
    /\ call[c].kind = "webhook" /\ call[c].to = "REJECTED"
    /\ Returns(call[c].w)
    /\ ClosesRow(call[c].w, "REVERSED")
    /\ Ends(c)
    /\ UNCHANGED <<approved, transfer, events, history>>

(* "Could be a non-ZenDocx transfer": acknowledged, and never seen again.  *)
IgnorePayout(t, report) ==
    /\ <<t, report>> \in events
    /\ \A w \in Requests : request[w].ref # t
    /\ events' = events \ {<<t, report>>}
    /\ UNCHANGED <<request, ledger, counted, returned, approved, transfer, call, history>>

-----------------------------------------------------------------------------
(* The gateway                                                             *)

Moves(t, from, to, report) ==
    /\ transfer[t].state = from
    /\ transfer' = [transfer EXCEPT ![t].state = to]
    /\ events' = events \cup {<<t, report>>}
    /\ UNCHANGED <<request, ledger, counted, returned, approved, call, overlapped, unanswered>>

GatewayPays(t) == Moves(t, "pending", "paid", "success") /\ UNCHANGED contested
GatewayFails(t) == Moves(t, "pending", "failed", "failed") /\ UNCHANGED contested
GatewayReverses(t) ==
    /\ Moves(t, "paid", "failed", "failed")
    /\ contested' = contested \cup {transfer[t].of}

-----------------------------------------------------------------------------
Continues(c) ==
    \/ CommitRejection(c) \/ CommitDecision(c)
    \/ \E t \in Transfers : InitiateTransfer(c, t)
    \/ AdvancePayout(c) \/ SettlePayout(c)
    \/ RecordPaid(c) \/ RecordFailed(c)

Begins(c) ==
    \E w \in Requests :
        \/ \E to \in Decisions, ref \in {NoRef, HandRef, request[w].ref} :
             ReviewWithdrawalRequest(c, w, to, ref)
        \/ RetryWithdrawalPayout(c, w)
        \/ \E t \in Transfers, report \in Reports : FindPayout(c, w, t, report)

Gateway ==
    \E t \in Transfers :
        \/ GatewayPays(t) \/ GatewayFails(t) \/ GatewayReverses(t)
        \/ \E report \in Reports : IgnorePayout(t, report)

Next ==
    \/ \E w \in Requests : CreateWithdrawalRequest(w)
    \/ \E c \in Calls : Begins(c) \/ Continues(c) \/ Fails(c)
    \/ Gateway

Spec == Init /\ [][Next]_vars

-----------------------------------------------------------------------------
(* Requests, ledger rows, transfers and handlers are well formed.          *)
TypeOK ==
    /\ request \in [Requests -> [status : Statuses, ref : Refs]]
    /\ ledger \in [Requests -> Rows]
    /\ counted \in [Requests -> 0..2]
    /\ returned \in [Requests -> 0..2]
    /\ approved \subseteq Requests
    /\ transfer \in [Transfers -> [of : Requests \cup {NoRequest},
                                   state : {"none", "pending", "paid", "failed"}]]
    /\ events \subseteq Transfers \X Reports
    /\ call \in [Calls -> CallRecords]
    /\ overlapped \subseteq Requests
    /\ unanswered \subseteq Requests
    /\ contested \subseteq Requests

(* SECURITY.md: "Admin approval required before payout is processed".  No  *)
(* transfer goes out for a request that was never approved, through any    *)
(* order of reviews, retries, failures and webhooks.                       *)
NeverPaidUnapproved ==
    \A t \in Transfers : transfer[t].state # "none" => transfer[t].of \in approved

(* The ledger row is closed only together with the money: SUCCESS where    *)
(* the withdrawal was counted, REVERSED where it was put back.             *)
LedgerCovered ==
    \A w \in Requests :
        /\ ledger[w] = "SUCCESS" => counted[w] > 0
        /\ ledger[w] = "REVERSED" => returned[w] > 0

(* "Retry is safe only when no transfer has actually gone out yet": what   *)
(* the code checks is status and reference.  So a second transfer can go   *)
(* out, and does so only where the answer to the first one was lost, its   *)
(* reference could not be written, or two handlers worked on the request   *)
(* at a time.                                                              *)
Resent(w) == \E t, u \in Transfers : t # u /\ transfer[t].of = w /\ transfer[u].of = w
NeverResent == \A w \in Requests : Resent(w) => w \in overlapped \cup unanswered

(* Taken at its word, no payout is under way for a request that a transfer *)
(* has gone out for.  This does not hold.                                  *)
RetriedOnlyUnsent == \A c \in Calls : call[c].kind = "payout" => ~Accepted(call[c].w)

RowFor(status) ==
    CASE status = "NONE" -> "NONE"
      [] status = "COMPLETED" -> "SUCCESS"
      [] status = "REJECTED" -> "REVERSED"
      [] OTHER -> "PENDING"

Calm(w) == w \notin overlapped \cup contested /\ ~Resent(w)

(* Request, ledger row and wallet tell one story until two handlers work   *)
(* on the request at a time, an admin decides what the gateway is carrying *)
(* out, a webhook reports on what is settled, a payout is reversed or sent *)
(* twice: reviews check the status they read before, and webhooks check    *)
(* none.  A request knows its transfer as soon as no handler is at work on *)
(* it, but where its reference was not written.                            *)
BooksAgree ==
    \A w \in Requests :
        Calm(w) =>
          /\ ledger[w] = RowFor(request[w].status)
          /\ counted[w] = IF request[w].status = "COMPLETED" THEN 1 ELSE 0
          /\ returned[w] = IF request[w].status = "REJECTED" THEN 1 ELSE 0
          /\ \A t \in Transfers :
               transfer[t].of = w => \/ request[w].ref = t \/ w \in unanswered
                                    \/ \E c \in Calls : call[c].w = w /\ call[c].ref = t

(* What PayoutPromise says of a request; where one of the above has        *)
(* happened, the promise no longer says where the amount is.               *)
Paid(w) ==
    \/ request[w].status = "COMPLETED"
    \/ \E t \in Transfers : transfer[t].of = w /\ transfer[t].state = "paid"

AmountOf(w) ==
    IF ~Calm(w) THEN "unclear"
    ELSE IF request[w].status = "NONE" THEN "wallet"
    ELSE IF returned[w] > 0 THEN "returned"
    ELSE IF Paid(w) THEN "bank" ELSE "aside"

Promise == INSTANCE PayoutPromise WITH
              amount <- [w \in Requests |-> AmountOf(w)],
              consent <- approved

(* The handlers implement the promise of PayoutPromise, lost answers,      *)
(* failing writes and stops of the process included.                       *)
KeepsPromise == Promise!Spec

=============================================================================
