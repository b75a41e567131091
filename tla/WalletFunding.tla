--------------------------- MODULE WalletFunding ---------------------------
(***************************************************************************)
(* Funding a wallet (wallet.service.ts): a PENDING transaction is written, *)
(* the gateway opens a checkout, and the transfer becomes known through a  *)
(* webhook, the client's confirmation, the reconciliation that rides on a  *)
(* wallet load, the sweep of abandoned fundings, or an admin - in any      *)
(* order, and each of them any number of times.  Every one of them keeps   *)
(* the copy of the row it read while it waits for the gateway.             *)
(***************************************************************************)
EXTENDS Naturals

CONSTANTS
    Fundings,   \* references of funding transactions
    Calls,      \* handlers that may be in flight at a time
    Irregular,  \* fundings for which the gateway may report a failure, or
                \* receive another amount or a late transfer
    NoFunding

ASSUME FundingAssumption == NoFunding \notin Fundings /\ Irregular \subseteq Fundings

VARIABLES
    row,        \* Transaction row: status, and fee: metadata still holds it
    credited,   \* times the wallet was credited for the row (2: twice or more)
    old,        \* fundings past ABANDONED_FUNDING_CUTOFF_HOURS
    payment,    \* what the gateway knows of the reference
    events,     \* webhooks the gateway has sent; it may deliver them again
    call,       \* handlers in flight
    recent,     \* a sweep ran (or the process started) within MIN_INTERVAL
    armed       \* ABANDONED_FUNDING_SWEEP_ARMED_KEY is set

vars == <<row, credited, old, payment, events, call, recent, armed>>

-----------------------------------------------------------------------------
Statuses == {"NONE", "PENDING", "FAILED", "SUCCESS"}
Rows == [status : Statuses, fee : BOOLEAN]
NoRow == [status |-> "NONE", fee |-> FALSE]
NewRow == [status |-> "PENDING", fee |-> TRUE]
FailedRow == [status |-> "FAILED", fee |-> FALSE]

(* At the gateway: a checkout is opened, shown to the user, and paid in    *)
(* "full" or with another amount ("other") while it is open; or it is closed *)
(* (expired, failed, cancelled), and a transfer may still come in "late".  *)
Received == {"full", "other", "late"}
Payments == {"unknown", "opened", "shown", "closed"} \cup Received

(* The fee is part of what the user is asked to transfer.  A row that has  *)
(* lost it expects the bare amount.                                        *)
Amounts == {"full", "bare", "other"}
Transferred(f) == IF payment[f] = "late" THEN "full" ELSE payment[f]
Expected_FeeOnly(r) == IF r.fee THEN "fee" ELSE "nothing"
Expected(r) == IF r.fee THEN "full" ELSE "bare"

SweepKinds == {"sweep", "adminSweep"}
VerifyKinds == {"confirm", "reconcile", "preview", "admin"} \cup SweepKinds
Kinds == {"idle", "initiate", "paid", "failed"} \cup VerifyKinds

(* rows are the copies still to be dealt with, f the one in hand.          *)
IdleCall == [kind |-> "idle", rows |-> [f \in Fundings |-> NoRow],
             f |-> NoFunding, answer |-> "awaited"]
CallRecords ==
    [kind : Kinds, rows : [Fundings -> Rows], f : Fundings \cup {NoFunding},
     answer : {"awaited", "none", "opened", "error"} \cup Amounts]

Todo(c) == {f \in Fundings : call[c].rows[f] # NoRow}
Copy(c) == call[c].rows[call[c].f]

Init ==
    /\ row = [f \in Fundings |-> NoRow]
    /\ credited = [f \in Fundings |-> 0]
    /\ old = {}
    /\ payment = [f \in Fundings |-> "unknown"]
    /\ events = {}
    /\ call = [c \in Calls |-> IdleCall]
    /\ recent = TRUE
    /\ armed = FALSE

-----------------------------------------------------------------------------
(* A handler reads the rows fs and keeps them; f and the answer are there  *)
(* already when it need not ask the gateway.                               *)
Starts(c, kind, fs, f, answer) ==
    /\ call[c].kind = "idle"
    /\ call' = [call EXCEPT ![c] =
                  [kind |-> kind,
                   rows |-> [g \in Fundings |-> IF g \in fs THEN row[g] ELSE NoRow],
                   f |-> f, answer |-> answer]]

Asks(c, kind, fs) == Starts(c, kind, fs, NoFunding, "awaited")
Ends(c) == call' = [call EXCEPT ![c] = IdleCall]

(* One row is dealt with.  A sweep run by an admin ends by arming the      *)
(* automatic one and by counting as a recent run.                          *)
Processed(c, f) ==
    LET last == Todo(c) \subseteq {f} IN
    /\ call' = [call EXCEPT ![c] =
                  IF last THEN IdleCall
                  ELSE [call[c] EXCEPT !.rows = [call[c].rows EXCEPT ![f] = NoRow],
                                       !.f = NoFunding, !.answer = "awaited"]]
    /\ armed' = (armed \/ (last /\ call[c].kind = "adminSweep"))
    /\ recent' = (recent \/ (last /\ call[c].kind = "adminSweep"))

-----------------------------------------------------------------------------
(* initiateFunding                                                         *)

InitiateFunding(c, f) ==
    /\ row[f] = NoRow
    /\ call[c].kind = "idle"
    /\ row' = [row EXCEPT ![f] = NewRow]
    /\ call' = [call EXCEPT ![c] = [IdleCall EXCEPT !.kind = "initiate", !.f = f]]
    /\ UNCHANGED <<credited, old, payment, events, recent, armed>>

(* The request may not reach the gateway, or its answer may not come back. *)
InitiatePayment(c) ==
    /\ call[c].kind = "initiate" /\ call[c].answer = "awaited"
    /\ \/ payment' = [payment EXCEPT ![call[c].f] = "opened"]
       \/ UNCHANGED payment
    /\ \E answer \in {"opened", "error"} :
         /\ answer = "opened" => payment'[call[c].f] = "opened"
         /\ call' = [call EXCEPT ![c].answer = answer]
    /\ UNCHANGED <<row, credited, old, events, recent, armed>>

CheckoutReturned(c) ==
    /\ call[c].kind = "initiate" /\ call[c].answer = "opened"
    /\ row' = [row EXCEPT ![call[c].f].fee = TRUE]
    /\ payment' = IF payment[call[c].f] = "opened"
                  THEN [payment EXCEPT ![call[c].f] = "shown"] ELSE payment
    /\ Ends(c)
    /\ UNCHANGED <<credited, old, events, recent, armed>>

(* The gateway failed, or one of the writes after it did.                  *)
InitiationFailed(c) ==
    /\ call[c].kind = "initiate" /\ call[c].answer \in {"opened", "error"}
    /\ row' = [row EXCEPT ![call[c].f] = [status |-> "FAILED", fee |-> TRUE]]
    /\ Ends(c)
    /\ UNCHANGED <<credited, old, payment, events, recent, armed>>

-----------------------------------------------------------------------------
(* Handlers that learn of a payment: what they read.                       *)

HandlePaymentWebhook_AnyEvent(c, f) ==
    /\ \E e \in {"success", "failed"} : <<f, e>> \in events
    /\ Starts(c, "paid", {f}, f, Expected(row[f]))
    /\ UNCHANGED <<row, credited, old, payment, events, recent, armed>>

(* A payment event takes the expected amount for the confirmed one.        *)
HandlePaymentWebhook(c, f) ==
    /\ \/ /\ <<f, "success">> \in events
          /\ Starts(c, "paid", {f}, f, Expected(row[f]))
       \/ /\ <<f, "failed">> \in events
          /\ Starts(c, "failed", {f}, f, "none")
    /\ UNCHANGED <<row, credited, old, payment, events, recent, armed>>

ConfirmFundingReference(c, f) ==
    /\ row[f] # NoRow
    /\ Asks(c, "confirm", {f})
    /\ UNCHANGED <<row, credited, old, payment, events, recent, armed>>

Pending == {f \in Fundings : row[f].status = "PENDING"}

(* The newest few pending rows of one user.                                *)
ReconcileRecentPendingFundings(c) ==
    /\ \E fs \in SUBSET Pending \ {{}} : Asks(c, "reconcile", fs)
    /\ UNCHANGED <<row, credited, old, payment, events, recent, armed>>

GetAdminFundingReconciliationPreview(c, f) ==
    /\ row[f] # NoRow
    /\ Asks(c, "preview", {f})
    /\ UNCHANGED <<row, credited, old, payment, events, recent, armed>>

StalePending_Fresh == Pending \ old
StalePending == Pending \cap old

(* The automatic sweep.  abandonedSweepRunning is up exactly while a call  *)
(* of this kind is in flight.                                              *)
MaybeSweepAbandonedFundings(c) ==
    /\ armed /\ ~recent
    /\ \A d \in Calls : call[d].kind # "sweep"
    /\ recent' = TRUE
    /\ IF StalePending = {} THEN UNCHANGED call ELSE Asks(c, "sweep", StalePending)
    /\ UNCHANGED <<row, credited, old, payment, events, armed>>

RunAbandonedFundingSweep(c) ==
    /\ IF StalePending = {}
       THEN armed' = TRUE /\ recent' = TRUE /\ UNCHANGED call
       ELSE Asks(c, "adminSweep", StalePending) /\ UNCHANGED <<armed, recent>>
    /\ UNCHANGED <<row, credited, old, payment, events>>

-----------------------------------------------------------------------------
(* verifyPayment                                                           *)

Verifies(c, f) ==
    /\ call[c].kind \in VerifyKinds /\ call[c].answer = "awaited"
    /\ f \in Todo(c)

Answered(c, f, answer) ==
    call' = [call EXCEPT ![c] = [call[c] EXCEPT !.f = f, !.answer = answer]]

PaymentConfirmed(c, f) ==
    /\ Verifies(c, f)
    /\ payment[f] \in Received
    /\ IF call[c].kind # "preview"
       THEN Answered(c, f, Transferred(f))
       ELSE IF Transferred(f) # Expected(call[c].rows[f])
       THEN Ends(c)
       ELSE call' = [call EXCEPT ![c] =
                       [call[c] EXCEPT !.kind = "admin",
                                       !.rows = [call[c].rows EXCEPT ![f] = row[f]]]]
    /\ UNCHANGED <<row, credited, old, payment, events, recent, armed>>

(* No such payment: the sweep writes the row off, the others leave it.     *)
PaymentNotFound(c, f) ==
    /\ Verifies(c, f)
    /\ payment[f] \notin Received
    /\ IF call[c].kind \in SweepKinds
       THEN /\ Answered(c, f, "none")
            /\ UNCHANGED <<recent, armed>>
       ELSE Processed(c, f)
    /\ UNCHANGED <<row, credited, old, payment, events>>

GatewayUnreachable_WritesOff(c, f) ==
    /\ Verifies(c, f)
    /\ IF call[c].kind \in SweepKinds
       THEN /\ Answered(c, f, "none")
            /\ UNCHANGED <<recent, armed>>
       ELSE Processed(c, f)
    /\ UNCHANGED <<row, credited, old, payment, events>>

GatewayUnreachable(c, f) ==
    /\ Verifies(c, f)
    /\ Processed(c, f)
    /\ UNCHANGED <<row, credited, old, payment, events>>

-----------------------------------------------------------------------------
(* completeFundingTransaction: its checks are made on the copy, the claim  *)
(* of the row is conditional.                                              *)

Claimable_Any(r) == r.status # "NONE"
Claimable(r) == r.status \in {"PENDING", "FAILED"}

Completes(c) == call[c].answer \in Amounts

AlreadyConfirmed(c) ==
    /\ Completes(c) /\ Copy(c).status = "SUCCESS"
    /\ Processed(c, call[c].f)
    /\ UNCHANGED <<row, credited, old, payment, events>>

AmountMismatch(c) ==
    /\ Completes(c) /\ Copy(c).status # "SUCCESS"
    /\ call[c].answer # Expected(Copy(c))
    /\ row' = [row EXCEPT ![call[c].f] = FailedRow]
    /\ Processed(c, call[c].f)
    /\ UNCHANGED <<credited, old, payment, events>>

OneMore(n) == IF n < 2 THEN n + 1 ELSE n

CompleteFundingTransaction(c) ==
    /\ Completes(c) /\ Copy(c).status # "SUCCESS"
    /\ call[c].answer = Expected(Copy(c))
    /\ IF Claimable(row[call[c].f])
       THEN /\ row' = [row EXCEPT ![call[c].f] = [Copy(c) EXCEPT !.status = "SUCCESS"]]
            /\ credited' = [credited EXCEPT ![call[c].f] = OneMore(credited[call[c].f])]
       ELSE UNCHANGED <<row, credited>>
    /\ Processed(c, call[c].f)
    /\ UNCHANGED <<old, payment, events>>

(* The two that write FAILED whatever the row has become.  The first one   *)
(* also replaces the metadata.                                             *)
MarkFundingTransactionFailed(c) ==
    /\ call[c].kind = "failed"
    /\ row' = [row EXCEPT ![call[c].f] = FailedRow]
    /\ Ends(c)
    /\ UNCHANGED <<credited, old, payment, events, recent, armed>>

MarkFundingAbandoned(c) ==
    /\ call[c].kind \in SweepKinds /\ call[c].answer = "none"
    /\ row' = [row EXCEPT ![call[c].f] = [Copy(c) EXCEPT !.status = "FAILED"]]
    /\ Processed(c, call[c].f)
    /\ UNCHANGED <<credited, old, payment, events>>

(* The database refuses: a credit is given up (loops go on with the next   *)
(* row), anything else ends the handler, a sweep included.                 *)
WriteFails(c) ==
    /\ call[c].f # NoFunding /\ call[c].answer # "awaited"
    /\ IF Completes(c) THEN Processed(c, call[c].f)
       ELSE Ends(c) /\ UNCHANGED <<recent, armed>>
    /\ UNCHANGED <<row, credited, old, payment, events>>

-----------------------------------------------------------------------------
(* The gateway, the clock and the process.                                 *)

Transfer(f) ==
    /\ \/ payment[f] = "shown" /\ payment' = [payment EXCEPT ![f] = "full"]
       \/ /\ f \in Irregular
          /\ \/ payment[f] = "shown" /\ payment' = [payment EXCEPT ![f] = "other"]
             \/ payment[f] = "closed" /\ payment' = [payment EXCEPT ![f] = "late"]
    /\ events' = events \cup {<<f, "success">>}
    /\ UNCHANGED <<row, credited, old, call, recent, armed>>

CheckoutCloses(f) ==
    /\ payment[f] \in {"opened", "shown"}
    /\ payment' = [payment EXCEPT ![f] = IF @ = "shown" THEN "closed" ELSE "unknown"]
    /\ \/ UNCHANGED events
       \/ f \in Irregular /\ events' = events \cup {<<f, "failed">>}
    /\ UNCHANGED <<row, credited, old, call, recent, armed>>

(* The cutoff is hours past the expiry of the checkout.                    *)
PassCutoff(f) ==
    /\ f \notin old /\ row[f] # NoRow
    /\ payment[f] \notin {"opened", "shown"}
    /\ \A c \in Calls : call[c].kind = "initiate" => call[c].f # f
    /\ old' = old \cup {f}
    /\ UNCHANGED <<row, credited, payment, events, call, recent, armed>>

IntervalPasses ==
    /\ recent
    /\ recent' = FALSE
    /\ UNCHANGED <<row, credited, old, payment, events, call, armed>>

Restart ==
    /\ call' = [c \in Calls |-> IdleCall]
    /\ recent' = TRUE
    /\ UNCHANGED <<row, credited, old, payment, events, armed>>

-----------------------------------------------------------------------------
Begins(c) ==
    \/ \E f \in Fundings :
         \/ InitiateFunding(c, f) \/ HandlePaymentWebhook(c, f)
         \/ ConfirmFundingReference(c, f)
         \/ GetAdminFundingReconciliationPreview(c, f)
    \/ ReconcileRecentPendingFundings(c)
    \/ MaybeSweepAbandonedFundings(c) \/ RunAbandonedFundingSweep(c)

Continues(c) ==
    \/ InitiatePayment(c) \/ CheckoutReturned(c) \/ InitiationFailed(c)
    \/ \E f \in Fundings : PaymentConfirmed(c, f) \/ PaymentNotFound(c, f)
                           \/ GatewayUnreachable(c, f)
    \/ AlreadyConfirmed(c) \/ AmountMismatch(c) \/ CompleteFundingTransaction(c)
    \/ MarkFundingTransactionFailed(c) \/ MarkFundingAbandoned(c)
    \/ WriteFails(c)

Next ==
    \/ \E c \in Calls : Begins(c) \/ Continues(c)
    \/ \E f \in Fundings : Transfer(f) \/ CheckoutCloses(f) \/ PassCutoff(f)
    \/ IntervalPasses
    \/ Restart

Spec == Init /\ [][Next]_vars

(* Handlers in flight go on.  Time passes; somebody keeps loading a wallet *)
(* (or the cron fires), so that the automatic sweep is started when it may *)
(* be; and neither the gateway nor the database nor a restart cuts off     *)
(* every sweep.  No user, admin or webhook is fair.  Calls is a bound of   *)
(* the model, so the interval is also to pass with a handler to spare.     *)
SweepOf(f, A(_, _)) == \E c \in Calls : call[c].kind = "sweep" /\ A(c, f)
Credits(c, f) == call[c].f = f /\ CompleteFundingTransaction(c)
FairSpec ==
    /\ Spec
    /\ \A c \in Calls : WF_vars(Continues(c))
    /\ \A f \in Fundings : WF_vars(PassCutoff(f))
    /\ SF_vars(IntervalPasses /\ \E c \in Calls : call[c].kind = "idle")
    /\ SF_vars(\E c \in Calls : MaybeSweepAbandonedFundings(c))
    /\ \A f \in Fundings : SF_vars(SweepOf(f, PaymentConfirmed))
    /\ \A f \in Fundings : SF_vars(SweepOf(f, Credits))

-----------------------------------------------------------------------------
(* Rows, copies of them in handlers and payments are well formed.          *)
TypeOK ==
    /\ row \in [Fundings -> Rows]
    /\ credited \in [Fundings -> 0..2]
    /\ old \subseteq Fundings
    /\ payment \in [Fundings -> Payments]
    /\ events \subseteq Fundings \X {"success", "failed"}
    /\ call \in [Calls -> CallRecords]
    /\ recent \in BOOLEAN
    /\ armed \in BOOLEAN

(* A transfer that came in time and in full is credited at most once,      *)
(* through whatever mix of webhooks, confirmations, reconciliations and    *)
(* sweeps.                                                                 *)
CreditedAtMostOnce == \A f \in Fundings : payment[f] = "full" => credited[f] <= 1

(* For such a transfer row and wallet agree: it is never written off, and  *)
(* SUCCESS is recorded exactly when the wallet has the money.              *)
LedgerAgrees ==
    \A f \in Fundings : payment[f] = "full" =>
        row[f].status = (IF credited[f] = 0 THEN "PENDING" ELSE "SUCCESS")

(* The wallet is credited only for money the gateway has received, and a   *)
(* SUCCESS row has been credited, whatever the gateway does.               *)
NothingForNothing ==
    \A f \in Fundings :
        /\ credited[f] > 0 => payment[f] \in Received
        /\ row[f].status = "SUCCESS" => credited[f] > 0

(* "A payment that did land but whose webhook never arrived is credited    *)
(* here": once the sweep has been armed, a transfer in time and in full    *)
(* reaches the wallet without any webhook, confirmation or admin.          *)
PaidIsCredited ==
    \A f \in Fundings : armed /\ payment[f] = "full" ~> credited[f] = 1

(* SECURITY.md: "Never process the same payment twice (duplicate webhook   *)
(* protection)", for transfers of the full amount, the late ones included. *)
NeverProcessedTwice ==
    \A f \in Fundings : payment[f] \in {"full", "late"} => credited[f] <= 1

============================================================================
