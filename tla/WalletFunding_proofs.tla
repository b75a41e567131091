------------------------ MODULE WalletFunding_proofs ------------------------
(***************************************************************************)
(* Theorems about WalletFunding, for any set of fundings, any number of    *)
(* handlers in flight and any of the gateway's irregularities.             *)
(***************************************************************************)
EXTENDS WalletFunding, TLAPS

-----------------------------------------------------------------------------
(* Types.                                                                  *)

LEMMA IdleCallType == IdleCall \in CallRecords
  BY DEF IdleCall, CallRecords, Kinds, Rows, Statuses, NoRow

LEMMA StartsType ==
  ASSUME TypeOK, NEW c \in Calls, NEW kind \in Kinds, NEW fs,
         NEW f \in Fundings \cup {NoFunding},
         NEW answer \in {"awaited", "none", "opened", "error"} \cup Amounts,
         Starts(c, kind, fs, f, answer)
  PROVE  call' \in [Calls -> CallRecords]
  <1> DEFINE copies == [g \in Fundings |-> IF g \in fs THEN row[g] ELSE NoRow]
  <1>1. copies \in [Fundings -> Rows]
    BY DEF TypeOK, Rows, NoRow, Statuses
  <1>2. [kind |-> kind, rows |-> copies, f |-> f, answer |-> answer] \in CallRecords
    BY <1>1 DEF CallRecords
  <1> QED
    BY <1>2 DEF Starts, TypeOK

LEMMA AsksType ==
  ASSUME TypeOK, NEW c \in Calls, NEW kind \in Kinds, NEW fs, Asks(c, kind, fs)
  PROVE  call' \in [Calls -> CallRecords]
  BY StartsType DEF Asks

LEMMA EndsType ==
  ASSUME TypeOK, NEW c \in Calls, Ends(c)
  PROVE  call' \in [Calls -> CallRecords]
  BY IdleCallType DEF Ends, TypeOK

(* What is left of a handler when it is done with f.                       *)
Dropped(k, f) == [k EXCEPT !.rows = [k.rows EXCEPT ![f] = NoRow],
                           !.f = NoFunding, !.answer = "awaited"]

LEMMA DroppedType ==
  ASSUME NEW k \in CallRecords, NEW f
  PROVE  /\ Dropped(k, f) \in CallRecords
         /\ Dropped(k, f).kind = k.kind
         /\ Dropped(k, f).f = NoFunding
         /\ Dropped(k, f).answer = "awaited"
         /\ \A g \in Fundings :
              Dropped(k, f).rows[g] = (IF g = f THEN NoRow ELSE k.rows[g])
  <1>1. [k.rows EXCEPT ![f] = NoRow] \in [Fundings -> Rows]
    BY DEF CallRecords, Rows, NoRow, Statuses
  <1> QED
    BY <1>1 DEF Dropped, CallRecords

LEMMA ProcessedType ==
  ASSUME TypeOK, NEW c \in Calls, NEW f, Processed(c, f)
  PROVE  /\ call' \in [Calls -> CallRecords]
         /\ armed' \in BOOLEAN /\ recent' \in BOOLEAN
         /\ \/ call' = [call EXCEPT ![c] = IdleCall]
            \/ call' = [call EXCEPT ![c] = Dropped(call[c], f)]
  <1>1. call[c] \in CallRecords
    BY DEF TypeOK
  <1>2. \/ call' = [call EXCEPT ![c] = IdleCall]
        \/ call' = [call EXCEPT ![c] = Dropped(call[c], f)]
    BY DEF Processed, Dropped
  <1>3. call' \in [Calls -> CallRecords]
    BY <1>1, <1>2, IdleCallType, DroppedType DEF TypeOK
  <1>4. armed' \in BOOLEAN /\ recent' \in BOOLEAN
    BY DEF Processed, TypeOK
  <1> QED
    BY <1>2, <1>3, <1>4

LEMMA RowConstants ==
  /\ NewRow \in Rows /\ NewRow # NoRow
  /\ FailedRow \in Rows /\ FailedRow # NoRow
  /\ NoRow \in Rows
  /\ \A r \in Rows : Expected(r) \in Amounts
  BY DEF NewRow, FailedRow, NoRow, Rows, Statuses, Expected, Amounts

(* A handler begins.                                                       *)
LEMMA BeginsType ==
  ASSUME TypeOK, NEW c \in Calls, Begins(c)
  PROVE  TypeOK'
  <1>1. ASSUME NEW f \in Fundings, InitiateFunding(c, f)
        PROVE  TypeOK'
    <2>1. row' \in [Fundings -> Rows]
      BY <1>1, RowConstants DEF InitiateFunding, TypeOK
    <2>2. [IdleCall EXCEPT !.kind = "initiate", !.f = f] \in CallRecords
      BY IdleCallType DEF CallRecords, Kinds
    <2>3. call' \in [Calls -> CallRecords]
      BY <1>1, <2>2 DEF InitiateFunding, TypeOK
    <2> QED
      BY <1>1, <2>1, <2>3 DEF InitiateFunding, TypeOK
  <1>2. ASSUME NEW f \in Fundings, HandlePaymentWebhook(c, f)
        PROVE  TypeOK'
    <2>1. row[f] \in Rows
      BY DEF TypeOK
    <2>2. call' \in [Calls -> CallRecords]
      BY <1>2, <2>1, StartsType, RowConstants DEF HandlePaymentWebhook, Kinds
    <2> QED
      BY <1>2, <2>2 DEF HandlePaymentWebhook, TypeOK
  <1>3. ASSUME NEW f \in Fundings, ConfirmFundingReference(c, f)
        PROVE  TypeOK'
    <2>1. call' \in [Calls -> CallRecords]
      BY <1>3, AsksType DEF ConfirmFundingReference, Kinds, VerifyKinds
    <2> QED
      BY <1>3, <2>1 DEF ConfirmFundingReference, TypeOK
  <1>4. ASSUME NEW f \in Fundings, GetAdminFundingReconciliationPreview(c, f)
        PROVE  TypeOK'
    <2>1. call' \in [Calls -> CallRecords]
      BY <1>4, AsksType DEF GetAdminFundingReconciliationPreview, Kinds, VerifyKinds
    <2> QED
      BY <1>4, <2>1 DEF GetAdminFundingReconciliationPreview, TypeOK
  <1>5. ASSUME ReconcileRecentPendingFundings(c)
        PROVE  TypeOK'
    <2>1. call' \in [Calls -> CallRecords]
      BY <1>5, AsksType DEF ReconcileRecentPendingFundings, Kinds, VerifyKinds
    <2> QED
      BY <1>5, <2>1 DEF ReconcileRecentPendingFundings, TypeOK
  <1>6. ASSUME MaybeSweepAbandonedFundings(c)
        PROVE  TypeOK'
    <2>1. call' \in [Calls -> CallRecords]
      BY <1>6, AsksType
      DEF MaybeSweepAbandonedFundings, Kinds, VerifyKinds, SweepKinds, TypeOK
    <2> QED
      BY <1>6, <2>1 DEF MaybeSweepAbandonedFundings, TypeOK
  <1>7. ASSUME RunAbandonedFundingSweep(c)
        PROVE  TypeOK'
    <2>1. call' \in [Calls -> CallRecords]
      BY <1>7, AsksType
      DEF RunAbandonedFundingSweep, Kinds, VerifyKinds, SweepKinds, TypeOK
    <2> QED
      BY <1>7, <2>1 DEF RunAbandonedFundingSweep, TypeOK
  <1> QED
    BY <1>1, <1>2, <1>3, <1>4, <1>5, <1>6, <1>7 DEF Begins

(* A handler goes on.                                                      *)
LEMMA ContinuesType ==
  ASSUME TypeOK, NEW c \in Calls, Continues(c)
  PROVE  TypeOK'
  <1> USE IdleCallType, RowConstants
  <1>a. call[c] \in CallRecords
    BY DEF TypeOK
  <1>1. CASE InitiatePayment(c)
    <2>1. payment' \in [Fundings -> Payments]
      BY <1>1 DEF InitiatePayment, TypeOK, Payments
    <2>2. ASSUME NEW answer \in {"opened", "error"}
          PROVE  [call[c] EXCEPT !.answer = answer] \in CallRecords
      BY <1>a DEF CallRecords
    <2>3. call' \in [Calls -> CallRecords]
      BY <1>1, <2>2 DEF InitiatePayment, TypeOK
    <2> QED
      BY <1>1, <2>1, <2>3 DEF InitiatePayment, TypeOK
  <1>2. CASE CheckoutReturned(c)
    <2>1. [row[call[c].f] EXCEPT !.fee = TRUE] \in Rows \/ call[c].f \notin Fundings
      BY DEF TypeOK, Rows
    <2>2. row' \in [Fundings -> Rows]
      BY <1>2, <2>1 DEF CheckoutReturned, TypeOK
    <2>3. payment' \in [Fundings -> Payments]
      BY <1>2 DEF CheckoutReturned, TypeOK, Payments
    <2>4. call' \in [Calls -> CallRecords]
      BY <1>2, EndsType DEF CheckoutReturned
    <2> QED
      BY <1>2, <2>2, <2>3, <2>4 DEF CheckoutReturned, TypeOK
  <1>3. CASE InitiationFailed(c)
    <2>1. [status |-> "FAILED", fee |-> TRUE] \in Rows
      BY DEF Rows, Statuses
    <2>2. row' \in [Fundings -> Rows]
      BY <1>3, <2>1 DEF InitiationFailed, TypeOK
    <2>3. call' \in [Calls -> CallRecords]
      BY <1>3, EndsType DEF InitiationFailed
    <2> QED
      BY <1>3, <2>2, <2>3 DEF InitiationFailed, TypeOK
  <1>4. ASSUME NEW f \in Fundings, PaymentConfirmed(c, f)
        PROVE  TypeOK'
    <2>1. Transferred(f) \in Amounts
      BY <1>4 DEF PaymentConfirmed, Transferred, Received, Amounts
    <2>2. [call[c] EXCEPT !.f = f, !.answer = Transferred(f)] \in CallRecords
      BY <1>a, <2>1 DEF CallRecords
    <2>3. row[f] \in Rows /\ call[c].rows \in [Fundings -> Rows]
      BY <1>a DEF TypeOK, CallRecords
    <2>4. [call[c].rows EXCEPT ![f] = row[f]] \in [Fundings -> Rows]
      BY <2>3
    <2>5. [call[c] EXCEPT !.kind = "admin",
                           !.rows = [call[c].rows EXCEPT ![f] = row[f]]] \in CallRecords
      BY <1>a, <2>4 DEF CallRecords, Kinds, VerifyKinds
    <2>6. call' \in [Calls -> CallRecords]
      BY <1>4, <2>2, <2>5 DEF PaymentConfirmed, Answered, Ends, TypeOK
    <2> QED
      BY <1>4, <2>6 DEF PaymentConfirmed, TypeOK
  <1>5. ASSUME NEW f \in Fundings, PaymentNotFound(c, f)
        PROVE  TypeOK'
    <2>1. [call[c] EXCEPT !.f = f, !.answer = "none"] \in CallRecords
      BY <1>a DEF CallRecords
    <2>2. CASE call[c].kind \in SweepKinds
      BY <1>5, <2>1, <2>2 DEF PaymentNotFound, Answered, TypeOK
    <2>3. CASE call[c].kind \notin SweepKinds
      BY <1>5, <2>3, ProcessedType DEF PaymentNotFound, TypeOK
    <2> QED
      BY <2>2, <2>3
  <1>6. ASSUME NEW f \in Fundings, GatewayUnreachable(c, f)
        PROVE  TypeOK'
    BY <1>6, ProcessedType DEF GatewayUnreachable, TypeOK
  <1>7. CASE AlreadyConfirmed(c)
    BY <1>7, ProcessedType DEF AlreadyConfirmed, TypeOK
  <1>8. CASE AmountMismatch(c)
    <2>1. row' \in [Fundings -> Rows]
      BY <1>8 DEF AmountMismatch, TypeOK
    <2> QED
      BY <1>8, <2>1, ProcessedType DEF AmountMismatch, TypeOK
  <1>9. CASE CompleteFundingTransaction(c)
    <2>1. credited' \in [Fundings -> 0..2]
      BY <1>9 DEF CompleteFundingTransaction, OneMore, TypeOK
    <2>2. [Copy(c) EXCEPT !.status = "SUCCESS"] \in Rows \/ call[c].f \notin Fundings
      BY <1>a DEF Copy, CallRecords, Rows, Statuses
    <2>3. row' \in [Fundings -> Rows]
      BY <1>9, <2>2 DEF CompleteFundingTransaction, TypeOK
    <2> QED
      BY <1>9, <2>1, <2>3, ProcessedType DEF CompleteFundingTransaction, TypeOK
  <1>10. CASE MarkFundingTransactionFailed(c)
    <2>1. row' \in [Fundings -> Rows]
      BY <1>10 DEF MarkFundingTransactionFailed, TypeOK
    <2> QED
      BY <1>10, <2>1, EndsType DEF MarkFundingTransactionFailed, TypeOK
  <1>11. CASE MarkFundingAbandoned(c)
    <2>1. [Copy(c) EXCEPT !.status = "FAILED"] \in Rows \/ call[c].f \notin Fundings
      BY <1>a DEF Copy, CallRecords, Rows, Statuses
    <2>2. row' \in [Fundings -> Rows]
      BY <1>11, <2>1 DEF MarkFundingAbandoned, TypeOK
    <2> QED
      BY <1>11, <2>2, ProcessedType DEF MarkFundingAbandoned, TypeOK
  <1>12. CASE WriteFails(c)
    BY <1>12, ProcessedType, EndsType DEF WriteFails, TypeOK
  <1> QED
    BY <1>1, <1>2, <1>3, <1>4, <1>5, <1>6, <1>7, <1>8, <1>9, <1>10, <1>11, <1>12
    DEF Continues

(* The gateway, the clock, a restart.                                      *)
LEMMA OutsideType ==
  ASSUME TypeOK,
         \/ \E f \in Fundings : Transfer(f) \/ CheckoutCloses(f) \/ PassCutoff(f)
         \/ IntervalPasses
         \/ Restart
  PROVE  TypeOK'
  <1>1. ASSUME NEW f \in Fundings, Transfer(f)
        PROVE  TypeOK'
    <2>1. payment' \in [Fundings -> Payments]
      BY <1>1 DEF Transfer, TypeOK, Payments, Received
    <2> QED
      BY <1>1, <2>1 DEF Transfer, TypeOK
  <1>2. ASSUME NEW f \in Fundings, CheckoutCloses(f)
        PROVE  TypeOK'
    <2>1. payment' \in [Fundings -> Payments]
      BY <1>2 DEF CheckoutCloses, TypeOK, Payments
    <2> QED
      BY <1>2, <2>1 DEF CheckoutCloses, TypeOK
  <1>3. ASSUME NEW f \in Fundings, PassCutoff(f)
        PROVE  TypeOK'
    BY <1>3 DEF PassCutoff, TypeOK
  <1>4. CASE IntervalPasses
    BY <1>4 DEF IntervalPasses, TypeOK
  <1>5. CASE Restart
    BY <1>5, IdleCallType DEF Restart, TypeOK
  <1> QED
    BY <1>1, <1>2, <1>3, <1>4, <1>5

LEMMA StepType == TypeOK /\ [Next]_vars => TypeOK'
  <1> SUFFICES ASSUME TypeOK, [Next]_vars
               PROVE  TypeOK'
    OBVIOUS
  <1>1. CASE UNCHANGED vars
    BY <1>1 DEF vars, TypeOK
  <1>2. CASE Next
    BY <1>2, BeginsType, ContinuesType, OutsideType DEF Next
  <1> QED
    BY <1>1, <1>2

LEMMA InitType == Init => TypeOK
  <1> SUFFICES ASSUME Init
               PROVE  TypeOK
    OBVIOUS
  <1>1. row \in [Fundings -> Rows] /\ call \in [Calls -> CallRecords]
    BY IdleCallType, RowConstants DEF Init
  <1>2. credited \in [Fundings -> 0..2] /\ payment \in [Fundings -> Payments]
    BY DEF Init, Payments
  <1>3. old \subseteq Fundings /\ events \subseteq Fundings \X {"success", "failed"}
    BY DEF Init
  <1>4. recent \in BOOLEAN /\ armed \in BOOLEAN
    BY Zenon DEF Init
  <1> QED
    BY <1>1, <1>2, <1>3, <1>4 DEF TypeOK

(* Rows, copies, answers and what the gateway knows are well formed in     *)
(* every reachable state; in particular every handler's answer is one its  *)
(* next step is written for.                                               *)
THEOREM FundingTypeCorrect == Spec => []TypeOK
  BY InitType, StepType, PTL DEF Spec

-----------------------------------------------------------------------------
(* The inductive invariant.                                                *)

Starting(c, f) == call[c].kind = "initiate" /\ call[c].f = f

(* The checkout of f is being opened, is open, or was paid in time and in  *)
(* full.                                                                   *)
Clean(f) ==
    \/ payment[f] \in {"shown", "full"}
    \/ \E c \in Calls :
         Starting(c, f) /\ (call[c].answer = "awaited" \/ payment[f] = "opened")

GoodRow(r) == r.fee = TRUE /\ r.status \in {"PENDING", "SUCCESS"}

(* Row and credit of such a funding.                                       *)
Sound(f, r, n) ==
    /\ GoodRow(r)
    /\ n = (IF r.status = "PENDING" THEN 0 ELSE 1)
    /\ payment[f] # "full" => r.status = "PENDING"

RowInv(f) ==
    /\ row[f] = NoRow =>
          /\ payment[f] = "unknown" /\ credited[f] = 0 /\ f \notin old
          /\ <<f, "success">> \notin events /\ <<f, "failed">> \notin events
          /\ \A c \in Calls : ~Starting(c, f)
    /\ Clean(f) => Sound(f, row[f], credited[f])
    /\ credited[f] > 0 => payment[f] \in Received
    /\ row[f].status = "SUCCESS" => credited[f] > 0

(* Success is reported of what was received, failure only of what was      *)
(* closed, and nothing past the cutoff is open.                            *)
GatewayInv(f) ==
    /\ <<f, "success">> \in events => payment[f] \in Received
    /\ <<f, "failed">> \in events =>
          /\ payment[f] \in {"unknown", "closed", "late"}
          /\ \A c \in Calls : Starting(c, f) => call[c].answer # "awaited"
    /\ f \in old => payment[f] \notin {"opened", "shown"}

StartingInv(c, f) ==
    Starting(c, f) =>
       /\ f \notin old
       /\ payment[f] \in {"unknown", "opened"}
       /\ call[c].answer = "awaited" => payment[f] = "unknown"
       /\ \A d \in Calls : Starting(d, f) => d = c

(* What a handler may rely on: copies are of existing rows, and for a      *)
(* clean funding they are good; a confirmed amount is that of a transfer;  *)
(* a sweep about to write a row off knows that it was not paid in time.    *)
GoodCall(k) ==
    /\ k.kind = "initiate" =>
          k.f \in Fundings /\ k.answer \in {"awaited", "opened", "error"}
    /\ k.kind = "failed" =>
          k.f \in Fundings /\ <<k.f, "failed">> \in events /\ k.answer = "none"
    /\ \A f \in Fundings : k.rows[f] # NoRow =>
          /\ row[f] # NoRow
          /\ Clean(f) => GoodRow(k.rows[f])
          /\ k.kind \in SweepKinds => f \in old
    /\ k.answer \in Amounts =>
          /\ k.f \in Fundings
          /\ k.rows[k.f] # NoRow
          /\ payment[k.f] \in Received
          /\ payment[k.f] = "full" => k.answer = "full"
    /\ k.kind \in SweepKinds /\ k.answer = "none" =>
          /\ k.f \in Fundings
          /\ k.rows[k.f] # NoRow
          /\ payment[k.f] \notin {"opened", "shown", "full"}

FundingInv ==
    /\ TypeOK
    /\ \A f \in Fundings : RowInv(f) /\ GatewayInv(f)
    /\ \A c \in Calls, f \in Fundings : StartingInv(c, f)
    /\ \A c \in Calls : GoodCall(call[c])

-----------------------------------------------------------------------------
LEMMA IdleIsGood == GoodCall(IdleCall)
  BY DEF GoodCall, IdleCall, SweepKinds, Amounts

(* Most handlers change their own record and at most the row in hand; that *)
(* is safe if the record stays good and so does the row.                   *)
LEMMA HandlerStep ==
  ASSUME FundingInv, TypeOK', NEW c \in Calls, NEW k \in CallRecords,
         call' = [call EXCEPT ![c] = k], k.kind # "initiate", GoodCall(k),
         UNCHANGED <<old, payment, events>>,
         \A f \in Fundings :
            \/ row'[f] = row[f] /\ credited'[f] = credited[f]
            \/ /\ row[f] # NoRow /\ row'[f] # NoRow
               /\ Clean(f) => Sound(f, row'[f], credited'[f])
               /\ credited'[f] > 0 => payment[f] \in Received
               /\ row'[f].status = "SUCCESS" => credited'[f] > 0
  PROVE  FundingInv'
  <1>1. \A d \in Calls : call'[d] = (IF d = c THEN k ELSE call[d])
    BY DEF FundingInv, TypeOK
  <1>2. \A d \in Calls, f \in Fundings :
           Starting(d, f)' => Starting(d, f) /\ call'[d] = call[d]
    BY <1>1 DEF Starting
  <1>3. \A f \in Fundings : Clean(f)' => Clean(f)
    BY <1>2 DEF Clean
  <1>4. \A f \in Fundings : row[f] # NoRow => row'[f] # NoRow
    OBVIOUS
  <1>5. ASSUME NEW f \in Fundings
        PROVE  RowInv(f)'
    <2>1. RowInv(f)
      BY DEF FundingInv
    <2>2. CASE row'[f] = row[f] /\ credited'[f] = credited[f]
      BY <2>1, <2>2, <1>2, <1>3 DEF RowInv, Sound
    <2>3. CASE /\ row[f] # NoRow /\ row'[f] # NoRow
               /\ Clean(f) => Sound(f, row'[f], credited'[f])
               /\ credited'[f] > 0 => payment[f] \in Received
               /\ row'[f].status = "SUCCESS" => credited'[f] > 0
      BY <2>3, <1>3 DEF RowInv, Sound
    <2> QED
      BY <2>2, <2>3
  <1>6. ASSUME NEW f \in Fundings
        PROVE  GatewayInv(f)'
    <2>1. GatewayInv(f)
      BY DEF FundingInv
    <2> QED
      BY <2>1, <1>2 DEF GatewayInv
  <1>7. ASSUME NEW d \in Calls, NEW f \in Fundings
        PROVE  StartingInv(d, f)'
    <2>1. StartingInv(d, f)
      BY DEF FundingInv
    <2> QED
      BY <2>1, <1>2 DEF StartingInv
  <1>8. ASSUME NEW d \in Calls
        PROVE  GoodCall(call[d])'
    <2>1. GoodCall(call'[d])
      BY <1>1 DEF FundingInv
    <2> QED
      BY <2>1, <1>3, <1>4 DEF GoodCall
  <1> QED
    BY <1>5, <1>6, <1>7, <1>8 DEF FundingInv

(* The row in hand may stay, or change as HandlerStep allows.              *)
RowMayChange(f) ==
    \/ row'[f] = row[f] /\ credited'[f] = credited[f]
    \/ /\ row[f] # NoRow /\ row'[f] # NoRow
       /\ Clean(f) => Sound(f, row'[f], credited'[f])
       /\ credited'[f] > 0 => payment[f] \in Received
       /\ row'[f].status = "SUCCESS" => credited'[f] > 0

LEMMA ProcessedStep ==
  ASSUME FundingInv, TypeOK', NEW c \in Calls, NEW g, Processed(c, g),
         call[c].kind \notin {"initiate", "failed"},
         UNCHANGED <<old, payment, events>>,
         \A f \in Fundings : RowMayChange(f)
  PROVE  FundingInv'
  <1>1. call[c] \in CallRecords /\ GoodCall(call[c])
    BY DEF FundingInv, TypeOK
  <1> DEFINE k == Dropped(call[c], g)
  <1>2. /\ k \in CallRecords /\ k.kind = call[c].kind /\ k.answer = "awaited"
        /\ \A f \in Fundings : k.rows[f] # NoRow => k.rows[f] = call[c].rows[f]
    BY <1>1, DroppedType
  <1>3. GoodCall(k)
    BY <1>1, <1>2 DEF GoodCall, Amounts
  <1>4. CASE call' = [call EXCEPT ![c] = IdleCall]
    BY <1>4, HandlerStep, IdleIsGood, IdleCallType DEF RowMayChange, IdleCall
  <1>5. CASE call' = [call EXCEPT ![c] = k]
    BY <1>2, <1>3, <1>5, HandlerStep DEF RowMayChange
  <1> QED
    BY <1>4, <1>5, ProcessedType DEF FundingInv

LEMMA EndsStep ==
  ASSUME FundingInv, TypeOK', NEW c \in Calls, Ends(c),
         UNCHANGED <<old, payment, events>>,
         \A f \in Fundings : RowMayChange(f)
  PROVE  FundingInv'
  BY HandlerStep, IdleIsGood, IdleCallType DEF RowMayChange, IdleCall, Ends

LEMMA StartsStep ==
  ASSUME FundingInv, TypeOK', NEW c \in Calls, NEW kind \in Kinds \ {"initiate"},
         NEW fs, NEW g \in Fundings \cup {NoFunding},
         NEW answer \in {"awaited", "none"} \cup Amounts,
         Starts(c, kind, fs, g, answer),
         UNCHANGED <<row, credited, old, payment, events>>,
         \A f \in Fundings :
            f \in fs => row[f] # NoRow /\ (kind \in SweepKinds => f \in old),
         kind = "failed" =>
            g \in Fundings /\ <<g, "failed">> \in events /\ answer = "none",
         kind \in SweepKinds => answer # "none",
         answer \in Amounts =>
            /\ g \in Fundings /\ g \in fs
            /\ payment[g] \in Received
            /\ payment[g] = "full" => answer = "full"
  PROVE  FundingInv'
  <1> DEFINE copies == [f \in Fundings |-> IF f \in fs THEN row[f] ELSE NoRow]
             k == [kind |-> kind, rows |-> copies, f |-> g, answer |-> answer]
  <1>1. copies \in [Fundings -> Rows]
    BY RowConstants DEF FundingInv, TypeOK
  <1>2. k \in CallRecords
    BY <1>1 DEF CallRecords
  <1>3. \A f \in Fundings : Clean(f) => GoodRow(row[f])
    BY DEF FundingInv, RowInv, Sound
  <1>4. GoodCall(k)
    BY <1>3 DEF GoodCall
  <1>5. call' = [call EXCEPT ![c] = k] /\ k.kind # "initiate"
    BY DEF Starts
  <1> QED
    BY <1>2, <1>4, <1>5, HandlerStep

LEMMA AsksStep ==
  ASSUME FundingInv, TypeOK', NEW c \in Calls, NEW kind \in VerifyKinds,
         NEW fs, Asks(c, kind, fs),
         UNCHANGED <<row, credited, old, payment, events>>,
         \A f \in Fundings :
            f \in fs => row[f] # NoRow /\ (kind \in SweepKinds => f \in old)
  PROVE  FundingInv'
  <1>1. kind \in Kinds \ {"initiate"} /\ kind # "failed"
    BY DEF VerifyKinds, SweepKinds, Kinds
  <1>2. "awaited" \notin Amounts
    BY DEF Amounts
  <1> QED
    BY <1>1, <1>2, StartsStep DEF Asks

-----------------------------------------------------------------------------
(* What handlers read.                                                     *)

LEMMA InitiateFundingStep ==
  ASSUME FundingInv, TypeOK', NEW c \in Calls, NEW f \in Fundings,
         InitiateFunding(c, f)
  PROVE  FundingInv'
  <1> DEFINE k == [IdleCall EXCEPT !.kind = "initiate", !.f = f]
  <1>1. /\ k.kind = "initiate" /\ k.f = f /\ k.answer = "awaited"
        /\ \A g \in Fundings : k.rows[g] = NoRow
    BY DEF IdleCall
  <1>2. \A d \in Calls : call'[d] = (IF d = c THEN k ELSE call[d])
    BY DEF FundingInv, TypeOK, InitiateFunding
  <1>3. \A g \in Fundings : row'[g] = (IF g = f THEN NewRow ELSE row[g])
    BY DEF FundingInv, TypeOK, InitiateFunding
  <1>4. RowInv(f) /\ row[f] = NoRow /\ call[c].kind = "idle"
    BY DEF FundingInv, InitiateFunding
  <1>5. \A d \in Calls, g \in Fundings :
           Starting(d, g)' <=> (d = c /\ g = f) \/ (d # c /\ Starting(d, g))
    BY <1>1, <1>2 DEF Starting
  <1>6. \A g \in Fundings : g # f => (Clean(g)' => Clean(g))
    BY <1>2, <1>5 DEF Clean, InitiateFunding
  <1>7. \A d \in Calls : call[d].rows[f] = NoRow
    BY <1>4 DEF FundingInv, GoodCall
  <1>8. ASSUME NEW g \in Fundings
        PROVE  RowInv(g)'
    <2>1. CASE g = f
      BY <1>3, <1>4, <2>1 DEF InitiateFunding, RowInv, Sound, GoodRow, NewRow, NoRow
    <2>2. CASE g # f
      BY <1>3, <1>5, <1>6, <2>2 DEF FundingInv, InitiateFunding, RowInv, Sound
    <2> QED
      BY <2>1, <2>2
  <1>9. ASSUME NEW g \in Fundings
        PROVE  GatewayInv(g)'
    <2>1. CASE g = f
      BY <1>4, <2>1 DEF InitiateFunding, RowInv, GatewayInv
    <2>2. CASE g # f
      <3>1. GatewayInv(g)
        BY DEF FundingInv
      <3> QED
        BY <1>2, <1>5, <2>2, <3>1 DEF InitiateFunding, GatewayInv
    <2> QED
      BY <2>1, <2>2
  <1>10. ASSUME NEW d \in Calls, NEW g \in Fundings
         PROVE  StartingInv(d, g)'
    <2>1. CASE g = f
      BY <1>4, <1>5, <2>1 DEF InitiateFunding, RowInv, StartingInv
    <2>2. CASE g # f
      <3>1. StartingInv(d, g)
        BY DEF FundingInv
      <3> QED
        BY <1>2, <1>5, <2>2, <3>1 DEF InitiateFunding, StartingInv
    <2> QED
      BY <2>1, <2>2
  <1>11. ASSUME NEW d \in Calls
         PROVE  GoodCall(call[d])'
    <2>1. CASE d = c
      BY <1>1, <1>2, <2>1 DEF GoodCall, Amounts, SweepKinds
    <2>2. CASE d # c
      <3>1. GoodCall(call[d]) /\ call'[d] = call[d]
        BY <1>2, <2>2 DEF FundingInv
      <3>2. \A g \in Fundings : row[g] # NoRow => row'[g] # NoRow
        BY <1>3, RowConstants
      <3>3. \A g \in Fundings : call[d].rows[g] # NoRow =>
               /\ row'[g] # NoRow
               /\ Clean(g)' => GoodRow(call[d].rows[g])
               /\ call[d].kind \in SweepKinds => g \in old
        BY <1>6, <1>7, <3>1, <3>2 DEF GoodCall
      <3>4. UNCHANGED <<old, payment, events>>
        BY DEF InitiateFunding
      <3> QED
        BY <3>1, <3>3, <3>4 DEF GoodCall
    <2> QED
      BY <2>1, <2>2
  <1> QED
    BY <1>8, <1>9, <1>10, <1>11 DEF FundingInv

LEMMA BeginsStep ==
  ASSUME FundingInv, TypeOK', NEW c \in Calls, Begins(c)
  PROVE  FundingInv'
  <1>1. ASSUME NEW f \in Fundings, HandlePaymentWebhook(c, f)
        PROVE  FundingInv'
    <2>1. RowInv(f) /\ GatewayInv(f) /\ row[f] \in Rows
      BY DEF FundingInv, TypeOK
    <2>2. CASE <<f, "success">> \in events /\ Starts(c, "paid", {f}, f, Expected(row[f]))
      <3>1. row[f] # NoRow /\ payment[f] \in Received
        BY <2>1, <2>2 DEF RowInv, GatewayInv
      <3>2. payment[f] = "full" => Expected(row[f]) = "full"
        BY <2>1 DEF RowInv, Clean, Sound, GoodRow, Expected
      <3>3. Expected(row[f]) \in Amounts
        BY <2>1, RowConstants
      <3>4. "paid" \in Kinds \ {"initiate"} /\ "paid" \notin SweepKinds
        BY DEF Kinds, SweepKinds
      <3> QED
        BY <1>1, <2>2, <3>1, <3>2, <3>3, <3>4, StartsStep DEF HandlePaymentWebhook
    <2>3. CASE <<f, "failed">> \in events /\ Starts(c, "failed", {f}, f, "none")
      <3>1. row[f] # NoRow
        BY <2>1, <2>3 DEF RowInv
      <3>2. "failed" \in Kinds \ {"initiate"} /\ "failed" \notin SweepKinds
        BY DEF Kinds, SweepKinds
      <3>3. "none" \notin Amounts
        BY DEF Amounts
      <3> QED
        BY <1>1, <2>3, <3>1, <3>2, <3>3, StartsStep DEF HandlePaymentWebhook
    <2> QED
      BY <1>1, <2>2, <2>3 DEF HandlePaymentWebhook
  <1>2. ASSUME NEW f \in Fundings, ConfirmFundingReference(c, f)
        PROVE  FundingInv'
    BY <1>2, AsksStep DEF ConfirmFundingReference, VerifyKinds, SweepKinds
  <1>3. ASSUME NEW f \in Fundings, GetAdminFundingReconciliationPreview(c, f)
        PROVE  FundingInv'
    BY <1>3, AsksStep DEF GetAdminFundingReconciliationPreview, VerifyKinds, SweepKinds
  <1>4. \A f \in Pending : row[f] # NoRow
    BY DEF Pending, NoRow
  <1>5. CASE ReconcileRecentPendingFundings(c)
    BY <1>4, <1>5, AsksStep DEF ReconcileRecentPendingFundings, VerifyKinds, SweepKinds
  <1>6. \A f \in StalePending : row[f] # NoRow /\ f \in old
    BY <1>4 DEF StalePending
  <1>7. ASSUME UNCHANGED <<row, credited, old, payment, events, call>>
        PROVE  FundingInv'
    BY <1>7 DEF FundingInv, RowInv, GatewayInv, StartingInv, GoodCall, Clean,
                Starting, Sound
  <1>8. CASE MaybeSweepAbandonedFundings(c)
    <2>1. CASE UNCHANGED call
      BY <1>7, <1>8, <2>1 DEF MaybeSweepAbandonedFundings
    <2>2. CASE Asks(c, "sweep", StalePending)
      BY <1>6, <1>8, <2>2, AsksStep
      DEF MaybeSweepAbandonedFundings, VerifyKinds, SweepKinds
    <2> QED
      BY <1>8, <2>1, <2>2 DEF MaybeSweepAbandonedFundings
  <1>9. CASE RunAbandonedFundingSweep(c)
    <2>1. CASE UNCHANGED call
      BY <1>7, <1>9, <2>1 DEF RunAbandonedFundingSweep
    <2>2. CASE Asks(c, "adminSweep", StalePending)
      BY <1>6, <1>9, <2>2, AsksStep
      DEF RunAbandonedFundingSweep, VerifyKinds, SweepKinds
    <2> QED
      BY <1>9, <2>1, <2>2 DEF RunAbandonedFundingSweep
  <1> QED
    BY <1>1, <1>2, <1>3, <1>5, <1>8, <1>9, InitiateFundingStep DEF Begins

-----------------------------------------------------------------------------
(* Answers of the gateway and what is written after them.                  *)

LEMMA VerifySteps ==
  ASSUME FundingInv, TypeOK', NEW c \in Calls, NEW f \in Fundings,
         \/ PaymentConfirmed(c, f) \/ PaymentNotFound(c, f)
         \/ GatewayUnreachable(c, f)
  PROVE  FundingInv'
  <1>1. /\ call[c] \in CallRecords /\ GoodCall(call[c])
        /\ RowInv(f) /\ GatewayInv(f) /\ row[f] \in Rows
    BY DEF FundingInv, TypeOK
  <1>2. /\ call[c].kind \in VerifyKinds /\ call[c].answer = "awaited"
        /\ call[c].rows[f] # NoRow
    BY DEF PaymentConfirmed, PaymentNotFound, GatewayUnreachable, Verifies, Todo
  <1>3. call[c].kind \notin {"initiate", "failed"}
    BY <1>2 DEF VerifyKinds, SweepKinds
  <1>4. UNCHANGED <<row, credited, old, payment, events>>
    BY DEF PaymentConfirmed, PaymentNotFound, GatewayUnreachable
  <1>5. \A g \in Fundings : RowMayChange(g)
    BY <1>4 DEF RowMayChange
  <1>6. ASSUME NEW answer \in {"none"} \cup Amounts, Answered(c, f, answer),
               answer \in Amounts =>
                  payment[f] \in Received /\ (payment[f] = "full" => answer = "full"),
               answer = "none" /\ call[c].kind \in SweepKinds =>
                  payment[f] \notin {"opened", "shown", "full"}
        PROVE  FundingInv'
    <2> DEFINE k == [call[c] EXCEPT !.f = f, !.answer = answer]
    <2>1. /\ k \in CallRecords /\ k.kind = call[c].kind /\ k.rows = call[c].rows
          /\ k.f = f /\ k.answer = answer
      BY <1>1 DEF CallRecords
    <2>2. GoodCall(k)
      BY <1>1, <1>2, <1>3, <1>6, <2>1 DEF GoodCall
    <2> QED
      BY <1>3, <1>4, <1>6, <2>1, <2>2, HandlerStep DEF Answered
  <1>7. CASE PaymentConfirmed(c, f)
    <2>1. CASE Answered(c, f, Transferred(f))
      <3>1. Transferred(f) \in Amounts
        BY <1>7 DEF PaymentConfirmed, Transferred, Received, Amounts
      <3>2. payment[f] = "full" => Transferred(f) = "full"
        BY DEF Transferred
      <3>3. "none" \notin Amounts
        BY DEF Amounts
      <3> QED
        BY <1>6, <1>7, <2>1, <3>1, <3>2, <3>3 DEF PaymentConfirmed
    <2>2. CASE Ends(c)
      BY <1>4, <1>5, <2>2, EndsStep
    <2>3. CASE call' = [call EXCEPT ![c] =
                          [call[c] EXCEPT !.kind = "admin",
                             !.rows = [call[c].rows EXCEPT ![f] = row[f]]]]
      <3> DEFINE copies == [call[c].rows EXCEPT ![f] = row[f]]
                 k == [call[c] EXCEPT !.kind = "admin", !.rows = copies]
      <3>1. /\ copies \in [Fundings -> Rows]
            /\ \A g \in Fundings :
                 copies[g] = (IF g = f THEN row[g] ELSE call[c].rows[g])
        BY <1>1 DEF CallRecords
      <3>2. /\ k \in CallRecords /\ k.kind = "admin" /\ k.answer = "awaited"
            /\ k.rows = copies
        BY <1>1, <1>2, <3>1 DEF CallRecords, Kinds, VerifyKinds
      <3>3. row[f] # NoRow
        BY <1>1, <1>2 DEF GoodCall
      <3>4. Clean(f) => GoodRow(row[f])
        BY <1>1 DEF RowInv, Sound
      <3>5. GoodCall(k)
        BY <1>1, <3>1, <3>2, <3>3, <3>4 DEF GoodCall, Amounts, SweepKinds
      <3> QED
        BY <1>4, <2>3, <3>2, <3>5, HandlerStep
    <2> QED
      BY <1>7, <2>1, <2>2, <2>3 DEF PaymentConfirmed
  <1>8. CASE PaymentNotFound(c, f)
    <2>1. CASE call[c].kind \in SweepKinds
      <3>1. f \in old
        BY <1>1, <1>2, <2>1 DEF GoodCall
      <3>2. payment[f] \notin {"opened", "shown", "full"}
        BY <1>1, <1>8, <3>1 DEF GatewayInv, PaymentNotFound, Received
      <3>3. "none" \notin Amounts
        BY DEF Amounts
      <3> QED
        BY <1>6, <1>8, <2>1, <3>2, <3>3 DEF PaymentNotFound
    <2>2. CASE call[c].kind \notin SweepKinds
      BY <1>3, <1>4, <1>5, <1>8, <2>2, ProcessedStep DEF PaymentNotFound
    <2> QED
      BY <2>1, <2>2
  <1>9. CASE GatewayUnreachable(c, f)
    BY <1>3, <1>4, <1>5, <1>9, ProcessedStep DEF GatewayUnreachable
  <1> QED
    BY <1>7, <1>8, <1>9

(* A handler with a confirmed amount: the funding in hand, and if it is    *)
(* clean, nothing but a credit of the full amount can come of it.          *)
LEMMA CompletingFacts ==
  ASSUME FundingInv, NEW c \in Calls, Completes(c)
  PROVE  /\ call[c].kind \notin {"initiate", "failed"}
         /\ call[c].f \in Fundings
         /\ payment[call[c].f] \in Received
         /\ row[call[c].f] # NoRow
         /\ Copy(c) \in Rows
         /\ Clean(call[c].f) =>
              /\ payment[call[c].f] = "full"
              /\ call[c].answer = "full" /\ Expected(Copy(c)) = "full"
              /\ GoodRow(Copy(c))
  <1>1. GoodCall(call[c]) /\ call[c] \in CallRecords /\ call[c].answer \in Amounts
    BY DEF FundingInv, TypeOK, Completes
  <1>2. call[c].kind \notin {"initiate", "failed"}
    BY <1>1 DEF GoodCall, Amounts
  <1> DEFINE f == call[c].f
  <1>3. /\ f \in Fundings /\ payment[f] \in Received
        /\ call[c].rows[f] # NoRow /\ row[f] # NoRow
        /\ payment[f] = "full" => call[c].answer = "full"
        /\ Clean(f) => GoodRow(call[c].rows[f])
    BY <1>1 DEF GoodCall
  <1>4. Copy(c) = call[c].rows[f] /\ Copy(c) \in Rows
    BY <1>1, <1>3 DEF Copy, CallRecords
  <1>5. \A d \in Calls : ~Starting(d, f)
    BY <1>3 DEF FundingInv, StartingInv, Received
  <1>6. Clean(f) => payment[f] = "full"
    BY <1>3, <1>5 DEF Clean, Received
  <1> QED
    BY <1>2, <1>3, <1>4, <1>6 DEF GoodRow, Expected

LEMMA CompleteSteps ==
  ASSUME FundingInv, TypeOK', NEW c \in Calls,
         AlreadyConfirmed(c) \/ AmountMismatch(c) \/ CompleteFundingTransaction(c)
  PROVE  FundingInv'
  <1> DEFINE f == call[c].f
  <1>1. Completes(c) /\ Processed(c, f) /\ UNCHANGED <<old, payment, events>>
    BY DEF AlreadyConfirmed, AmountMismatch, CompleteFundingTransaction
  <1>2. /\ call[c].kind \notin {"initiate", "failed"}
        /\ f \in Fundings /\ payment[f] \in Received /\ row[f] # NoRow
        /\ Copy(c) \in Rows
        /\ Clean(f) => /\ payment[f] = "full"
                       /\ call[c].answer = "full" /\ Expected(Copy(c)) = "full"
                       /\ GoodRow(Copy(c))
    BY <1>1, CompletingFacts
  <1>3. RowInv(f) /\ row[f] \in Rows /\ credited[f] \in 0..2
    BY <1>2 DEF FundingInv, TypeOK
  <1>4. \A g \in Fundings : RowMayChange(g)
    <2>1. CASE AlreadyConfirmed(c)
      BY <2>1 DEF AlreadyConfirmed, RowMayChange
    <2>2. CASE AmountMismatch(c)
      <3>1. \A g \in Fundings : row'[g] = (IF g = f THEN FailedRow ELSE row[g])
        BY <2>2 DEF AmountMismatch, FundingInv, TypeOK
      <3>2. ~Clean(f)
        BY <1>2, <2>2 DEF AmountMismatch
      <3>3. RowMayChange(f)
        BY <1>2, <1>3, <2>2, <3>1, <3>2, RowConstants
        DEF AmountMismatch, RowMayChange, FailedRow, RowInv
      <3> QED
        BY <2>2, <3>1, <3>3 DEF AmountMismatch, RowMayChange
    <2>3. CASE CompleteFundingTransaction(c)
      <3>1. CASE ~Claimable(row[f])
        BY <2>3, <3>1 DEF CompleteFundingTransaction, RowMayChange
      <3>2. CASE Claimable(row[f])
        <4>1. /\ \A g \in Fundings : row'[g] =
                   (IF g = f THEN [Copy(c) EXCEPT !.status = "SUCCESS"] ELSE row[g])
              /\ \A g \in Fundings : credited'[g] =
                   (IF g = f THEN OneMore(credited[g]) ELSE credited[g])
          BY <2>3, <3>2 DEF CompleteFundingTransaction, FundingInv, TypeOK
        <4>2. row'[f].status = "SUCCESS" /\ row'[f].fee = Copy(c).fee
          BY <1>2, <4>1 DEF Rows
        <4>3. row'[f] # NoRow
          BY <4>2 DEF NoRow
        <4>4. credited'[f] > 0
          BY <1>2, <1>3, <4>1 DEF OneMore
        <4>5. Clean(f) => Sound(f, row'[f], credited'[f])
          <5>1. SUFFICES ASSUME Clean(f)
                         PROVE  Sound(f, row'[f], credited'[f])
            OBVIOUS
          <5>2. row[f].status = "PENDING" /\ credited[f] = 0
            BY <1>3, <3>2, <5>1 DEF RowInv, Sound, GoodRow, Claimable
          <5>3. credited'[f] = 1
            BY <1>2, <4>1, <5>2 DEF OneMore
          <5> QED
            BY <1>2, <4>2, <5>1, <5>3 DEF Sound, GoodRow
        <4>6. RowMayChange(f)
          BY <1>2, <4>2, <4>3, <4>4, <4>5 DEF RowMayChange
        <4> QED
          BY <4>1, <4>6 DEF RowMayChange
      <3> QED
        BY <3>1, <3>2
    <2> QED
      BY <2>1, <2>2, <2>3
  <1> QED
    BY <1>1, <1>2, <1>4, ProcessedStep

LEMMA WriteFailedSteps ==
  ASSUME FundingInv, TypeOK', NEW c \in Calls,
         MarkFundingTransactionFailed(c) \/ MarkFundingAbandoned(c)
  PROVE  FundingInv'
  <1> DEFINE f == call[c].f
  <1>1. GoodCall(call[c]) /\ call[c] \in CallRecords
    BY DEF FundingInv, TypeOK
  <1>2. CASE MarkFundingTransactionFailed(c)
    <2>1. f \in Fundings /\ <<f, "failed">> \in events
      BY <1>1, <1>2 DEF GoodCall, MarkFundingTransactionFailed
    <2>2. RowInv(f) /\ GatewayInv(f) /\ credited[f] \in 0..2
      BY <2>1 DEF FundingInv, TypeOK
    <2>3. row[f] # NoRow
      BY <2>1, <2>2 DEF RowInv
    <2>4. ~Clean(f)
      BY <2>1, <2>2 DEF GatewayInv, Clean
    <2>5. \A g \in Fundings : row'[g] = (IF g = f THEN FailedRow ELSE row[g])
      BY <1>2 DEF MarkFundingTransactionFailed, FundingInv, TypeOK
    <2>6. RowMayChange(f)
      BY <1>2, <2>1, <2>2, <2>3, <2>4, <2>5, RowConstants
      DEF MarkFundingTransactionFailed, RowMayChange, RowInv, FailedRow
    <2>7. \A g \in Fundings : RowMayChange(g)
      BY <1>2, <2>5, <2>6 DEF MarkFundingTransactionFailed, RowMayChange
    <2> QED
      BY <1>2, <2>7, EndsStep DEF MarkFundingTransactionFailed
  <1>3. CASE MarkFundingAbandoned(c)
    <2>1. /\ f \in Fundings /\ call[c].rows[f] # NoRow
          /\ payment[f] \notin {"opened", "shown", "full"}
          /\ row[f] # NoRow /\ f \in old
      BY <1>1, <1>3 DEF GoodCall, MarkFundingAbandoned
    <2>2. RowInv(f) /\ credited[f] \in 0..2
      BY <2>1 DEF FundingInv, TypeOK
    <2>3. \A d \in Calls : ~Starting(d, f)
      BY <2>1 DEF FundingInv, StartingInv
    <2>4. ~Clean(f)
      BY <2>1, <2>3 DEF Clean
    <2>5. Copy(c) \in Rows
      BY <1>1, <2>1 DEF Copy, CallRecords
    <2>6. \A g \in Fundings : row'[g] =
             (IF g = f THEN [Copy(c) EXCEPT !.status = "FAILED"] ELSE row[g])
      BY <1>3 DEF MarkFundingAbandoned, FundingInv, TypeOK
    <2>7. row'[f].status = "FAILED" /\ row'[f] # NoRow
      BY <2>1, <2>5, <2>6 DEF Rows, NoRow
    <2>8. RowMayChange(f)
      BY <1>3, <2>1, <2>2, <2>4, <2>7 DEF MarkFundingAbandoned, RowMayChange, RowInv
    <2>9. \A g \in Fundings : RowMayChange(g)
      BY <1>3, <2>6, <2>8 DEF MarkFundingAbandoned, RowMayChange
    <2>10. call[c].kind \notin {"initiate", "failed"}
      BY <1>3 DEF MarkFundingAbandoned, SweepKinds
    <2> QED
      BY <1>3, <2>9, <2>10, ProcessedStep DEF MarkFundingAbandoned
  <1> QED
    BY <1>2, <1>3

LEMMA WriteFailsStep ==
  ASSUME FundingInv, TypeOK', NEW c \in Calls, WriteFails(c)
  PROVE  FundingInv'
  <1>1. \A g \in Fundings : RowMayChange(g)
    BY DEF WriteFails, RowMayChange
  <1>2. CASE Completes(c)
    BY <1>1, <1>2, CompletingFacts, ProcessedStep DEF WriteFails
  <1>3. CASE ~Completes(c)
    BY <1>1, <1>3, EndsStep DEF WriteFails
  <1> QED
    BY <1>2, <1>3

-----------------------------------------------------------------------------
(* The rest of initiateFunding.                                            *)

LEMMA InitiatePaymentStep ==
  ASSUME FundingInv, TypeOK', NEW c \in Calls, InitiatePayment(c)
  PROVE  FundingInv'
  <1>0. call[c].f \in Fundings
    BY DEF InitiatePayment, FundingInv, GoodCall
  <1> PICK f \in Fundings : f = call[c].f
    BY <1>0
  <1>1. call[c].kind = "initiate" /\ call[c].answer = "awaited" /\ call[c].f = f
    BY DEF InitiatePayment
  <1>2. Starting(c, f)
    BY <1>1 DEF Starting
  <1>3. /\ f \notin old /\ payment[f] = "unknown"
        /\ <<f, "success">> \notin events /\ <<f, "failed">> \notin events
        /\ row[f] # NoRow /\ Sound(f, row[f], credited[f])
        /\ \A d \in Calls : Starting(d, f) => d = c
    BY <1>1, <1>2 DEF FundingInv, StartingInv, GatewayInv, RowInv, Clean, Received
  <1>4. PICK answer \in {"opened", "error"} :
          /\ answer = "opened" => payment'[f] = "opened"
          /\ call' = [call EXCEPT ![c].answer = answer]
    BY <1>1 DEF InitiatePayment
  <1>5. /\ payment'[f] \in {"unknown", "opened"}
        /\ \A g \in Fundings : g # f => payment'[g] = payment[g]
    BY <1>1, <1>3 DEF InitiatePayment, FundingInv, TypeOK
  <1>6. /\ call'[c].kind = "initiate" /\ call'[c].f = f /\ call'[c].answer = answer
        /\ call'[c].rows = call[c].rows
        /\ \A d \in Calls : d # c => call'[d] = call[d]
    BY <1>1, <1>4 DEF FundingInv, TypeOK, CallRecords
  <1>7. \A d \in Calls, g \in Fundings : Starting(d, g)' <=> Starting(d, g)
    BY <1>1, <1>6 DEF Starting
  <1>8. /\ Clean(f)
        /\ \A g \in Fundings : Clean(g)' => Clean(g)
    <2>1. Clean(f)
      BY <1>1, <1>2 DEF Clean
    <2>2. ASSUME NEW g \in Fundings, g # f, Clean(g)'
          PROVE  Clean(g)
      <3>1. ~Starting(c, g)
        BY <2>2 DEF Starting
      <3> QED
        BY <1>5, <1>6, <1>7, <2>2, <3>1 DEF Clean
    <2> QED
      BY <2>1, <2>2
  <1>9. UNCHANGED <<row, credited, old, events>>
    BY DEF InitiatePayment
  <1>10. ASSUME NEW g \in Fundings
         PROVE  RowInv(g)' /\ GatewayInv(g)'
    <2>1. RowInv(g) /\ GatewayInv(g)
      BY DEF FundingInv
    <2>2. CASE g = f
      <3>1. RowInv(f)'
        BY <1>3, <1>5, <1>9, <2>1, <2>2 DEF RowInv, Sound, Received
      <3>2. GatewayInv(f)'
        BY <1>3, <1>9 DEF GatewayInv
      <3> QED
        BY <2>2, <3>1, <3>2
    <2>3. CASE g # f
      <3>1. RowInv(g)'
        BY <1>5, <1>7, <1>8, <1>9, <2>1, <2>3 DEF RowInv, Sound
      <3>2. \A d \in Calls : Starting(d, g)' => d # c /\ Starting(d, g)
        BY <1>7, <2>3 DEF Starting
      <3>3. GatewayInv(g)'
        BY <1>5, <1>6, <1>9, <2>1, <2>3, <3>2 DEF GatewayInv
      <3> QED
        BY <3>1, <3>3
    <2> QED
      BY <2>2, <2>3
  <1>11. ASSUME NEW d \in Calls, NEW g \in Fundings
         PROVE  StartingInv(d, g)'
    <2>1. StartingInv(d, g)
      BY DEF FundingInv
    <2>2. CASE g = f
      BY <1>3, <1>4, <1>5, <1>6, <1>7, <1>9, <2>2 DEF StartingInv
    <2>3. CASE g # f
      <3>1. Starting(d, g)' => d # c
        BY <1>7, <2>3 DEF Starting
      <3> QED
        BY <1>5, <1>6, <1>7, <1>9, <2>1, <2>3, <3>1 DEF StartingInv
    <2> QED
      BY <2>2, <2>3
  <1>12. ASSUME NEW d \in Calls
         PROVE  GoodCall(call[d])'
    <2>1. GoodCall(call[d])
      BY DEF FundingInv
    <2>2. CASE d = c
      <3>1. answer \notin Amounts /\ "initiate" \notin SweepKinds
        BY DEF Amounts, SweepKinds
      <3> QED
        BY <1>1, <1>6, <1>8, <1>9, <2>1, <2>2, <3>1 DEF GoodCall
    <2>3. CASE d # c
      <3>1. call[d].kind \in SweepKinds /\ call[d].answer = "none" => call[d].f # f
        BY <1>3, <2>1 DEF GoodCall
      <3>2. call[d].answer \in Amounts => call[d].f # f
        BY <1>3, <2>1 DEF GoodCall, Received
      <3> QED
        BY <1>5, <1>6, <1>8, <1>9, <2>1, <2>3, <3>1, <3>2 DEF GoodCall
    <2> QED
      BY <2>2, <2>3
  <1> QED
    BY <1>10, <1>11, <1>12 DEF FundingInv

(* The initiating handler is gone: what it leaves behind.                  *)
LEMMA InitiationEnds ==
  ASSUME FundingInv, TypeOK', NEW c \in Calls,
         CheckoutReturned(c) \/ InitiationFailed(c)
  PROVE  FundingInv'
  <1>0. call[c].f \in Fundings
    BY DEF CheckoutReturned, InitiationFailed, FundingInv, GoodCall
  <1> PICK f \in Fundings : f = call[c].f
    BY <1>0
  <1>1. call[c].kind = "initiate" /\ call[c].answer # "awaited" /\ call[c].f = f
    BY DEF CheckoutReturned, InitiationFailed
  <1>2. Starting(c, f)
    BY <1>1 DEF Starting
  <1>3. /\ f \notin old /\ payment[f] \in {"unknown", "opened"}
        /\ row[f] # NoRow /\ row[f] \in Rows /\ credited[f] = 0
        /\ row[f].status # "SUCCESS"
        /\ \A d \in Calls : Starting(d, f) => d = c
    <2>1. RowInv(f) /\ StartingInv(c, f) /\ row[f] \in Rows /\ credited[f] \in 0..2
      BY DEF FundingInv, TypeOK
    <2>2. /\ f \notin old /\ payment[f] \in {"unknown", "opened"}
          /\ \A d \in Calls : Starting(d, f) => d = c
      BY <1>2, <2>1 DEF StartingInv
    <2>3. row[f] # NoRow
      BY <1>2, <2>1 DEF RowInv
    <2>4. credited[f] = 0 /\ row[f].status # "SUCCESS"
      BY <2>1, <2>2 DEF RowInv, Received
    <2> QED
      BY <2>1, <2>2, <2>3, <2>4
  <1>4. payment[f] = "opened" => row[f].status = "PENDING"
    BY <1>1, <1>2, <1>3 DEF FundingInv, RowInv, Clean, Sound
  <1>5. /\ call'[c] = IdleCall
        /\ \A d \in Calls : d # c => call'[d] = call[d]
    BY DEF CheckoutReturned, InitiationFailed, Ends, FundingInv, TypeOK
  <1>6. \A d \in Calls, g \in Fundings :
           Starting(d, g)' => d # c /\ g # f /\ Starting(d, g)
    BY <1>3, <1>5 DEF Starting, IdleCall
  <1>7. UNCHANGED <<credited, old, events>>
    BY DEF CheckoutReturned, InitiationFailed
  <1>8. /\ row'[f] # NoRow /\ row'[f].status # "SUCCESS"
        /\ \A g \in Fundings : g # f => row'[g] = row[g]
        /\ \A g \in Fundings : g # f => payment'[g] = payment[g]
        /\ payment'[f] \in {"unknown", "opened", "shown"}
        /\ payment'[f] = "shown" =>
              GoodRow(row'[f]) /\ row'[f].status = "PENDING" /\ payment[f] = "opened"
        /\ payment[f] = "unknown" => payment'[f] = "unknown"
    <2>1. CASE CheckoutReturned(c)
      <3>1. row' = [row EXCEPT ![f] = [row[f] EXCEPT !.fee = TRUE]]
        BY <2>1 DEF CheckoutReturned
      <3>2. \A g \in Fundings :
               row'[g] = (IF g = f THEN [row[f] EXCEPT !.fee = TRUE] ELSE row[g])
        BY <3>1 DEF FundingInv, TypeOK
      <3>3. row'[f].fee = TRUE /\ row'[f].status = row[f].status
        BY <1>1, <1>3, <3>2 DEF Rows
      <3>5. /\ \A g \in Fundings : g # f => payment'[g] = payment[g]
            /\ payment'[f] = (IF payment[f] = "opened" THEN "shown" ELSE payment[f])
        BY <1>1, <2>1 DEF CheckoutReturned, FundingInv, TypeOK
      <3>6. row'[f] # NoRow
        BY <3>3 DEF NoRow
      <3> QED
        BY <1>3, <1>4, <3>2, <3>3, <3>5, <3>6 DEF GoodRow
    <2>2. CASE InitiationFailed(c)
      <3>1. \A g \in Fundings : row'[g] =
              (IF g = f THEN [status |-> "FAILED", fee |-> TRUE] ELSE row[g])
        BY <2>2 DEF InitiationFailed, FundingInv, TypeOK
      <3> QED
        BY <1>1, <1>3, <2>2, <3>1 DEF InitiationFailed, NoRow
    <2> QED
      BY <2>1, <2>2
  <1>9. \A g \in Fundings : Clean(g)' => Clean(g)
    <2>1. ASSUME NEW g \in Fundings, g # f, Clean(g)'
          PROVE  Clean(g)
      BY <1>5, <1>6, <1>8, <2>1 DEF Clean
    <2>2. Clean(f)' => payment'[f] = "shown"
      BY <1>6, <1>8 DEF Clean
    <2>3. payment[f] = "opened" => Clean(f)
      BY <1>1, <1>2 DEF Clean
    <2> QED
      BY <1>8, <2>1, <2>2, <2>3
  <1>10. Clean(f)' => payment'[f] = "shown"
    BY <1>6, <1>8 DEF Clean
  <1>11. ASSUME NEW g \in Fundings
         PROVE  RowInv(g)' /\ GatewayInv(g)'
    <2>1. RowInv(g) /\ GatewayInv(g)
      BY DEF FundingInv
    <2>2. CASE g = f
      <3>1. RowInv(f)'
        BY <1>3, <1>7, <1>8, <1>10 DEF RowInv, Sound
      <3>2. <<f, "failed">> \in events => payment'[f] = "unknown"
        BY <1>3, <1>8, <2>1, <2>2 DEF GatewayInv
      <3>3. <<f, "success">> \notin events
        BY <1>3, <2>1, <2>2 DEF GatewayInv, Received
      <3>4. GatewayInv(f)'
        BY <1>3, <1>6, <1>7, <3>2, <3>3 DEF GatewayInv
      <3> QED
        BY <2>2, <3>1, <3>4
    <2>3. CASE g # f
      <3>1. RowInv(g)'
        BY <1>6, <1>7, <1>8, <1>9, <2>1, <2>3 DEF RowInv, Sound
      <3>2. GatewayInv(g)'
        BY <1>5, <1>6, <1>7, <1>8, <2>1, <2>3 DEF GatewayInv
      <3> QED
        BY <3>1, <3>2
    <2> QED
      BY <2>2, <2>3
  <1>12. ASSUME NEW d \in Calls, NEW g \in Fundings
         PROVE  StartingInv(d, g)'
    <2>1. StartingInv(d, g)
      BY DEF FundingInv
    <2> QED
      BY <1>5, <1>6, <1>7, <1>8, <2>1 DEF StartingInv
  <1>13. ASSUME NEW d \in Calls
         PROVE  GoodCall(call[d])'
    <2>1. GoodCall(call[d])
      BY DEF FundingInv
    <2>2. CASE d = c
      BY <1>5, <2>2 DEF GoodCall, IdleCall, SweepKinds, Amounts
    <2>3. CASE d # c
      <3>1. /\ call[d].kind \in SweepKinds /\ call[d].answer = "none" => call[d].f # f
            /\ call[d].answer \in Amounts => call[d].f # f
        BY <1>3, <2>1 DEF GoodCall, Received
      <3>2. \A g \in Fundings : row[g] # NoRow => row'[g] # NoRow
        BY <1>8
      <3> QED
        BY <1>5, <1>7, <1>8, <1>9, <2>1, <2>3, <3>1, <3>2 DEF GoodCall
    <2> QED
      BY <2>2, <2>3
  <1> QED
    BY <1>11, <1>12, <1>13 DEF FundingInv

-----------------------------------------------------------------------------
(* The gateway, the clock and the process.                                 *)

(* A funding is shown or just opened before anything is received of it.    *)
LEMMA TransferStep ==
  ASSUME FundingInv, TypeOK', NEW f \in Fundings, Transfer(f)
  PROVE  FundingInv'
  <1>1. UNCHANGED <<row, credited, old, call>>
    BY DEF Transfer
  <1>2. /\ payment[f] \in {"shown", "closed"} /\ payment'[f] \in Received
        /\ payment'[f] = "full" => payment[f] = "shown"
        /\ \A g \in Fundings : g # f => payment'[g] = payment[g]
    BY DEF Transfer, Received, FundingInv, TypeOK
  <1>3. payment[f] = "closed" => payment'[f] = "late"
    BY DEF Transfer, FundingInv, TypeOK
  <1>4. events' = events \cup {<<f, "success">>}
    BY DEF Transfer
  <1>5. \A c \in Calls : ~Starting(c, f)
    BY <1>2 DEF FundingInv, StartingInv
  <1>6. \A g \in Fundings : Clean(g)' => Clean(g)
    BY <1>1, <1>2, <1>5 DEF Clean, Starting, Received
  <1>7. ASSUME NEW g \in Fundings
        PROVE  RowInv(g)' /\ GatewayInv(g)'
    <2>1. RowInv(g) /\ GatewayInv(g)
      BY DEF FundingInv
    <2>2. CASE g = f
      <3>1. row[f] # NoRow
        BY <1>2, <2>1, <2>2 DEF RowInv
      <3>2. Clean(f)' => payment'[f] = "full" /\ payment[f] = "shown"
        BY <1>1, <1>2, <1>5 DEF Clean, Starting, Received
      <3>3. Clean(f)' => Sound(f, row[f], credited[f])'
        BY <1>1, <2>1, <2>2, <3>2 DEF RowInv, Clean, Sound
      <3>4. RowInv(f)'
        BY <1>1, <1>2, <2>1, <2>2, <3>1, <3>3 DEF RowInv
      <3>5. <<f, "failed">> \in events => payment[f] = "closed"
        BY <1>2, <2>1, <2>2 DEF GatewayInv
      <3>6. <<f, "failed">> \in events' => payment'[f] = "late"
        BY <1>3, <1>4, <3>5
      <3>7. \A c \in Calls : ~Starting(c, f)'
        BY <1>1, <1>5 DEF Starting
      <3>8. GatewayInv(f)'
        BY <1>1, <1>2, <3>6, <3>7 DEF GatewayInv, Received
      <3> QED
        BY <2>2, <3>4, <3>8
    <2>3. CASE g # f
      <3>1. \A e : <<g, e>> \in events' <=> <<g, e>> \in events
        BY <1>4, <2>3
      <3>2. RowInv(g)'
        BY <1>1, <1>2, <1>6, <2>1, <2>3, <3>1 DEF RowInv, Sound, Starting
      <3>3. GatewayInv(g)'
        BY <1>1, <1>2, <2>1, <2>3, <3>1 DEF GatewayInv, Starting
      <3> QED
        BY <3>2, <3>3
    <2> QED
      BY <2>2, <2>3
  <1>8. ASSUME NEW d \in Calls, NEW g \in Fundings
        PROVE  StartingInv(d, g)'
    <2>1. StartingInv(d, g)
      BY DEF FundingInv
    <2> QED
      BY <1>1, <1>2, <1>5, <2>1 DEF StartingInv, Starting
  <1>9. ASSUME NEW d \in Calls
        PROVE  GoodCall(call[d])'
    <2>1. GoodCall(call[d])
      BY DEF FundingInv
    <2>2. payment[f] \notin Received
      BY <1>2 DEF Received
    <2>3. \A g \in Fundings : payment[g] \in Received => payment'[g] = payment[g]
      BY <1>2, <2>2
    <2>4. call[d].kind \in SweepKinds /\ call[d].answer = "none" =>
             payment'[call[d].f] \notin {"opened", "shown", "full"}
      BY <1>2, <2>1 DEF GoodCall, Received
    <2> QED
      BY <1>1, <1>4, <1>6, <2>1, <2>3, <2>4 DEF GoodCall
  <1> QED
    BY <1>7, <1>8, <1>9 DEF FundingInv

(* What closes was not paid, so nothing relies on it any more.             *)
LEMMA CheckoutClosesStep ==
  ASSUME FundingInv, TypeOK', NEW f \in Fundings, CheckoutCloses(f)
  PROVE  FundingInv'
  <1>1. UNCHANGED <<row, credited, old, call>>
    BY DEF CheckoutCloses
  <1>2. /\ payment[f] \in {"opened", "shown"}
        /\ payment'[f] = (IF payment[f] = "shown" THEN "closed" ELSE "unknown")
        /\ \A g \in Fundings : g # f => payment'[g] = payment[g]
    BY DEF CheckoutCloses, FundingInv, TypeOK
  <1>3. events \subseteq events' /\ events' \subseteq events \cup {<<f, "failed">>}
    BY DEF CheckoutCloses
  <1>4. \A c \in Calls : Starting(c, f) => call[c].answer # "awaited"
    BY <1>2 DEF FundingInv, StartingInv
  <1>5. ~Clean(f)'
    BY <1>1, <1>2, <1>4 DEF Clean, Starting
  <1>6. \A g \in Fundings : g # f => (Clean(g)' <=> Clean(g))
    BY <1>1, <1>2 DEF Clean, Starting
  <1>7. ASSUME NEW g \in Fundings
        PROVE  RowInv(g)' /\ GatewayInv(g)'
    <2>1. RowInv(g) /\ GatewayInv(g)
      BY DEF FundingInv
    <2>2. CASE g = f
      <3>1. /\ row[f] # NoRow /\ credited[f] = 0 /\ <<f, "success">> \notin events
            /\ f \notin old
        BY <1>2, <2>1, <2>2 DEF RowInv, GatewayInv, Received, FundingInv, TypeOK
      <3>2. row[f].status # "SUCCESS"
        BY <2>1, <2>2, <3>1 DEF RowInv
      <3>3. RowInv(f)'
        BY <1>1, <1>5, <3>1, <3>2 DEF RowInv
      <3>4. <<f, "success">> \notin events'
        BY <1>3, <3>1
      <3>5. payment'[f] \in {"unknown", "closed"}
        BY <1>2
      <3>6. \A c \in Calls : Starting(c, f)' => call'[c].answer # "awaited"
        BY <1>1, <1>4 DEF Starting
      <3>7. GatewayInv(f)'
        BY <3>4, <3>5, <3>6 DEF GatewayInv
      <3> QED
        BY <2>2, <3>3, <3>7
    <2>3. CASE g # f
      <3>1. \A e : <<g, e>> \in events' <=> <<g, e>> \in events
        BY <1>3, <2>3
      <3>2. RowInv(g)'
        BY <1>1, <1>2, <1>6, <2>1, <2>3, <3>1 DEF RowInv, Sound, Starting
      <3>3. GatewayInv(g)'
        BY <1>1, <1>2, <2>1, <2>3, <3>1 DEF GatewayInv, Starting
      <3> QED
        BY <3>2, <3>3
    <2> QED
      BY <2>2, <2>3
  <1>8. ASSUME NEW d \in Calls, NEW g \in Fundings
        PROVE  StartingInv(d, g)'
    <2>1. StartingInv(d, g)
      BY DEF FundingInv
    <2>2. CASE g = f
      BY <1>1, <1>2, <1>4, <2>1, <2>2 DEF StartingInv, Starting
    <2>3. CASE g # f
      BY <1>1, <1>2, <2>1, <2>3 DEF StartingInv, Starting
    <2> QED
      BY <2>2, <2>3
  <1>9. ASSUME NEW d \in Calls
        PROVE  GoodCall(call[d])'
    <2>1. GoodCall(call[d])
      BY DEF FundingInv
    <2>2. \A g \in Fundings : payment[g] \in Received => payment'[g] = payment[g]
      BY <1>2 DEF Received
    <2>3. \A g \in Fundings : Clean(g)' => Clean(g)
      BY <1>5, <1>6
    <2>4. call[d].kind \in SweepKinds /\ call[d].answer = "none" =>
             payment'[call[d].f] \notin {"opened", "shown", "full"}
      BY <1>2, <2>1 DEF GoodCall
    <2> QED
      BY <1>1, <1>3, <2>1, <2>2, <2>3, <2>4 DEF GoodCall
  <1> QED
    BY <1>7, <1>8, <1>9 DEF FundingInv

LEMMA ClockSteps ==
  ASSUME FundingInv, TypeOK',
         \/ \E f \in Fundings : PassCutoff(f)
         \/ IntervalPasses
         \/ UNCHANGED vars
  PROVE  FundingInv'
  <1>1. UNCHANGED <<row, credited, payment, events, call>> /\ old \subseteq old'
    BY DEF PassCutoff, IntervalPasses, vars
  <1>2. \A f \in Fundings : (Clean(f)' <=> Clean(f))
    BY <1>1 DEF Clean, Starting
  <1>3. ASSUME NEW f \in Fundings, f \in old', f \notin old
        PROVE  /\ row[f] # NoRow /\ payment[f] \notin {"opened", "shown"}
               /\ \A c \in Calls : ~Starting(c, f)
    BY <1>3 DEF PassCutoff, IntervalPasses, vars, Starting
  <1>4. ASSUME NEW f \in Fundings
        PROVE  RowInv(f)' /\ GatewayInv(f)'
    <2>1. RowInv(f) /\ GatewayInv(f)
      BY DEF FundingInv
    <2>2. RowInv(f)'
      BY <1>1, <1>2, <1>3, <2>1 DEF RowInv, Sound, Starting
    <2>3. GatewayInv(f)'
      BY <1>1, <1>3, <2>1 DEF GatewayInv, Starting
    <2> QED
      BY <2>2, <2>3
  <1>5. ASSUME NEW d \in Calls, NEW f \in Fundings
        PROVE  StartingInv(d, f)'
    <2>1. StartingInv(d, f)
      BY DEF FundingInv
    <2> QED
      BY <1>1, <1>3, <2>1 DEF StartingInv, Starting
  <1>6. ASSUME NEW d \in Calls
        PROVE  GoodCall(call[d])'
    <2>1. GoodCall(call[d])
      BY DEF FundingInv
    <2> QED
      BY <1>1, <1>2, <2>1 DEF GoodCall
  <1> QED
    BY <1>4, <1>5, <1>6 DEF FundingInv

(* A restart forgets the handlers; a checkout nobody was shown stays unpaid. *)
LEMMA RestartStep ==
  ASSUME FundingInv, TypeOK', Restart
  PROVE  FundingInv'
  <1>1. UNCHANGED <<row, credited, old, payment, events>>
    BY DEF Restart
  <1>2. \A c \in Calls : call'[c] = IdleCall
    BY DEF Restart
  <1>3. \A c \in Calls, f \in Fundings : ~Starting(c, f)'
    BY <1>2 DEF Starting, IdleCall
  <1>4. \A f \in Fundings : Clean(f)' => Clean(f)
    BY <1>1, <1>3 DEF Clean
  <1>5. ASSUME NEW f \in Fundings
        PROVE  RowInv(f)' /\ GatewayInv(f)'
    <2>1. RowInv(f) /\ GatewayInv(f)
      BY DEF FundingInv
    <2>2. RowInv(f)'
      BY <1>1, <1>3, <1>4, <2>1 DEF RowInv, Sound
    <2>3. GatewayInv(f)'
      BY <1>1, <1>3, <2>1 DEF GatewayInv
    <2> QED
      BY <2>2, <2>3
  <1>6. \A d \in Calls, f \in Fundings : StartingInv(d, f)'
    BY <1>3 DEF StartingInv
  <1>7. ASSUME NEW d \in Calls
        PROVE  GoodCall(call[d])'
    BY <1>2 DEF GoodCall, IdleCall, SweepKinds, Amounts
  <1> QED
    BY <1>5, <1>6, <1>7 DEF FundingInv

-----------------------------------------------------------------------------
LEMMA FundingInvInit == Init => FundingInv
  <1> SUFFICES ASSUME Init
               PROVE  FundingInv
    OBVIOUS
  <1>1. TypeOK
    BY InitType
  <1>2. \A c \in Calls : call[c] = IdleCall
    BY DEF Init
  <1>3. \A c \in Calls, f \in Fundings : ~Starting(c, f)
    <2>1. IdleCall.kind = "idle"
      BY DEF IdleCall
    <2> QED
      BY <1>2, <2>1 DEF Starting
  <1>4. \A f \in Fundings : /\ row[f] = NoRow /\ credited[f] = 0
                            /\ payment[f] = "unknown"
    BY DEF Init
  <1>5. old = {} /\ events = {}
    BY DEF Init
  <1>6. ASSUME NEW f \in Fundings
        PROVE  RowInv(f) /\ GatewayInv(f)
    <2>1. ~Clean(f) /\ row[f].status = "NONE"
      BY <1>3, <1>4 DEF Clean, NoRow
    <2>2. RowInv(f)
      BY <1>3, <1>4, <1>5, <2>1 DEF RowInv
    <2>3. GatewayInv(f)
      BY <1>5 DEF GatewayInv
    <2> QED
      BY <2>2, <2>3
  <1>7. \A c \in Calls, f \in Fundings : StartingInv(c, f)
    BY <1>3 DEF StartingInv
  <1>8. \A c \in Calls : GoodCall(call[c])
    BY <1>2, IdleIsGood
  <1> QED
    BY <1>1, <1>6, <1>7, <1>8 DEF FundingInv

LEMMA FundingInvStep == FundingInv /\ [Next]_vars => FundingInv'
  <1> SUFFICES ASSUME FundingInv, [Next]_vars
               PROVE  FundingInv'
    OBVIOUS
  <1>1. TypeOK'
    BY StepType DEF FundingInv
  <1>2. ASSUME NEW c \in Calls, Begins(c)
        PROVE  FundingInv'
    BY <1>1, <1>2, BeginsStep
  <1>3. ASSUME NEW c \in Calls, Continues(c)
        PROVE  FundingInv'
    BY <1>1, <1>3, InitiatePaymentStep, InitiationEnds, VerifySteps, CompleteSteps,
       WriteFailedSteps, WriteFailsStep DEF Continues
  <1>4. ASSUME NEW f \in Fundings, Transfer(f) \/ CheckoutCloses(f)
        PROVE  FundingInv'
    BY <1>1, <1>4, TransferStep, CheckoutClosesStep
  <1>5. CASE Restart
    BY <1>1, <1>5, RestartStep
  <1>6. CASE (\E f \in Fundings : PassCutoff(f)) \/ IntervalPasses \/ UNCHANGED vars
    BY <1>1, <1>6, ClockSteps
  <1> QED
    BY <1>2, <1>3, <1>4, <1>5, <1>6 DEF Next

LEMMA FundingInvAlways == Spec => []FundingInv
  BY FundingInvInit, FundingInvStep, PTL DEF Spec

LEMMA CleanLedger ==
  FundingInv => CreditedAtMostOnce /\ LedgerAgrees /\ NothingForNothing
  <1> SUFFICES ASSUME FundingInv, NEW f \in Fundings
               PROVE  /\ payment[f] = "full" => credited[f] <= 1
                      /\ payment[f] = "full" =>
                            row[f].status = (IF credited[f] = 0 THEN "PENDING"
                                             ELSE "SUCCESS")
                      /\ credited[f] > 0 => payment[f] \in Received
                      /\ row[f].status = "SUCCESS" => credited[f] > 0
    BY DEF CreditedAtMostOnce, LedgerAgrees, NothingForNothing
  <1>1. RowInv(f)
    BY DEF FundingInv
  <1>2. payment[f] = "full" => Sound(f, row[f], credited[f])
    BY <1>1 DEF RowInv, Clean
  <1> QED
    BY <1>1, <1>2 DEF RowInv, Sound, GoodRow

(* However many handlers, copies, redeliveries, sweeps and restarts there  *)
(* are, a transfer in time and in full is credited at most once.           *)
THEOREM CreditedOnce == Spec => []CreditedAtMostOnce
  <1>1. FundingInv => CreditedAtMostOnce
    BY CleanLedger
  <1> QED
    BY <1>1, FundingInvAlways, PTL

(* Such a funding is never written off, and its row says SUCCESS exactly   *)
(* when the wallet was credited.                                           *)
THEOREM LedgerAlwaysAgrees == Spec => []LedgerAgrees
  <1>1. FundingInv => LedgerAgrees
    BY CleanLedger
  <1> QED
    BY <1>1, FundingInvAlways, PTL

(* No credit without a transfer at the gateway, no SUCCESS row without a   *)
(* credit.                                                                 *)
THEOREM NothingUnpaid == Spec => []NothingForNothing
  <1>1. FundingInv => NothingForNothing
    BY CleanLedger
  <1> QED
    BY <1>1, FundingInvAlways, PTL

=============================================================================
