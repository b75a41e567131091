------------------------- MODULE Withdrawals_proofs -------------------------
(***************************************************************************)
(* Theorems about Withdrawals, for any set of requests, any number of      *)
(* handlers in flight and any number of transfers.                         *)
(***************************************************************************)
EXTENDS Withdrawals, TLAPS

-----------------------------------------------------------------------------
(* Types.                                                                  *)

(* A handler that is not idle is at work on a request.                     *)
AtWork == \A c \in Calls : call[c].kind # "idle" => call[c].w \in Requests

LEMMA HandlerType ==
  ASSUME NEW kind \in {"idle", "review", "payout", "sent", "settled", "webhook"},
         NEW w \in Requests \cup {NoRequest}, NEW to \in Statuses, NEW ref \in Refs
  PROVE  /\ Handler(kind, w, to, ref) \in CallRecords
         /\ Handler(kind, w, to, ref).kind = kind /\ Handler(kind, w, to, ref).w = w
         /\ Handler(kind, w, to, ref).to = to /\ Handler(kind, w, to, ref).ref = ref
  BY DEF Handler, CallRecords, Rows

LEMMA IdleCallType ==
  /\ IdleCall \in CallRecords
  /\ IdleCall.kind = "idle" /\ IdleCall.w = NoRequest
  /\ IdleCall.to = "NONE" /\ IdleCall.ref = NoRef
  BY HandlerType DEF IdleCall, Refs, Statuses

LEMMA Constants ==
  /\ Decisions \subseteq Statuses
  /\ {"NONE", "PENDING", "APPROVED", "PROCESSING", "COMPLETED", "REJECTED"} = Statuses
  /\ NoRef \in Refs /\ HandRef \in Refs /\ Transfers \subseteq Refs
  BY DEF Decisions, Statuses, Refs

LEMMA EndsType ==
  ASSUME TypeOK, NEW c \in Calls, Ends(c)
  PROVE  call' \in [Calls -> CallRecords]
  BY IdleCallType DEF Ends, TypeOK

LEMMA MoneyTypes ==
  ASSUME TypeOK, NEW w \in Requests, Pays(w) \/ Returns(w)
  PROVE  /\ request' \in [Requests -> [status : Statuses, ref : Refs]]
         /\ counted' \in [Requests -> 0..2]
         /\ returned' \in [Requests -> 0..2]
  <1>1. "COMPLETED" \in Statuses /\ "REJECTED" \in Statuses
    BY DEF Statuses
  <1>2. \A n \in 0..2 : Once(n) \in 0..2
    BY DEF Once
  <1>3. CASE Pays(w)
    BY <1>1, <1>2, <1>3 DEF TypeOK, Pays
  <1>4. CASE Returns(w)
    BY <1>1, <1>2, <1>4 DEF TypeOK, Returns
  <1> QED
    BY <1>3, <1>4

(* A handler goes on with k.                                               *)
LEMMA GoesOn ==
  ASSUME TypeOK, AtWork, NEW c \in Calls, NEW k \in CallRecords, k.w \in Requests,
         call' = [call EXCEPT ![c] = k]
  PROVE  call' \in [Calls -> CallRecords] /\ AtWork'
  BY DEF TypeOK, AtWork

LEMMA ClosesRowType ==
  ASSUME TypeOK, NEW w \in Requests, NEW row \in Rows, ClosesRow(w, row)
  PROVE  ledger' \in [Requests -> Rows]
  BY DEF TypeOK, ClosesRow

LEMMA BeginsType ==
  ASSUME TypeOK, AtWork, NEW c \in Calls, Begins(c)
  PROVE  TypeOK' /\ AtWork'
  <1> USE DEF TypeOK, AtWork
  <1>1. ASSUME NEW w \in Requests, NEW to \in Decisions,
               NEW ref \in {NoRef, HandRef, request[w].ref},
               ReviewWithdrawalRequest(c, w, to, ref)
        PROVE  TypeOK' /\ AtWork'
    <2>1. [kind |-> "review", w |-> w, to |-> to, ref |-> ref, row |-> ledger[w]]
            \in CallRecords
      BY DEF CallRecords, Decisions, Refs
    <2> QED
      BY <1>1, <2>1, GoesOn DEF ReviewWithdrawalRequest, TakesOn, history
  <1>2. ASSUME NEW w \in Requests, RetryWithdrawalPayout(c, w)
        PROVE  TypeOK' /\ AtWork'
    <2>1. /\ Handler("payout", w, "NONE", NoRef) \in CallRecords
          /\ Handler("payout", w, "NONE", NoRef).w = w
      BY DEF Handler, CallRecords, Rows, Refs, Statuses
    <2>2. overlapped' \subseteq Requests
      BY <1>2, <2>1 DEF RetryWithdrawalPayout, TakesOn
    <2> QED
      BY <1>2, <2>1, <2>2, GoesOn DEF RetryWithdrawalPayout, TakesOn
  <1>3. ASSUME NEW w \in Requests, NEW t \in Transfers, NEW report \in Reports,
               FindPayout(c, w, t, report)
        PROVE  TypeOK' /\ AtWork'
    <2> DEFINE to == IF report = "success" THEN "COMPLETED" ELSE "REJECTED"
    <2>1. to \in Statuses
      BY Constants
    <2>2. Handler("webhook", w, to, t) \in CallRecords /\ Handler("webhook", w, to, t).w = w
      BY <2>1 DEF Handler, CallRecords, Rows, Refs, Statuses
    <2>3. call' = [call EXCEPT ![c] = Handler("webhook", w, to, t)]
      BY <1>3 DEF FindPayout, TakesOn
    <2>4. overlapped' \subseteq Requests /\ contested' \subseteq Requests
      BY <1>3, <2>2 DEF FindPayout, TakesOn
    <2> HIDE DEF to
    <2> QED
      BY <1>3, <2>2, <2>3, <2>4, GoesOn DEF FindPayout, TakesOn
  <1> QED
    BY <1>1, <1>2, <1>3 DEF Begins

LEMMA ContinuesType ==
  ASSUME TypeOK, AtWork, NEW c \in Calls, Continues(c)
  PROVE  TypeOK' /\ AtWork'
  <1>0. call[c].kind # "idle"
    BY DEF Continues, CommitRejection, CommitDecision, InitiateTransfer, AdvancePayout,
           SettlePayout, RecordPaid, RecordFailed
  <1>w. PICK w \in Requests : w = call[c].w
    BY <1>0 DEF AtWork
  <1>e. ASSUME Ends(c)
        PROVE  call' \in [Calls -> CallRecords] /\ AtWork'
    BY <1>e, EndsType, IdleCallType DEF AtWork, Ends, TypeOK
  <1>1. CASE CommitRejection(c)
    BY <1>1, <1>e, <1>w, MoneyTypes DEF CommitRejection, TypeOK, Rows, history
  <1>2. CASE CommitDecision(c)
    <2>3. call' \in [Calls -> CallRecords] /\ AtWork'
      <3>1. /\ Handler("payout", w, "NONE", NoRef) \in CallRecords
            /\ Handler("payout", w, "NONE", NoRef).w = w
        BY DEF Handler, CallRecords, Rows, Refs, Statuses
      <3>2. \/ call' = [call EXCEPT ![c] = Handler("payout", w, "NONE", NoRef)]
            \/ Ends(c)
        BY <1>2, <1>w DEF CommitDecision
      <3> QED
        BY <1>e, <3>1, <3>2, GoesOn
    <2>4. call[c].to \in Statuses /\ call[c].ref \in Refs
      BY DEF TypeOK, CallRecords
    <2>5. [status |-> call[c].to, ref |-> call[c].ref] \in [status : Statuses, ref : Refs]
      BY <2>4
    <2>6. request' \in [Requests -> [status : Statuses, ref : Refs]]
      BY <1>2, <1>w, <2>5 DEF CommitDecision, TypeOK
    <2>7. counted' \in [Requests -> 0..2] /\ ledger' \in [Requests -> Rows]
      <3>1. \A n \in 0..2 : Once(n) \in 0..2
        BY DEF Once
      <3>2. CASE call[c].to = "COMPLETED"
        <4>1. /\ counted' = [counted EXCEPT ![w] = Once(@)]
              /\ ledger' = [ledger EXCEPT ![w] = "SUCCESS"]
          BY <1>2, <1>w, <3>2 DEF CommitDecision
        <4>2. counted' \in [Requests -> 0..2]
          BY <3>1, <4>1 DEF TypeOK
        <4> QED
          BY <4>1, <4>2 DEF TypeOK, Rows
      <3>3. CASE call[c].to # "COMPLETED"
        BY <1>2, <3>3 DEF CommitDecision, TypeOK
      <3> QED
        BY <3>2, <3>3
    <2>8. /\ approved' \in {approved, approved \cup {w}}
          /\ UNCHANGED <<returned, transfer, events, overlapped, unanswered, contested>>
      BY <1>2, <1>w DEF CommitDecision, history
    <2> QED
      BY <1>w, <2>3, <2>6, <2>7, <2>8 DEF TypeOK
  <1>3. ASSUME NEW t \in Transfers, InitiateTransfer(c, t)
        PROVE  TypeOK' /\ AtWork'
    <2>1. PICK settled \in BOOLEAN :
            /\ transfer' = [transfer EXCEPT ![t] =
                              [of |-> w, state |-> IF settled THEN "paid" ELSE "pending"]]
            /\ \/ UNCHANGED events
               \/ settled /\ events' = events \cup {<<t, "success">>}
            /\ \/ /\ call' = [call EXCEPT ![c] =
                                Handler("sent", w, IF settled THEN "COMPLETED" ELSE "PROCESSING", t)]
                  /\ UNCHANGED unanswered
               \/ Ends(c) /\ unanswered' = unanswered \cup {w}
      BY <1>3, <1>w DEF InitiateTransfer
    <2>3. call' \in [Calls -> CallRecords] /\ AtWork'
      <3> DEFINE to == IF settled THEN "COMPLETED" ELSE "PROCESSING"
      <3>1. to \in Statuses
        BY Constants
      <3>2. Handler("sent", w, to, t) \in CallRecords /\ Handler("sent", w, to, t).w = w
        BY <3>1 DEF Handler, CallRecords, Rows, Refs, Statuses
      <3>3. call' = [call EXCEPT ![c] = Handler("sent", w, to, t)] \/ Ends(c)
        BY <2>1
      <3> HIDE DEF to
      <3> QED
        BY <1>e, <3>2, <3>3, GoesOn
    <2>4. transfer' \in [Transfers -> [of : Requests \cup {NoRequest},
                                       state : {"none", "pending", "paid", "failed"}]]
      BY <2>1 DEF TypeOK
    <2>5. events' \subseteq Transfers \X Reports
      BY <2>1 DEF TypeOK, Reports
    <2> QED
      <3>1. unanswered' \subseteq Requests
        BY <2>1 DEF TypeOK
      <3>2. UNCHANGED <<request, ledger, counted, returned, approved, overlapped, contested>>
        BY <1>3 DEF InitiateTransfer
      <3> QED
        BY <2>3, <2>4, <2>5, <3>1, <3>2 DEF TypeOK
  <1>4. CASE AdvancePayout(c)
    <2>1. call[c] \in CallRecords
      BY DEF TypeOK
    <2>4. call' \in [Calls -> CallRecords] /\ AtWork'
      <3>1. call[c].ref \in Refs
        BY <2>1 DEF CallRecords
      <3>2. /\ Handler("settled", w, "COMPLETED", call[c].ref) \in CallRecords
            /\ Handler("settled", w, "COMPLETED", call[c].ref).w = w
        BY <3>1 DEF Handler, CallRecords, Rows, Refs, Statuses
      <3> QED
        BY <1>4, <1>e, <1>w, <3>2, GoesOn DEF AdvancePayout
    <2>5. call[c].ref \in Refs /\ "PROCESSING" \in Statuses
      BY <2>1 DEF CallRecords, Statuses
    <2>6. request' \in [Requests -> [status : Statuses, ref : Refs]]
      BY <1>4, <1>w, <2>5 DEF AdvancePayout, TypeOK
    <2> QED
      BY <1>4, <2>4, <2>6 DEF AdvancePayout, TypeOK, history
  <1>5. CASE SettlePayout(c)
    BY <1>5, <1>e, <1>w, MoneyTypes, ClosesRowType DEF SettlePayout, TypeOK, Rows, history
  <1>6. CASE RecordPaid(c)
    BY <1>6, <1>e, <1>w, MoneyTypes, ClosesRowType DEF RecordPaid, TypeOK, Rows, history
  <1>7. CASE RecordFailed(c)
    BY <1>7, <1>e, <1>w, MoneyTypes, ClosesRowType DEF RecordFailed, TypeOK, Rows, history
  <1> QED
    BY <1>1, <1>2, <1>3, <1>4, <1>5, <1>6, <1>7 DEF Continues

(* A transfer that is out is of a request.                                 *)
Known == \A t \in Transfers : transfer[t].state # "none" => transfer[t].of \in Requests

LEMMA KnownStep ==
  ASSUME TypeOK, AtWork, Known, [Next]_vars
  PROVE  Known'
  <1>1. ASSUME NEW c \in Calls, NEW t \in Transfers, InitiateTransfer(c, t)
        PROVE  Known'
    <2>1. call[c].w \in Requests
      BY <1>1 DEF InitiateTransfer, AtWork
    <2>2. /\ \A u \in Transfers : u # t => transfer'[u] = transfer[u]
          /\ transfer'[t].of = call[c].w
      BY <1>1 DEF InitiateTransfer, TypeOK
    <2> QED
      BY <2>1, <2>2 DEF Known
  <1>2. ASSUME NEW t \in Transfers, GatewayPays(t) \/ GatewayFails(t) \/ GatewayReverses(t)
        PROVE  Known'
    <2>1. /\ transfer[t].state # "none" /\ transfer'[t].of = transfer[t].of
          /\ \A u \in Transfers : u # t => transfer'[u] = transfer[u]
      BY <1>2 DEF GatewayPays, GatewayFails, GatewayReverses, Moves, TypeOK
    <2> QED
      BY <2>1 DEF Known
  <1>3. CASE UNCHANGED transfer
    BY <1>3 DEF Known
  <1>4. ASSUME NEW w \in Requests, CreateWithdrawalRequest(w)
        PROVE  UNCHANGED transfer
    BY <1>4 DEF CreateWithdrawalRequest
  <1>5. ASSUME NEW c \in Calls, Begins(c) \/ Fails(c)
        PROVE  UNCHANGED transfer
    BY <1>5 DEF Begins, Fails, ReviewWithdrawalRequest, RetryWithdrawalPayout, FindPayout, TakesOn
  <1>6. ASSUME NEW c \in Calls, Continues(c), \A t \in Transfers : ~InitiateTransfer(c, t)
        PROVE  UNCHANGED transfer
    BY <1>6 DEF Continues, CommitRejection, CommitDecision, AdvancePayout, SettlePayout,
       RecordPaid, RecordFailed
  <1>7. ASSUME NEW t \in Transfers, NEW report \in Reports, IgnorePayout(t, report)
        PROVE  UNCHANGED transfer
    BY <1>7 DEF IgnorePayout
  <1>8. CASE UNCHANGED vars
    BY <1>3, <1>8 DEF vars
  <1> QED
    BY <1>1, <1>2, <1>3, <1>4, <1>5, <1>6, <1>7, <1>8 DEF Next, Gateway

LEMMA TypeStep ==
  ASSUME TypeOK, AtWork, Known, [Next]_vars
  PROVE  TypeOK' /\ AtWork'
  <1>1. ASSUME NEW w \in Requests, CreateWithdrawalRequest(w)
        PROVE  TypeOK' /\ AtWork'
    BY <1>1 DEF CreateWithdrawalRequest, TypeOK, AtWork, Statuses, Rows, history
  <1>2. ASSUME NEW c \in Calls, Fails(c)
        PROVE  TypeOK' /\ AtWork'
    BY <1>2, EndsType, IdleCallType DEF Fails, TypeOK, AtWork, Ends
  <1>3. CASE Gateway
    <2>1. ASSUME NEW t \in Transfers, GatewayPays(t) \/ GatewayFails(t) \/ GatewayReverses(t)
          PROVE  TypeOK' /\ AtWork'
      <3>1. /\ UNCHANGED <<request, ledger, counted, returned, approved, call,
                            overlapped, unanswered>>
            /\ \E to \in {"paid", "failed"}, report \in Reports :
                 /\ transfer' = [transfer EXCEPT ![t].state = to]
                 /\ events' = events \cup {<<t, report>>}
        BY <2>1 DEF GatewayPays, GatewayFails, GatewayReverses, Moves, Reports
      <3>2. contested' \subseteq Requests
        BY <2>1 DEF GatewayPays, GatewayFails, GatewayReverses, Moves, TypeOK, Known
      <3> QED
        BY <3>1, <3>2 DEF TypeOK, AtWork
    <2>2. ASSUME NEW t \in Transfers, NEW report \in Reports, IgnorePayout(t, report)
          PROVE  TypeOK' /\ AtWork'
      BY <2>2 DEF IgnorePayout, TypeOK, AtWork, history
    <2> QED
      BY <1>3, <2>1, <2>2 DEF Gateway
  <1>4. CASE UNCHANGED vars
    BY <1>4 DEF vars, history, TypeOK, AtWork
  <1> QED
    BY <1>1, <1>2, <1>3, <1>4, BeginsType, ContinuesType DEF Next

LEMMA TypeInit == Init => TypeOK /\ AtWork /\ Known
  BY IdleCallType DEF Init, TypeOK, AtWork, Known, Statuses, Refs, Rows

LEMMA TypeAlways == Spec => [](TypeOK /\ AtWork /\ Known)
  BY TypeInit, TypeStep, KnownStep, PTL DEF Spec

(* Rows, transfers and what handlers in flight keep are well formed.       *)
THEOREM WithdrawalTypeCorrect == Spec => []TypeOK
  BY TypeAlways, PTL

-----------------------------------------------------------------------------
(* What holds for every request, come what may.                            *)

(* A payout, and the status that allows to retry one, come after an        *)
(* approval, and so does what a handler is about to do.                    *)
Sends(c) ==
    \/ call[c].kind \in {"payout", "sent"}
    \/ call[c].kind = "review" /\ call[c].to = "PROCESSING"

ApprovalInv ==
    /\ \A w \in Requests : request[w].status \in {"APPROVED", "PROCESSING"} => w \in approved
    /\ \A c \in Calls : Sends(c) => call[c].w \in approved
    /\ NeverPaidUnapproved

(* After a step that leaves the handlers alone but for one that goes idle. *)
LEMMA EndsSends ==
  ASSUME TypeOK, NEW c \in Calls, Ends(c)
  PROVE  /\ ~Sends(c)'
         /\ \A d \in Calls : d # c => call'[d] = call[d]
  BY IdleCallType DEF Ends, TypeOK, Sends

LEMMA ApprovalStep ==
  ASSUME TypeOK, AtWork, ApprovalInv, [Next]_vars
  PROVE  ApprovalInv'
  <1> USE DEF ApprovalInv, NeverPaidUnapproved
  <1>1. ASSUME NEW w \in Requests, CreateWithdrawalRequest(w)
        PROVE  ApprovalInv'
    BY <1>1 DEF CreateWithdrawalRequest, TypeOK, Sends
  <1>2. ASSUME NEW c \in Calls, Begins(c)
        PROVE  ApprovalInv'
    <2>1. ASSUME NEW w \in Requests, NEW to \in Decisions,
                 NEW ref \in {NoRef, HandRef, request[w].ref},
                 ReviewWithdrawalRequest(c, w, to, ref)
          PROVE  ApprovalInv'
      <3>1. to = "PROCESSING" => request[w].status = "APPROVED"
        BY <2>1 DEF ReviewWithdrawalRequest, Transition
      <3> QED
        BY <2>1, <3>1 DEF ReviewWithdrawalRequest, TakesOn, TypeOK, Sends
    <2>2. ASSUME NEW w \in Requests, RetryWithdrawalPayout(c, w)
          PROVE  ApprovalInv'
      BY <2>2 DEF RetryWithdrawalPayout, TakesOn, Retryable, TypeOK, Sends, Handler
    <2>3. ASSUME NEW w \in Requests, NEW t \in Transfers, NEW report \in Reports,
                 FindPayout(c, w, t, report)
          PROVE  ApprovalInv'
      BY <2>3 DEF FindPayout, TakesOn, TypeOK, Sends, Handler
    <2> QED
      BY <1>2, <2>1, <2>2, <2>3 DEF Begins
  <1>3. ASSUME NEW c \in Calls, Continues(c)
        PROVE  ApprovalInv'
    <2>0. call[c].kind # "idle"
      BY <1>3 DEF Continues, CommitRejection, CommitDecision, InitiateTransfer, AdvancePayout,
             SettlePayout, RecordPaid, RecordFailed
    <2>w. PICK w \in Requests : w = call[c].w
      BY <2>0 DEF AtWork
    <2>1. CASE CommitRejection(c) \/ SettlePayout(c) \/ RecordPaid(c) \/ RecordFailed(c)
      <3>1. /\ Ends(c) /\ (Pays(w) \/ Returns(w))
            /\ UNCHANGED <<approved, transfer>>
        BY <2>1, <2>w DEF CommitRejection, SettlePayout, RecordPaid, RecordFailed
      <3>2. \A v \in Requests :
              request'[v].status \in {"APPROVED", "PROCESSING"} =>
                  request[v].status \in {"APPROVED", "PROCESSING"}
        BY <3>1 DEF Pays, Returns, TypeOK
      <3> QED
        BY <3>1, <3>2, EndsSends DEF Sends
    <2>2. CASE CommitDecision(c)
      <3>1. call[c].to \in {"APPROVED", "PROCESSING"} => w \in approved'
        BY <2>2, <2>w DEF CommitDecision, Sends
      <3>2. approved \subseteq approved'
        BY <2>2 DEF CommitDecision
      <3>3. \A v \in Requests : request'[v].status \in {"APPROVED", "PROCESSING"} => v \in approved'
        BY <2>2, <2>w, <3>1, <3>2 DEF CommitDecision, TypeOK
      <3>4. CASE call[c].to = "APPROVED"
        BY <2>2, <2>w, <3>1, <3>2, <3>3, <3>4 DEF CommitDecision, TypeOK, Sends, Handler
      <3>5. CASE call[c].to # "APPROVED"
        BY <2>2, <2>w, <3>2, <3>3, <3>5, EndsSends DEF CommitDecision, Sends
      <3> QED
        BY <3>4, <3>5
    <2>3. ASSUME NEW t \in Transfers, InitiateTransfer(c, t)
          PROVE  ApprovalInv'
      <3>1. w \in approved
        BY <2>3, <2>w DEF InitiateTransfer, Sends
      <3>2. /\ \A d \in Calls : d # c => call'[d] = call[d]
            /\ Sends(c)' => call'[c].w = w
        BY <2>3, <2>w, EndsSends DEF InitiateTransfer, TypeOK, Sends, Handler
      <3>3. /\ \A u \in Transfers : u # t => transfer'[u] = transfer[u]
            /\ transfer'[t].of = w
        BY <2>3, <2>w DEF InitiateTransfer, TypeOK
      <3> QED
        BY <2>3, <3>1, <3>2, <3>3 DEF InitiateTransfer, Sends
    <2>4. CASE AdvancePayout(c)
      <3>1. w \in approved
        BY <2>4, <2>w DEF AdvancePayout, Sends
      <3>2. /\ \A d \in Calls : d # c => call'[d] = call[d]
            /\ ~Sends(c)'
        BY <2>4, EndsSends DEF AdvancePayout, TypeOK, Sends, Handler
      <3>3. \A v \in Requests : v # w => request'[v] = request[v]
        BY <2>4, <2>w DEF AdvancePayout, TypeOK
      <3> QED
        BY <2>4, <3>1, <3>2, <3>3 DEF AdvancePayout, Sends
    <2> QED
      BY <1>3, <2>1, <2>2, <2>3, <2>4 DEF Continues
  <1>4. ASSUME NEW c \in Calls, Fails(c)
        PROVE  ApprovalInv'
    BY <1>4, EndsSends DEF Fails, Sends
  <1>5. CASE Gateway
    <2>1. ASSUME NEW t \in Transfers, GatewayPays(t) \/ GatewayFails(t) \/ GatewayReverses(t)
          PROVE  ApprovalInv'
      <3>1. /\ UNCHANGED <<request, approved, call>>
            /\ transfer[t].state # "none"
            /\ \E to : transfer' = [transfer EXCEPT ![t].state = to]
        BY <2>1 DEF GatewayPays, GatewayFails, GatewayReverses, Moves
      <3>2. \A u \in Transfers :
              /\ transfer'[u].of = transfer[u].of
              /\ transfer'[u].state # "none" => transfer[u].state # "none"
        BY <3>1 DEF TypeOK
      <3> QED
        BY <3>1, <3>2 DEF Sends
    <2>2. ASSUME NEW t \in Transfers, NEW report \in Reports, IgnorePayout(t, report)
          PROVE  ApprovalInv'
      BY <2>2 DEF IgnorePayout, Sends
    <2> QED
      BY <1>5, <2>1, <2>2 DEF Gateway
  <1>6. CASE UNCHANGED vars
    BY <1>6 DEF vars, Sends
  <1> QED
    BY <1>1, <1>2, <1>3, <1>4, <1>5, <1>6 DEF Next

(* No transfer goes out for a request that no admin has approved.          *)
THEOREM ApprovalFirst == Spec => []NeverPaidUnapproved
  <1>1. Init => ApprovalInv
    BY IdleCallType DEF Init, ApprovalInv, NeverPaidUnapproved, Sends
  <1>2. ApprovalInv => NeverPaidUnapproved
    BY DEF ApprovalInv
  <1> QED
    BY <1>1, <1>2, TypeAlways, ApprovalStep, PTL DEF Spec

LEMMA CoveredStep ==
  ASSUME TypeOK, AtWork, LedgerCovered, [Next]_vars
  PROVE  LedgerCovered'
  <1> USE DEF LedgerCovered
  <1>1. ASSUME NEW w \in Requests, CreateWithdrawalRequest(w)
        PROVE  LedgerCovered'
    BY <1>1 DEF CreateWithdrawalRequest, TypeOK
  <1>2. ASSUME NEW c \in Calls, Continues(c)
        PROVE  LedgerCovered'
    <2>0. call[c].kind # "idle"
      BY <1>2 DEF Continues, CommitRejection, CommitDecision, InitiateTransfer, AdvancePayout,
             SettlePayout, RecordPaid, RecordFailed
    <2>w. PICK w \in Requests : w = call[c].w
      BY <2>0 DEF AtWork
    <2>1. CASE CommitRejection(c)
      <3>1. /\ returned'[w] > 0
            /\ \A v \in Requests : v # w => returned'[v] = returned[v]
            /\ counted' = counted
        BY <2>1, <2>w DEF CommitRejection, Returns, Once, TypeOK
      <3>2. /\ \A v \in Requests : v # w => ledger'[v] = ledger[v]
            /\ ledger'[w] = "REVERSED" \/ ledger'[w] = ledger[w]
        BY <2>1, <2>w DEF CommitRejection, TypeOK
      <3> QED
        BY <3>1, <3>2
    <2>2. CASE CommitDecision(c)
      BY <2>2, <2>w DEF CommitDecision, Once, TypeOK
    <2>3. CASE SettlePayout(c) \/ RecordPaid(c)
      BY <2>3, <2>w DEF SettlePayout, RecordPaid, Pays, ClosesRow, Once, TypeOK
    <2>4. CASE RecordFailed(c)
      BY <2>4, <2>w DEF RecordFailed, Returns, ClosesRow, Once, TypeOK
    <2>5. CASE AdvancePayout(c) \/ \E t \in Transfers : InitiateTransfer(c, t)
      BY <2>5 DEF AdvancePayout, InitiateTransfer
    <2> QED
      BY <1>2, <2>1, <2>2, <2>3, <2>4, <2>5 DEF Continues
  <1>3. CASE \/ \E c \in Calls : Begins(c) \/ Fails(c)
             \/ Gateway \/ UNCHANGED vars
    <2>1. UNCHANGED <<ledger, counted, returned>>
      <3>1. ASSUME NEW c \in Calls, Begins(c)
            PROVE  UNCHANGED <<ledger, counted, returned>>
        BY <3>1 DEF Begins, ReviewWithdrawalRequest, RetryWithdrawalPayout, FindPayout, TakesOn
      <3>2. CASE Gateway
        BY <3>2 DEF Gateway, GatewayPays, GatewayFails, GatewayReverses, Moves, IgnorePayout
      <3> QED
        BY <1>3, <3>1, <3>2 DEF Fails, vars
    <2> QED
      BY <2>1
  <1> QED
    BY <1>1, <1>2, <1>3 DEF Next

(* SUCCESS is recorded only where the withdrawal was counted, REVERSED     *)
(* only where the amount was put back.                                     *)
THEOREM RowsCovered == Spec => []LedgerCovered
  <1>1. Init => LedgerCovered
    BY DEF Init, LedgerCovered
  <1> QED
    BY <1>1, TypeAlways, CoveredStep, PTL DEF Spec

-----------------------------------------------------------------------------
(* Requests about which handlers, admins and gateway agree.                *)

Careful == {w \in Requests : Calm(w)}

Owns(w, t) == t \in Transfers /\ transfer[t].of = w
Unreported(t) == <<t, "success">> \notin events /\ <<t, "failed">> \notin events
Carries(c, w, t) == call[c].kind = "sent" /\ call[c].w = w /\ call[c].ref = t

(* A reference that is a transfer's is one of the request's own.           *)
RefInv ==
    /\ \A w \in Requests : request[w].ref \in Transfers => transfer[request[w].ref].of = w
    /\ \A c \in Calls : call[c].ref \in Transfers => transfer[call[c].ref].of = call[c].w
    /\ \A c \in Calls : call[c].kind = "idle" => call[c].w = NoRequest /\ call[c].ref = NoRef
    /\ \A t \in Transfers :
         /\ transfer[t].state = "none" <=> transfer[t].of = NoRequest
         /\ transfer[t].of = NoRequest => Unreported(t)

(* Row, ledger and wallet of w.                                            *)
BooksInv(w) ==
    /\ ledger[w] = RowFor(request[w].status)
    /\ counted[w] = IF request[w].status = "COMPLETED" THEN 1 ELSE 0
    /\ returned[w] = IF request[w].status = "REJECTED" THEN 1 ELSE 0

(* One handler at a time, and what each has still to rely on.              *)
OneHandler(w) == \A c, d \in Calls : call[c].w = w /\ call[d].w = w => c = d

Sendable(w) ==
    \/ request[w].status = "APPROVED"
    \/ request[w].status = "PROCESSING" /\ request[w].ref = NoRef

HandlerInv(c) ==
    LET w == call[c].w  t == call[c].ref IN
    /\ call[c].kind = "review" =>
         ~Accepted(w) /\ call[c].to \in Transition(request[w].status) /\ call[c].row = ledger[w]
    /\ call[c].kind = "payout" => Sendable(w)
    /\ call[c].kind = "sent" =>
         /\ Owns(w, t) /\ Sendable(w)
         /\ call[c].to = "COMPLETED" => transfer[t].state = "paid"
         /\ call[c].to \in {"COMPLETED", "PROCESSING"}
    /\ call[c].kind = "settled" =>
         /\ Owns(w, t) /\ request[w] = [status |-> "PROCESSING", ref |-> t]
         /\ transfer[t].state = "paid"
    /\ call[c].kind = "webhook" =>
         /\ Owns(w, t) /\ request[w] = [status |-> "PROCESSING", ref |-> t]
         /\ call[c].to \in {"COMPLETED", "REJECTED"}
         /\ call[c].to = "COMPLETED" => <<t, "success">> \in events
         /\ call[c].to = "REJECTED" => <<t, "failed">> \in events

(* The one transfer of w, and what its state says of w.                    *)
TransferInv(t) ==
    LET w == transfer[t].of IN
    /\ \A u \in Transfers : transfer[u].of = w => u = t
    /\ <<t, "success">> \in events => transfer[t].state = "paid"
    /\ <<t, "failed">> \in events => transfer[t].state = "failed"
    /\ request[w].ref = t \/ w \in unanswered \/ \E c \in Calls : Carries(c, w, t)
    /\ request[w].ref = t => request[w].status \in {"PROCESSING", "COMPLETED", "REJECTED"}
    /\ request[w].status = "COMPLETED" => transfer[t].state = "paid"
    /\ request[w].status = "REJECTED" => transfer[t].state = "failed"
    /\ request[w].status \in {"APPROVED", "PROCESSING", "COMPLETED", "REJECTED"}

Local(w) ==
    /\ BooksInv(w)
    /\ OneHandler(w)
    /\ \A c \in Calls : call[c].w = w => HandlerInv(c)
    /\ \A t \in Transfers : transfer[t].of = w => TransferInv(t)

CarefulInv == RefInv /\ \A w \in Careful : Local(w)

(* Nothing of v changes.                                                   *)
Same(v) ==
    /\ request'[v] = request[v] /\ ledger'[v] = ledger[v]
    /\ counted'[v] = counted[v] /\ returned'[v] = returned[v]
    /\ \A c \in Calls : call'[c].w = v \/ call[c].w = v => call'[c] = call[c]
    /\ \A t \in Transfers : transfer'[t].of = v \/ transfer[t].of = v =>
          /\ transfer'[t] = transfer[t]
          /\ \A r \in Reports :
               /\ <<t, r>> \in events' => <<t, r>> \in events
               /\ request[v].ref = t /\ <<t, r>> \in events => <<t, r>> \in events'

(* Trouble does not pass.                                                  *)
Grows ==
    /\ Careful' \subseteq Careful
    /\ overlapped \subseteq overlapped' /\ unanswered \subseteq unanswered'

LEMMA CarefulGrows ==
  ASSUME TypeOK, AtWork, RefInv, [Next]_vars
  PROVE  Grows
  <1>1. overlapped \subseteq overlapped' /\ unanswered \subseteq unanswered'
        /\ contested \subseteq contested'
    <2>1. ASSUME NEW w \in Requests, CreateWithdrawalRequest(w)
          PROVE  UNCHANGED history
      BY <2>1 DEF CreateWithdrawalRequest
    <2>2. ASSUME NEW c \in Calls, Begins(c)
          PROVE  /\ overlapped \subseteq overlapped' /\ unanswered \subseteq unanswered'
                 /\ contested \subseteq contested'
      BY <2>2 DEF Begins, ReviewWithdrawalRequest, RetryWithdrawalPayout, FindPayout, TakesOn
    <2>3. ASSUME NEW c \in Calls, Continues(c)
          PROVE  /\ overlapped \subseteq overlapped' /\ unanswered \subseteq unanswered'
                 /\ contested \subseteq contested'
      <3>1. CASE \E t \in Transfers : InitiateTransfer(c, t)
        BY <3>1 DEF InitiateTransfer
      <3>2. CASE ~\E t \in Transfers : InitiateTransfer(c, t)
        BY <2>3, <3>2 DEF Continues, CommitRejection, CommitDecision, AdvancePayout, SettlePayout,
           RecordPaid, RecordFailed, history
      <3> QED
        BY <3>1, <3>2
    <2>4. ASSUME NEW c \in Calls, Fails(c)
          PROVE  /\ overlapped \subseteq overlapped' /\ unanswered \subseteq unanswered'
                 /\ contested \subseteq contested'
      BY <2>4 DEF Fails
    <2>5. CASE Gateway
      BY <2>5 DEF Gateway, GatewayPays, GatewayFails, GatewayReverses, Moves, IgnorePayout, history
    <2> QED
      BY <2>1, <2>2, <2>3, <2>4, <2>5 DEF Next, vars, history
  <1>2. \A t \in Transfers, w \in Requests : transfer[t].of = w => transfer'[t].of = w
    <2>1. ASSUME NEW c \in Calls, NEW t \in Transfers, InitiateTransfer(c, t)
          PROVE  \A u \in Transfers, w \in Requests : transfer[u].of = w => transfer'[u].of = w
      <3>1. /\ transfer[t].of = NoRequest
            /\ \A u \in Transfers : u # t => transfer'[u] = transfer[u]
        BY <2>1 DEF InitiateTransfer, TypeOK, RefInv
      <3> QED
        BY <3>1, WithdrawalAssumption
    <2>2. ASSUME NEW t \in Transfers, GatewayPays(t) \/ GatewayFails(t) \/ GatewayReverses(t)
          PROVE  \A u \in Transfers : transfer'[u].of = transfer[u].of
      <3>1. \E to : transfer' = [transfer EXCEPT ![t].state = to]
        BY <2>2 DEF GatewayPays, GatewayFails, GatewayReverses, Moves
      <3> QED
        BY <3>1 DEF TypeOK
    <2>3. CASE UNCHANGED transfer
      BY <2>3
    <2>4. ASSUME NEW w \in Requests, CreateWithdrawalRequest(w)
          PROVE  UNCHANGED transfer
      BY <2>4 DEF CreateWithdrawalRequest
    <2>5. ASSUME NEW c \in Calls, Begins(c) \/ Fails(c)
          PROVE  UNCHANGED transfer
      BY <2>5 DEF Begins, Fails, ReviewWithdrawalRequest, RetryWithdrawalPayout, FindPayout, TakesOn
    <2>6. ASSUME NEW c \in Calls, Continues(c), \A t \in Transfers : ~InitiateTransfer(c, t)
          PROVE  UNCHANGED transfer
      BY <2>6 DEF Continues, CommitRejection, CommitDecision, AdvancePayout, SettlePayout,
         RecordPaid, RecordFailed
    <2>7. ASSUME NEW t \in Transfers, NEW report \in Reports, IgnorePayout(t, report)
          PROVE  UNCHANGED transfer
      BY <2>7 DEF IgnorePayout
    <2>8. CASE UNCHANGED vars
      BY <2>3, <2>8 DEF vars
    <2> QED
      BY <2>1, <2>2, <2>3, <2>4, <2>5, <2>6, <2>7, <2>8 DEF Next, Gateway
  <1>3. \A w \in Requests : Resent(w) => Resent(w)'
    BY <1>2 DEF Resent
  <1> QED
    BY <1>1, <1>3 DEF Grows, Careful, Calm

LEMMA SameHandler ==
  ASSUME NEW v, NEW c \in Calls, call[c].w = v, HandlerInv(c), Same(v)
  PROVE  HandlerInv(c)'
  <1> DEFINE t == call[c].ref
  <1>1. call'[c] = call[c] /\ request'[v] = request[v] /\ ledger'[v] = ledger[v]
    BY DEF Same
  <1>2. Accepted(v)' = Accepted(v)
    BY DEF Same, Accepted
  <1>3. Owns(v, t) => /\ transfer'[t] = transfer[t]
                      /\ \A r \in Reports :
                           request[v].ref = t /\ <<t, r>> \in events => <<t, r>> \in events'
    BY DEF Same, Owns
  <1>4. Owns(v, t) => transfer'[t].of = v
    BY <1>3 DEF Owns
  <1>5. Sendable(v)' = Sendable(v)
    BY <1>1 DEF Sendable
  <1> QED
    BY <1>1, <1>2, <1>3, <1>4, <1>5 DEF HandlerInv, Owns, Reports

LEMMA SameTransfer ==
  ASSUME NEW v, NEW t \in Transfers, transfer[t].of = v, TransferInv(t), Same(v), Grows
  PROVE  TransferInv(t)'
  <1>1. /\ request'[v] = request[v]
        /\ transfer'[t] = transfer[t]
        /\ \A r \in Reports : <<t, r>> \in events' => <<t, r>> \in events
        /\ \A u \in Transfers : transfer'[u].of = v => transfer[u].of = v
        /\ v \in unanswered => v \in unanswered'
    BY DEF Same, Grows
  <1>2. \A c \in Calls : Carries(c, v, t) => Carries(c, v, t)'
    BY DEF Same, Carries
  <1> QED
    BY <1>1, <1>2 DEF TransferInv, Reports

LEMMA SameLocal ==
  ASSUME NEW v, Local(v), Same(v), Grows
  PROVE  Local(v)'
  <1>1. BooksInv(v)'
    BY DEF Local, Same, BooksInv
  <1>2. OneHandler(v)'
    BY DEF Local, Same, OneHandler
  <1>3. ASSUME NEW c \in Calls, call'[c].w = v
        PROVE  HandlerInv(c)'
    BY <1>3, SameHandler DEF Local, Same
  <1>4. ASSUME NEW t \in Transfers, transfer'[t].of = v
        PROVE  TransferInv(t)'
    BY <1>4, SameTransfer DEF Local, Same
  <1> QED
    BY <1>1, <1>2, <1>3, <1>4 DEF Local


(* It is enough to look at the request a step works on.                    *)
LEMMA Combine ==
  ASSUME CarefulInv, Grows, NEW w, RefInv', w \in Careful' => Local(w)',
         \A v \in Careful : v # w => Same(v)
  PROVE  CarefulInv'
  BY SameLocal DEF CarefulInv, Grows

LEMMA CreateStep ==
  ASSUME TypeOK, CarefulInv, Grows, NEW w \in Requests, CreateWithdrawalRequest(w)
  PROVE  CarefulInv'
  <1>1. /\ request[w].status = "NONE" /\ request'[w].status = "PENDING"
        /\ request'[w].ref = request[w].ref
        /\ \A v \in Requests : v # w => request'[v] = request[v] /\ ledger'[v] = ledger[v]
        /\ ledger'[w] = "PENDING"
        /\ UNCHANGED <<counted, returned, approved, transfer, events, call>>
    BY DEF CreateWithdrawalRequest, TypeOK
  <1>2. RefInv'
    BY <1>1 DEF CarefulInv, RefInv, Unreported
  <1>3. \A v \in Careful : v # w => Same(v)
    BY <1>1 DEF Same, Careful
  <1>4. ASSUME w \in Careful
        PROVE  Local(w)'
    <2>1. Local(w)
      BY <1>4 DEF CarefulInv
    <2>2. BooksInv(w)' /\ OneHandler(w)'
      BY <1>1, <2>1 DEF Local, BooksInv, OneHandler, RowFor
    <2>3. ASSUME NEW c \in Calls, call'[c].w = w
          PROVE  HandlerInv(c)'
      BY <1>1, <2>1, <2>3 DEF Local, HandlerInv, Transition, Sendable
    <2>4. ASSUME NEW t \in Transfers, transfer'[t].of = w
          PROVE  TransferInv(t)'
      BY <1>1, <2>1, <2>4 DEF Local, TransferInv
    <2> QED
      BY <2>2, <2>3, <2>4 DEF Local
  <1> QED
    BY <1>2, <1>3, <1>4, Combine DEF Grows

(* A handler begins: it takes on a request nobody is at work on.           *)
Alone(w) == \A d \in Calls : call[d].w # w

(* What that leaves to be shown of the request w.                          *)
Begun(c, w) ==
    /\ RefInv'
    /\ \A v \in Careful : v # w => Same(v)
    /\ w \in Careful' => /\ Local(w) /\ BooksInv(w)' /\ OneHandler(w)'
                         /\ \A d \in Calls : call'[d].w = w => d = c
                         /\ \A t \in Transfers : transfer'[t].of = w => TransferInv(t)'

LEMMA BeginsFrame ==
  ASSUME TypeOK, CarefulInv, Grows, NEW c \in Calls, NEW w \in Requests, NEW k \in CallRecords,
         k.w = w, call[c].kind = "idle", call' = [call EXCEPT ![c] = k],
         UNCHANGED <<request, ledger, counted, returned, transfer, events, unanswered>>,
         w \in Careful' => Alone(w),
         k.ref \in Transfers => transfer[k.ref].of = w, k.kind \notin {"idle", "sent"}
  PROVE  Begun(c, w)
  <1>1. call'[c] = k /\ \A d \in Calls : d # c => call'[d] = call[d]
    BY DEF TypeOK
  <1>2. call[c].w = NoRequest
    BY DEF CarefulInv, RefInv
  <1>3. RefInv'
    BY <1>1 DEF CarefulInv, RefInv, Unreported
  <1>4. \A v \in Careful : v # w => Same(v)
    BY <1>1, <1>2, WithdrawalAssumption DEF Same, Careful
  <1>5. ASSUME w \in Careful'
        PROVE  /\ Local(w) /\ BooksInv(w)' /\ OneHandler(w)'
               /\ \A d \in Calls : call'[d].w = w => d = c
               /\ \A t \in Transfers : transfer'[t].of = w => TransferInv(t)'
    <2>1. Local(w)
      BY <1>5 DEF CarefulInv, Grows
    <2>2. Alone(w)
      BY <1>5
    <2>3. \A d \in Calls : call'[d].w = w => d = c
      BY <1>1, <2>2 DEF Alone
    <2>4. BooksInv(w)' /\ OneHandler(w)'
      BY <2>1, <2>3 DEF Local, BooksInv, OneHandler
    <2>5. ASSUME NEW t \in Transfers, transfer'[t].of = w
          PROVE  TransferInv(t)'
      <3>1. TransferInv(t) /\ transfer[t].of = w
        BY <2>1, <2>5 DEF Local
      <3>2. \A d \in Calls : ~Carries(d, w, t)
        BY <2>2 DEF Carries, Alone
      <3> QED
        BY <3>1, <3>2 DEF TransferInv
    <2> QED
      BY <2>1, <2>3, <2>4, <2>5
  <1> QED
    BY <1>3, <1>4, <1>5 DEF Begun

LEMMA BeginsStep ==
  ASSUME TypeOK, CarefulInv, Grows, NEW c \in Calls, Begins(c)
  PROVE  CarefulInv'
  <1>1. ASSUME NEW w \in Requests, NEW to \in Decisions,
               NEW ref \in {NoRef, HandRef, request[w].ref},
               ReviewWithdrawalRequest(c, w, to, ref)
        PROVE  CarefulInv'
    <2> DEFINE k == [kind |-> "review", w |-> w, to |-> to, ref |-> ref, row |-> ledger[w]]
    <2>1. k \in CallRecords /\ k.w = w /\ k.kind = "review" /\ k.ref = ref
          /\ k.to = to /\ k.row = ledger[w]
      BY DEF TypeOK, CallRecords, Decisions, Refs
    <2>2. k.ref \in Transfers => transfer[k.ref].of = w
      BY <2>1, WithdrawalAssumption DEF CarefulInv, RefInv
    <2>3. TakesOn(c, k)
      BY <1>1 DEF ReviewWithdrawalRequest
    <2> HIDE DEF k
    <2>4. /\ UNCHANGED <<request, ledger, transfer>>
          /\ w \in Careful' => ~Accepted(w)
          /\ to \in Transition(request[w].status)
      BY <1>1, <2>3 DEF ReviewWithdrawalRequest, TakesOn, Careful, Calm
    <2>a. k \in CallRecords /\ k.w = w /\ k.kind \notin {"idle", "sent"}
      BY <2>1
    <2>b. call[c].kind = "idle" /\ call' = [call EXCEPT ![c] = k]
      BY <2>3 DEF TakesOn
    <2>c. UNCHANGED <<request, ledger, counted, returned, transfer, events, unanswered>>
      BY <2>3 DEF TakesOn
    <2>d. w \in Careful' => Alone(w)
      BY <2>1, <2>3 DEF TakesOn, Careful, Calm, Alone
    <2>5. Begun(c, w)
      BY <2>2, <2>a, <2>b, <2>c, <2>d, BeginsFrame
    <2>6. w \in Careful' => HandlerInv(c)'
      <3>1. call'[c] = k
        BY <2>3 DEF TakesOn, TypeOK
      <3>2. Accepted(w)' = Accepted(w)
        BY <2>4 DEF Accepted
      <3> QED
        BY <2>1, <2>4, <3>1, <3>2 DEF HandlerInv
    <2> QED
      BY <2>5, <2>6, Combine DEF Local, Begun
  <1>2. ASSUME NEW w \in Requests, RetryWithdrawalPayout(c, w)
        PROVE  CarefulInv'
    <2> DEFINE k == Handler("payout", w, "NONE", NoRef)
    <2>1. k \in CallRecords /\ k.w = w /\ k.kind = "payout" /\ k.ref = NoRef
      BY DEF Handler, CallRecords, Rows, Refs, Statuses
    <2>2. k.ref \in Transfers => transfer[k.ref].of = w
      BY <2>1, WithdrawalAssumption
    <2>3. TakesOn(c, k)
      BY <1>2 DEF RetryWithdrawalPayout
    <2> HIDE DEF k
    <2>4. Sendable(w) /\ request' = request
      BY <1>2, <2>3 DEF RetryWithdrawalPayout, TakesOn, Retryable, Sendable
    <2>a. k \in CallRecords /\ k.w = w /\ k.kind \notin {"idle", "sent"}
      BY <2>1
    <2>b. call[c].kind = "idle" /\ call' = [call EXCEPT ![c] = k]
      BY <2>3 DEF TakesOn
    <2>c. UNCHANGED <<request, ledger, counted, returned, transfer, events, unanswered>>
      BY <2>3 DEF TakesOn
    <2>d. w \in Careful' => Alone(w)
      BY <2>1, <2>3 DEF TakesOn, Careful, Calm, Alone
    <2>5. Begun(c, w)
      BY <2>2, <2>a, <2>b, <2>c, <2>d, BeginsFrame
    <2>6. w \in Careful' => HandlerInv(c)'
      <3>1. call'[c] = k
        BY <2>3 DEF TakesOn, TypeOK
      <3>2. Sendable(w)'
        BY <2>4 DEF Sendable
      <3> QED
        BY <2>1, <3>1, <3>2 DEF HandlerInv
    <2> QED
      BY <2>5, <2>6, Combine DEF Local, Begun
  <1>3. ASSUME NEW w \in Requests, NEW t \in Transfers, NEW report \in Reports,
               FindPayout(c, w, t, report)
        PROVE  CarefulInv'
    <2> DEFINE to == IF report = "success" THEN "COMPLETED" ELSE "REJECTED"
               k == Handler("webhook", w, to, t)
    <2>0. to \in Statuses /\ to = (IF report = "success" THEN "COMPLETED" ELSE "REJECTED")
      BY Constants
    <2> HIDE DEF to
    <2>1. k \in CallRecords /\ k.w = w /\ k.kind = "webhook" /\ k.ref = t /\ k.to = to
      BY <2>0 DEF Handler, CallRecords, Rows, Refs, Statuses
    <2>2. request[w].ref = t /\ transfer[t].of = w
      BY <1>3 DEF FindPayout, CarefulInv, RefInv
    <2>3. TakesOn(c, k)
      BY <1>3 DEF FindPayout, to
    <2> HIDE DEF k
    <2>4. /\ <<t, report>> \in events /\ UNCHANGED <<request, transfer, events>>
          /\ w \in Careful' => ~Settled(w)
      BY <1>3, <2>3 DEF FindPayout, TakesOn, Careful, Calm
    <2>a. k \in CallRecords /\ k.w = w /\ k.kind \notin {"idle", "sent"}
      BY <2>1
    <2>b. call[c].kind = "idle" /\ call' = [call EXCEPT ![c] = k]
      BY <2>3 DEF TakesOn
    <2>c. UNCHANGED <<request, ledger, counted, returned, transfer, events, unanswered>>
      BY <2>3 DEF TakesOn
    <2>d. w \in Careful' => Alone(w)
      BY <2>1, <2>3 DEF TakesOn, Careful, Calm, Alone
    <2>e. k.ref \in Transfers => transfer[k.ref].of = w
      BY <2>1, <2>2
    <2>5. Begun(c, w)
      BY <2>a, <2>b, <2>c, <2>d, <2>e, BeginsFrame
    <2>6. w \in Careful' => HandlerInv(c)'
      <3>1. call'[c] = k
        BY <2>3 DEF TakesOn, TypeOK
      <3>2. w \in Careful' => request[w].status = "PROCESSING"
        <4>1. w \in Careful' => TransferInv(t)
          BY <2>2, <2>4, <2>5 DEF Local, Begun
        <4> QED
          BY <2>2, <2>4, <4>1 DEF TransferInv, Settled
      <3>3. w \in Careful' => request[w] = [status |-> "PROCESSING", ref |-> t]
        BY <3>2, <2>2 DEF TypeOK
      <3> QED
        BY <2>0, <2>1, <2>2, <2>4, <3>1, <3>3 DEF HandlerInv, Owns, Reports
    <2> QED
      BY <2>5, <2>6, Combine DEF Local, Begun
  <1> QED
    BY <1>1, <1>2, <1>3 DEF Begins


(* A handler goes on as k, with its own request and its own transfer.      *)
Works(c, w, k) ==
    /\ w = call[c].w
    /\ k \in CallRecords /\ call' = [call EXCEPT ![c] = k]
    /\ k = IdleCall \/ (k.kind # "idle" /\ k.w = w /\ k.ref \in {NoRef, call[c].ref})
    /\ \A v \in Requests : v # w =>
         /\ request'[v] = request[v] /\ ledger'[v] = ledger[v]
         /\ counted'[v] = counted[v] /\ returned'[v] = returned[v]
    /\ request'[w].ref \in {request[w].ref, call[c].ref}
    /\ UNCHANGED <<transfer, events>>

LEMMA WorkFrame ==
  ASSUME TypeOK, CarefulInv, Grows, NEW c \in Calls, NEW w \in Requests, NEW k, Works(c, w, k)
  PROVE  /\ RefInv'
         /\ \A v \in Careful : v # w => Same(v)
         /\ call'[c] = k
         /\ w \in Careful => /\ Local(w) /\ HandlerInv(c) /\ OneHandler(w)'
                             /\ \A d \in Calls : call[d].w = w => d = c
                             /\ \A d \in Calls : call'[d].w = w => d = c /\ k # IdleCall
  <1> USE DEF Works
  <1>1. call'[c] = k /\ \A d \in Calls : d # c => call'[d] = call[d]
    BY DEF TypeOK
  <1>2. k.w \in {w, NoRequest} /\ (k.w = NoRequest => k = IdleCall) /\ (k.kind = "idle" => k.w = NoRequest /\ k.ref = NoRef)
    BY IdleCallType, WithdrawalAssumption
  <1>3. k.ref \in Transfers => transfer[k.ref].of = k.w
    BY IdleCallType, WithdrawalAssumption DEF CarefulInv, RefInv
  <1>4. RefInv'
    BY <1>1, <1>2, <1>3 DEF CarefulInv, RefInv, Unreported
  <1>5. \A v \in Careful : v # w => Same(v)
    <2> SUFFICES ASSUME NEW v \in Careful, v # w
                 PROVE  Same(v)
      OBVIOUS
    <2>1. v \in Requests /\ v # NoRequest
      BY WithdrawalAssumption DEF Careful
    <2>2. \A d \in Calls : call'[d].w = v \/ call[d].w = v => call'[d] = call[d]
      BY <1>1, <1>2, <2>1
    <2> QED
      BY <2>1, <2>2 DEF Same
  <1>6. ASSUME w \in Careful
        PROVE  /\ Local(w) /\ HandlerInv(c) /\ OneHandler(w)'
               /\ \A d \in Calls : call[d].w = w => d = c
               /\ \A d \in Calls : call'[d].w = w => d = c /\ k # IdleCall
    <2>1. Local(w)
      BY <1>6 DEF CarefulInv
    <2>2. \A d \in Calls : call[d].w = w => d = c
      BY <2>1 DEF Local, OneHandler
    <2>3. \A d \in Calls : call'[d].w = w => d = c /\ k # IdleCall
      BY <1>1, <2>2, IdleCallType, WithdrawalAssumption
    <2> QED
      BY <2>1, <2>2, <2>3 DEF Local, OneHandler
  <1> QED
    BY <1>1, <1>4, <1>5, <1>6

LEMMA RejectionStep ==
  ASSUME TypeOK, CarefulInv, Grows, NEW c \in Calls, NEW w \in Requests, w = call[c].w,
         CommitRejection(c)
  PROVE  CarefulInv'
  <1>1. /\ call[c].kind = "review" /\ call[c].to = "REJECTED"
        /\ call' = [call EXCEPT ![c] = IdleCall]
        /\ UNCHANGED <<counted, transfer, events>>
    BY DEF CommitRejection, Ends, Returns
  <1>2. \A v \in Requests : v # w =>
             /\ request'[v] = request[v] /\ ledger'[v] = ledger[v]
             /\ counted'[v] = counted[v] /\ returned'[v] = returned[v]
    <2>1. \A v \in Requests : v # w => request'[v] = request[v] /\ returned'[v] = returned[v]
      BY DEF CommitRejection, Returns, TypeOK
    <2>2. \A v \in Requests : v # w => ledger'[v] = ledger[v]
      BY DEF CommitRejection, TypeOK
    <2> QED
      BY <1>1, <2>1, <2>2
  <1>3. request'[w].ref = request[w].ref /\ request'[w].status = "REJECTED"
    BY DEF CommitRejection, Returns, TypeOK
  <1>4. /\ RefInv'
        /\ \A v \in Careful : v # w => Same(v)
        /\ w \in Careful => /\ Local(w) /\ HandlerInv(c) /\ OneHandler(w)'
                            /\ \A d \in Calls : call'[d].w # w
    <2>1. Works(c, w, IdleCall)
      BY <1>1, <1>2, <1>3, IdleCallType DEF Works
    <2> QED
      BY <2>1, WorkFrame, IdleCallType
  <1>5. ASSUME w \in Careful
        PROVE  Local(w)'
    <2>1. ~Accepted(w) /\ call[c].row = ledger[w] /\ "REJECTED" \in Transition(request[w].status)
      BY <1>1, <1>4, <1>5 DEF HandlerInv
    <2>2. request[w].status \in {"PENDING", "APPROVED", "PROCESSING"}
      BY <2>1 DEF Transition
    <2>3. ledger[w] = "PENDING" /\ counted[w] = 0 /\ returned[w] = 0
      BY <2>2, <1>4, <1>5 DEF Local, BooksInv, RowFor
    <2>4. ledger'[w] = "REVERSED"
      BY <2>1, <2>3 DEF CommitRejection, TypeOK
    <2>5. returned'[w] = 1
      BY <2>3 DEF CommitRejection, Returns, Once, TypeOK
    <2>6. BooksInv(w)'
      BY <1>1, <1>3, <2>3, <2>4, <2>5 DEF BooksInv, RowFor
    <2>7. \A t \in Transfers : transfer'[t].of # w
      BY <1>1, <2>1 DEF Accepted
    <2> QED
      BY <1>4, <1>5, <2>6, <2>7 DEF Local
  <1> QED
    BY <1>4, <1>5, Combine DEF Grows

LEMMA DecisionStep ==
  ASSUME TypeOK, CarefulInv, Grows, NEW c \in Calls, NEW w \in Requests, w = call[c].w,
         CommitDecision(c)
  PROVE  CarefulInv'
  <1> DEFINE k == IF call[c].to = "APPROVED" THEN Handler("payout", w, "NONE", NoRef)
                  ELSE IdleCall
  <1>1. k \in CallRecords
    BY IdleCallType DEF Handler, CallRecords, Rows, Refs, Statuses
  <1>2. k = IdleCall \/ (k.kind = "payout" /\ k.w = w /\ k.ref = NoRef)
    BY DEF Handler
  <1>3. call[c].to = "APPROVED" => k.kind = "payout"
    BY DEF Handler
  <1>4. call' = [call EXCEPT ![c] = k]
    BY DEF CommitDecision, Ends
  <1> HIDE DEF k
  <1>5. /\ call[c].kind = "review" /\ call[c].to # "REJECTED"
        /\ UNCHANGED <<returned, transfer, events>>
    BY DEF CommitDecision
  <1>6. request'[w] = [status |-> call[c].to, ref |-> call[c].ref]
    BY DEF CommitDecision, TypeOK
  <1>7. \A v \in Requests : v # w =>
             /\ request'[v] = request[v] /\ ledger'[v] = ledger[v]
             /\ counted'[v] = counted[v] /\ returned'[v] = returned[v]
    BY DEF CommitDecision, TypeOK
  <1>8. /\ RefInv'
        /\ \A v \in Careful : v # w => Same(v)
        /\ call'[c] = k
        /\ w \in Careful => /\ Local(w) /\ HandlerInv(c) /\ OneHandler(w)'
                            /\ \A d \in Calls : call'[d].w = w => d = c /\ k # IdleCall
    <2>1. k = IdleCall \/ (k.kind # "idle" /\ k.w = w /\ k.ref \in {NoRef, call[c].ref})
      BY <1>2
    <2>2. request'[w].ref \in {request[w].ref, call[c].ref}
      BY <1>6
    <2>3. UNCHANGED <<transfer, events>>
      BY <1>5
    <2>4. Works(c, w, k)
      BY <1>1, <1>4, <1>7, <2>1, <2>2, <2>3 DEF Works
    <2> QED
      BY <2>4, WorkFrame
  <1>9. ASSUME w \in Careful
        PROVE  Local(w)'
    <2>1. ~Accepted(w) /\ call[c].to \in Transition(request[w].status)
      BY <1>5, <1>8, <1>9 DEF HandlerInv
    <2>2. /\ request[w].status \in {"PENDING", "APPROVED", "PROCESSING"}
          /\ call[c].to \in {"APPROVED", "PROCESSING", "COMPLETED"}
      BY <1>5, <2>1 DEF Transition
    <2>3. ledger[w] = "PENDING" /\ counted[w] = 0 /\ returned[w] = 0
      BY <2>2, <1>8, <1>9 DEF Local, BooksInv, RowFor
    <2>4. BooksInv(w)'
      <3>1. CASE call[c].to = "COMPLETED"
        BY <1>5, <1>6, <2>3, <3>1 DEF CommitDecision, BooksInv, RowFor, Once, TypeOK
      <3>2. CASE call[c].to # "COMPLETED"
        BY <1>5, <1>6, <2>2, <2>3, <3>2 DEF CommitDecision, BooksInv, RowFor, TypeOK
      <3> QED
        BY <3>1, <3>2
    <2>5. \A t \in Transfers : transfer'[t].of # w
      BY <1>5, <2>1 DEF Accepted
    <2>6. ASSUME NEW d \in Calls, call'[d].w = w
          PROVE  HandlerInv(d)'
      <3>1. d = c /\ k # IdleCall
        BY <1>8, <1>9, <2>6
      <3>2. k.kind = "payout" /\ request'[w].status = "APPROVED"
        BY <1>2, <1>6, <3>1 DEF k
      <3> QED
        BY <1>8, <2>6, <3>1, <3>2 DEF HandlerInv, Sendable
    <2> QED
      BY <1>8, <1>9, <2>4, <2>5, <2>6 DEF Local
  <1> QED
    BY <1>8, <1>9, Combine DEF Grows

LEMMA AdvanceStep ==
  ASSUME TypeOK, CarefulInv, Grows, NEW c \in Calls, NEW w \in Requests, w = call[c].w,
         AdvancePayout(c)
  PROVE  CarefulInv'
  <1> DEFINE t == call[c].ref
             k == IF call[c].to = "COMPLETED" THEN Handler("settled", w, "COMPLETED", t)
                  ELSE IdleCall
  <1>0. call[c] \in CallRecords
    BY DEF TypeOK
  <1>1. k \in CallRecords
    BY <1>0, IdleCallType DEF Handler, CallRecords, Rows, Refs, Statuses
  <1>2. k = IdleCall \/ (/\ k.kind = "settled" /\ k.w = w /\ k.ref = t
                         /\ call[c].to = "COMPLETED")
    BY DEF Handler
  <1>4. call' = [call EXCEPT ![c] = k]
    BY DEF AdvancePayout, Ends
  <1> HIDE DEF k
  <1>5. call[c].kind = "sent" /\ UNCHANGED <<ledger, counted, returned, transfer, events>>
    BY DEF AdvancePayout
  <1>6. request'[w] = [status |-> "PROCESSING", ref |-> t]
    BY DEF AdvancePayout, TypeOK
  <1>7. \A v \in Requests : v # w => request'[v] = request[v]
    BY DEF AdvancePayout, TypeOK
  <1>8. /\ RefInv'
        /\ \A v \in Careful : v # w => Same(v)
        /\ call'[c] = k
        /\ w \in Careful => /\ Local(w) /\ HandlerInv(c) /\ OneHandler(w)'
                            /\ \A d \in Calls : call[d].w = w => d = c
                            /\ \A d \in Calls : call'[d].w = w => d = c /\ k # IdleCall
    <2>1. k = IdleCall \/ (k.kind # "idle" /\ k.w = w /\ k.ref \in {NoRef, t})
      BY <1>2
    <2>2. request'[w].ref \in {request[w].ref, t}
      BY <1>6
    <2>3. Works(c, w, k)
      BY <1>1, <1>4, <1>5, <1>7, <2>1, <2>2 DEF Works
    <2> QED
      BY <2>3, WorkFrame
  <1>9. ASSUME w \in Careful
        PROVE  Local(w)'
    <2>1. /\ Owns(w, t) /\ Sendable(w)
          /\ call[c].to = "COMPLETED" => transfer[t].state = "paid"
      BY <1>5, <1>8, <1>9 DEF HandlerInv
    <2>2. BooksInv(w)'
      BY <1>5, <1>6, <1>8, <1>9, <2>1 DEF Local, BooksInv, RowFor, Sendable
    <2>3. ASSUME NEW d \in Calls, call'[d].w = w
          PROVE  HandlerInv(d)'
      <3>1. d = c /\ k # IdleCall
        BY <1>8, <1>9, <2>3
      <3> QED
        BY <1>2, <1>5, <1>6, <1>8, <2>1, <3>1 DEF HandlerInv, Owns
    <2>4. ASSUME NEW u \in Transfers, transfer'[u].of = w
          PROVE  TransferInv(u)'
      <3>1. TransferInv(u) /\ transfer[u].of = w
        BY <1>5, <1>8, <1>9, <2>4 DEF Local
      <3>2. u = t
        BY <2>1, <3>1 DEF TransferInv, Owns
      <3> QED
        BY <1>5, <1>6, <3>1, <3>2 DEF TransferInv
    <2> QED
      BY <1>8, <1>9, <2>2, <2>3, <2>4 DEF Local
  <1> QED
    BY <1>8, <1>9, Combine DEF Grows

(* The row of a careful request is closed with what became of the money.   *)
LEMMA ClosesBooks ==
  ASSUME TypeOK, NEW w \in Requests, BooksInv(w), request[w].status = "PROCESSING",
         \/ Pays(w) /\ ClosesRow(w, "SUCCESS")
         \/ Returns(w) /\ ClosesRow(w, "REVERSED")
  PROVE  BooksInv(w)'
  BY DEF TypeOK, BooksInv, Pays, Returns, ClosesRow, RowFor, Once

(* A handler records how a payout ended, and is done.                      *)
LEMMA ClosingStep ==
  ASSUME TypeOK, CarefulInv, Grows, NEW c \in Calls, NEW w \in Requests, w = call[c].w,
         SettlePayout(c) \/ RecordPaid(c) \/ RecordFailed(c)
  PROVE  CarefulInv'
  <1> DEFINE t == call[c].ref
  <1>0. call[c] \in CallRecords
    BY DEF TypeOK
  <1>1. /\ call' = [call EXCEPT ![c] = IdleCall] /\ transfer' = transfer
        /\ \/ Pays(w) /\ ClosesRow(w, "SUCCESS")
           \/ Returns(w) /\ ClosesRow(w, "REVERSED")
        /\ call[c].kind \in {"settled", "webhook"}
    BY DEF SettlePayout, RecordPaid, RecordFailed, Ends
  <1>2. /\ request'[w].ref = request[w].ref
        /\ \A v \in Requests : v # w =>
             /\ request'[v] = request[v] /\ ledger'[v] = ledger[v]
             /\ counted'[v] = counted[v] /\ returned'[v] = returned[v]
    BY <1>1 DEF Pays, Returns, ClosesRow, TypeOK
  <1>3. events' = events
    BY DEF SettlePayout, RecordPaid, RecordFailed
  <1>5. /\ RefInv'
        /\ \A v \in Careful : v # w => Same(v)
        /\ w \in Careful => /\ Local(w) /\ HandlerInv(c) /\ OneHandler(w)'
                            /\ \A d \in Calls : call[d].w = w => d = c
                            /\ \A d \in Calls : call'[d].w # w
    <2>1. Works(c, w, IdleCall)
      BY <1>1, <1>2, <1>3, IdleCallType DEF Works
    <2> QED
      BY <2>1, WorkFrame, IdleCallType
  <1>6. ASSUME w \in Careful
        PROVE  Local(w)'
    <2>1. Owns(w, t) /\ request[w] = [status |-> "PROCESSING", ref |-> t]
      BY <1>1, <1>5, <1>6 DEF HandlerInv
    <2>2. BooksInv(w)'
      BY <1>1, <1>5, <1>6, <2>1, ClosesBooks DEF Local
    <2>3. TransferInv(t) /\ t \in Transfers /\ \A d \in Calls : ~Carries(d, w, t)
      BY <1>1, <1>5, <1>6, <2>1 DEF Local, Owns, Carries
    <2>4. ASSUME NEW u \in Transfers, transfer'[u].of = w
          PROVE  TransferInv(u)'
      <3>1. u = t /\ transfer[t].of = w
        BY <1>1, <2>1, <2>3, <2>4 DEF TransferInv, Owns
      <3>2. request'[w].ref = t
        BY <1>2, <2>1
      <3>4. CASE SettlePayout(c) \/ RecordPaid(c)
        <4>1. request'[w].status = "COMPLETED"
          BY <3>4 DEF SettlePayout, RecordPaid, Pays, TypeOK
        <4>2. transfer[t].state = "paid"
          BY <1>5, <1>6, <2>3, <3>4 DEF SettlePayout, RecordPaid, HandlerInv, TransferInv
        <4> QED
          BY <1>1, <1>3, <2>3, <3>1, <3>2, <4>1, <4>2 DEF TransferInv
      <3>5. CASE RecordFailed(c)
        <4>1. request'[w].status = "REJECTED"
          BY <3>5 DEF RecordFailed, Returns, TypeOK
        <4>2. transfer[t].state = "failed"
          BY <1>5, <1>6, <2>3, <3>5 DEF RecordFailed, HandlerInv, TransferInv
        <4> QED
          BY <1>1, <1>3, <2>3, <3>1, <3>2, <4>1, <4>2 DEF TransferInv
      <3> QED
        BY <3>4, <3>5
    <2> QED
      BY <1>5, <1>6, <2>2, <2>4 DEF Local
  <1> QED
    BY <1>5, <1>6, Combine DEF Grows

(* What a handler that stops had sent is remembered as unanswered.         *)
LEMMA FailsStep ==
  ASSUME TypeOK, CarefulInv, Grows, NEW c \in Calls, NEW w \in Requests, w = call[c].w, Fails(c)
  PROVE  CarefulInv'
  <1>1. /\ call' = [call EXCEPT ![c] = IdleCall]
        /\ UNCHANGED <<request, ledger, counted, returned, transfer, events>>
        /\ call[c].kind = "sent" => w \in unanswered'
    BY DEF Fails, Ends
  <1>2. /\ RefInv'
        /\ \A v \in Careful : v # w => Same(v)
        /\ w \in Careful => /\ Local(w) /\ OneHandler(w)'
                            /\ \A d \in Calls : call[d].w = w => d = c
                            /\ \A d \in Calls : call'[d].w # w
    <2>1. Works(c, w, IdleCall)
      BY <1>1, IdleCallType DEF Works
    <2> QED
      BY <2>1, WorkFrame, IdleCallType
  <1>3. ASSUME w \in Careful
        PROVE  Local(w)'
    <2>1. BooksInv(w)'
      BY <1>1, <1>2, <1>3 DEF Local, BooksInv
    <2>2. ASSUME NEW t \in Transfers, transfer'[t].of = w
          PROVE  TransferInv(t)'
      <3>1. TransferInv(t) /\ transfer[t].of = w
        BY <1>1, <1>2, <1>3, <2>2 DEF Local
      <3>2. \A d \in Calls : Carries(d, w, t) => w \in unanswered'
        BY <1>1, <1>2, <1>3 DEF Carries
      <3> QED
        BY <1>1, <3>1, <3>2 DEF TransferInv, Grows
    <2> QED
      BY <1>2, <1>3, <2>1, <2>2 DEF Local
  <1> QED
    BY <1>2, <1>3, Combine DEF Grows

(* The gateway accepts a transfer it has not known before.                 *)
LEMMA SentFrame ==
  ASSUME TypeOK, AtWork, CarefulInv, Grows, NEW c \in Calls, NEW w \in Requests, w = call[c].w,
         NEW t \in Transfers, NEW k \in CallRecords, NEW state \in {"pending", "paid"},
         call[c].kind = "payout", transfer[t].state = "none",
         k = IdleCall \/ (k.kind = "sent" /\ k.w = w /\ k.ref = t),
         transfer' = [transfer EXCEPT ![t] = [of |-> w, state |-> state]],
         call' = [call EXCEPT ![c] = k],
         events \subseteq events', events' \subseteq events \cup {<<t, "success">>},
         UNCHANGED <<request, ledger, counted, returned>>
  PROVE  /\ RefInv'
         /\ \A v \in Careful : v # w => Same(v)
  <1>1. /\ call'[c] = k /\ \A d \in Calls : d # c => call'[d] = call[d]
        /\ transfer'[t] = [of |-> w, state |-> state]
        /\ \A u \in Transfers : u # t => transfer'[u] = transfer[u]
    BY DEF TypeOK
  <1>2. transfer[t].of = NoRequest /\ Unreported(t)
    BY DEF CarefulInv, RefInv
  <1>3. /\ \A v \in Requests : request[v].ref # t
        /\ \A d \in Calls : call[d].ref # t
    BY <1>2, WithdrawalAssumption DEF CarefulInv, RefInv, AtWork
  <1>4. \A u \in Transfers : u # t => \A r \in Reports : <<u, r>> \in events' <=> <<u, r>> \in events
    OBVIOUS
  <1>5. \A v \in Requests : request'[v].ref \in Transfers => transfer'[request'[v].ref].of = v
    BY <1>1, <1>3 DEF CarefulInv, RefInv
  <1>6. ASSUME NEW d \in Calls
        PROVE  /\ call'[d].ref \in Transfers => transfer'[call'[d].ref].of = call'[d].w
               /\ call'[d].kind = "idle" => call'[d].w = NoRequest /\ call'[d].ref = NoRef
    <2>1. CASE d = c
      BY <1>1, <2>1, IdleCallType, WithdrawalAssumption
    <2>2. CASE d # c
      BY <1>1, <1>3, <2>2 DEF CarefulInv, RefInv
    <2> QED
      BY <2>1, <2>2
  <1>7. ASSUME NEW u \in Transfers
        PROVE  /\ transfer'[u].state = "none" <=> transfer'[u].of = NoRequest
               /\ transfer'[u].of = NoRequest => Unreported(u)'
    <2>1. CASE u = t
      BY <1>1, <2>1, WithdrawalAssumption
    <2>2. CASE u # t
      BY <1>1, <1>4, <2>2 DEF CarefulInv, RefInv, Unreported, Reports
    <2> QED
      BY <2>1, <2>2
  <1>8. \A v \in Careful : v # w => Same(v)
    <2> SUFFICES ASSUME NEW v \in Careful, v # w
                 PROVE  Same(v)
      OBVIOUS
    <2>1. v \in Requests /\ v # NoRequest
      BY WithdrawalAssumption DEF Careful
    <2>2. \A d \in Calls : call'[d].w = v \/ call[d].w = v => call'[d] = call[d]
      BY <1>1, <2>1, IdleCallType
    <2>3. \A u \in Transfers : transfer'[u].of = v \/ transfer[u].of = v => u # t
      BY <1>1, <1>2, <2>1
    <2> QED
      BY <1>1, <1>4, <2>1, <2>2, <2>3 DEF Same
  <1> QED
    BY <1>5, <1>6, <1>7, <1>8 DEF RefInv

LEMMA InitiateStep ==
  ASSUME TypeOK, AtWork, CarefulInv, Grows, NEW c \in Calls, NEW w \in Requests, w = call[c].w,
         NEW t \in Transfers, InitiateTransfer(c, t)
  PROVE  CarefulInv'
  <1>1. PICK settled \in BOOLEAN :
          /\ transfer' = [transfer EXCEPT ![t] =
                            [of |-> w, state |-> IF settled THEN "paid" ELSE "pending"]]
          /\ \/ UNCHANGED events
             \/ settled /\ events' = events \cup {<<t, "success">>}
          /\ \/ call' = [call EXCEPT ![c] =
                           Handler("sent", w, IF settled THEN "COMPLETED" ELSE "PROCESSING", t)]
             \/ Ends(c) /\ unanswered' = unanswered \cup {w}
    BY DEF InitiateTransfer
  <1> DEFINE to == IF settled THEN "COMPLETED" ELSE "PROCESSING"
             state == IF settled THEN "paid" ELSE "pending"
  <1>2. /\ to \in Statuses /\ to \in {"COMPLETED", "PROCESSING"}
        /\ to = "COMPLETED" => state = "paid"
        /\ state \in {"pending", "paid"}
    BY Constants
  <1>3. /\ transfer' = [transfer EXCEPT ![t] = [of |-> w, state |-> state]]
        /\ \/ call' = [call EXCEPT ![c] = Handler("sent", w, to, t)]
           \/ Ends(c) /\ w \in unanswered'
        /\ <<t, "success">> \in events' => <<t, "success">> \in events \/ state = "paid"
        /\ <<t, "failed">> \in events' => <<t, "failed">> \in events
    BY <1>1
  <1> HIDE DEF to, state
  <1>4. /\ Handler("sent", w, to, t) \in CallRecords
        /\ Handler("sent", w, to, t).kind = "sent" /\ Handler("sent", w, to, t).w = w
        /\ Handler("sent", w, to, t).ref = t /\ Handler("sent", w, to, t).to = to
    BY <1>2 DEF Handler, CallRecords, Rows, Refs, Statuses
  <1>5. PICK k \in CallRecords :
          /\ call' = [call EXCEPT ![c] = k]
          /\ \/ k = IdleCall /\ w \in unanswered'
             \/ k.kind = "sent" /\ k.w = w /\ k.ref = t /\ k.to = to
    <2>1. CASE call' = [call EXCEPT ![c] = Handler("sent", w, to, t)]
      BY <1>4, <2>1
    <2>2. CASE Ends(c) /\ w \in unanswered'
      BY <2>2, IdleCallType DEF Ends
    <2> QED
      BY <1>3, <2>1, <2>2
  <1>6. /\ call[c].kind = "payout" /\ transfer[t].state = "none"
        /\ UNCHANGED <<request, ledger, counted, returned>>
    BY DEF InitiateTransfer
  <1>7. events \subseteq events' /\ events' \subseteq events \cup {<<t, "success">>}
    BY <1>1
  <1>8. RefInv' /\ \A v \in Careful : v # w => Same(v)
    BY <1>2, <1>3, <1>5, <1>6, <1>7, SentFrame
  <1>9. ASSUME w \in Careful'
        PROVE  Local(w)'
    <2>1. Local(w) /\ HandlerInv(c) /\ OneHandler(w)
      BY <1>9 DEF CarefulInv, Local, Grows
    <2>2. /\ call'[c] = k
          /\ \A d \in Calls : d # c => call'[d] = call[d]
          /\ transfer'[t] = [of |-> w, state |-> state]
          /\ \A u \in Transfers : u # t => transfer'[u] = transfer[u]
      BY <1>3, <1>5 DEF TypeOK
    <2>3. transfer[t].of = NoRequest /\ Unreported(t)
      BY <1>6 DEF CarefulInv, RefInv
    <2>4. \A u \in Transfers : transfer'[u].of = w => u = t
      BY <1>9, <2>2 DEF Careful, Calm, Resent
    <2>5. Sendable(w)
      BY <1>6, <2>1 DEF HandlerInv
    <2>6. \A d \in Calls : call'[d].w = w => d = c
      BY <2>1, <2>2 DEF OneHandler
    <2>7. BooksInv(w)' /\ OneHandler(w)'
      BY <1>6, <2>1, <2>6 DEF Local, BooksInv, OneHandler
    <2>8. ASSUME NEW d \in Calls, call'[d].w = w
          PROVE  HandlerInv(d)'
      <3>1. d = c /\ k.kind = "sent" /\ k.w = w /\ k.ref = t /\ k.to = to
        BY <1>5, <2>2, <2>6, <2>8, IdleCallType, WithdrawalAssumption
      <3>2. /\ Owns(w, t)' /\ Sendable(w)'
            /\ to = "COMPLETED" => transfer'[t].state = "paid"
        BY <1>2, <1>6, <2>2, <2>5 DEF Owns, Sendable
      <3> QED
        BY <1>2, <2>2, <3>1, <3>2 DEF HandlerInv
    <2>9. ASSUME NEW u \in Transfers, transfer'[u].of = w
          PROVE  TransferInv(u)'
      <3>1. u = t
        BY <2>4, <2>9
      <3>2. Carries(c, w, t)' \/ w \in unanswered'
        BY <1>5, <2>2 DEF Carries
      <3>3. request'[w].status \in {"APPROVED", "PROCESSING"}
        BY <1>6, <2>5 DEF Sendable
      <3>4. request'[w].ref # t
        BY <1>6, <2>3, WithdrawalAssumption DEF CarefulInv, RefInv
      <3>5. /\ <<t, "success">> \in events' => transfer'[t].state = "paid"
            /\ <<t, "failed">> \notin events'
        BY <1>3, <2>2, <2>3 DEF Unreported
      <3> QED
        BY <2>2, <2>4, <3>1, <3>2, <3>3, <3>4, <3>5 DEF TransferInv
    <2> QED
      BY <2>7, <2>8, <2>9 DEF Local
  <1> QED
    BY <1>8, <1>9, Combine

(* The gateway ends a transfer and reports it.                             *)
LEMMA MovesStep ==
  ASSUME TypeOK, CarefulInv, Grows, NEW t \in Transfers, NEW w, w = transfer[t].of,
         GatewayPays(t) \/ GatewayFails(t) \/ GatewayReverses(t)
  PROVE  CarefulInv'
  <1>1. /\ UNCHANGED <<request, ledger, counted, returned, call>>
        /\ transfer[t].state # "none"
    BY DEF GatewayPays, GatewayFails, GatewayReverses, Moves
  <1>2. /\ \A u \in Transfers : u # t => transfer'[u] = transfer[u]
        /\ transfer'[t].of = w /\ transfer'[t].state \in {"paid", "failed"}
        /\ \A u \in Transfers : u # t => \A r \in Reports : <<u, r>> \in events' <=> <<u, r>> \in events
    BY DEF GatewayPays, GatewayFails, GatewayReverses, Moves, TypeOK
  <1>3. w # NoRequest
    BY <1>1 DEF CarefulInv, RefInv
  <1>4. \A u \in Transfers : transfer'[u].of = transfer[u].of
    BY <1>2
  <1>5. RefInv'
    <2>1. /\ \A v \in Requests : request'[v].ref \in Transfers => transfer'[request'[v].ref].of = v
          /\ \A c \in Calls : call'[c].ref \in Transfers => transfer'[call'[c].ref].of = call'[c].w
          /\ \A c \in Calls : call'[c].kind = "idle" => call'[c].w = NoRequest /\ call'[c].ref = NoRef
      BY <1>1, <1>4 DEF CarefulInv, RefInv
    <2>2. \A u \in Transfers :
            /\ transfer'[u].state = "none" <=> transfer'[u].of = NoRequest
            /\ transfer'[u].of = NoRequest => Unreported(u)'
      BY <1>2, <1>3 DEF CarefulInv, RefInv, Unreported, Reports
    <2> QED
      BY <2>1, <2>2 DEF RefInv
  <1>6. \A v \in Careful : v # w => Same(v)
    BY <1>1, <1>2 DEF Same, Careful
  <1>7. ASSUME w \in Careful'
        PROVE  Local(w)'
    <2>1. Local(w) /\ TransferInv(t) /\ ~GatewayReverses(t)
      BY <1>7 DEF CarefulInv, Local, Grows, GatewayReverses, Careful, Calm
    <2>2. transfer[t].state = "pending"
      BY <2>1 DEF GatewayPays, GatewayFails, Moves
    <2>3. \/ transfer'[t].state = "paid" /\ events' = events \cup {<<t, "success">>}
          \/ transfer'[t].state = "failed" /\ events' = events \cup {<<t, "failed">>}
      BY <2>1 DEF GatewayPays, GatewayFails, Moves, TypeOK
    <2>4. BooksInv(w)' /\ OneHandler(w)'
      BY <1>1, <2>1 DEF Local, BooksInv, OneHandler
    <2>5. \A u \in Transfers : transfer[u].of = w => u = t
      BY <2>1 DEF TransferInv
    <2>6. ASSUME NEW c \in Calls, call'[c].w = w
          PROVE  HandlerInv(c)'
      <3>1. HandlerInv(c) /\ call'[c] = call[c] /\ call[c].w = w
        BY <1>1, <2>1, <2>6 DEF Local
      <3>2. Accepted(w)' = Accepted(w) /\ Sendable(w)' = Sendable(w)
        BY <1>1, <1>4 DEF Accepted, Sendable
      <3>3. \A u : Owns(w, u) => u = t /\ Owns(w, u)'
        BY <1>4, <2>5 DEF Owns
      <3>4. events \subseteq events'
        BY <2>3
      <3> QED
        BY <1>1, <2>2, <3>1, <3>2, <3>3, <3>4 DEF HandlerInv
    <2>7. ASSUME NEW u \in Transfers, transfer'[u].of = w
          PROVE  TransferInv(u)'
      <3>1. u = t
        BY <1>4, <2>5, <2>7
      <3>2. \A c \in Calls : Carries(c, w, t)' <=> Carries(c, w, t)
        BY <1>1 DEF Carries
      <3>3. Unreported(t)
        BY <2>1, <2>2 DEF TransferInv, Unreported
      <3>4. request[w].status \notin {"COMPLETED", "REJECTED"}
        BY <2>1, <2>2 DEF TransferInv
      <3> QED
        BY <1>1, <1>4, <2>1, <2>3, <2>5, <3>1, <3>2, <3>3, <3>4 DEF TransferInv, Unreported, Grows
    <2> QED
      BY <2>4, <2>6, <2>7 DEF Local
  <1> QED
    BY <1>5, <1>6, <1>7, Combine DEF Grows

(* Only a webhook that no request knows is dropped.                        *)
LEMMA IgnoreStep ==
  ASSUME TypeOK, CarefulInv, Grows, NEW t \in Transfers, NEW report \in Reports,
         IgnorePayout(t, report)
  PROVE  CarefulInv'
  <1>1. /\ UNCHANGED <<request, ledger, counted, returned, transfer, call>>
        /\ events' = events \ {<<t, report>>}
        /\ \A w \in Requests : request[w].ref # t
    BY DEF IgnorePayout
  <1>2. RefInv'
    BY <1>1 DEF CarefulInv, RefInv, Unreported
  <1>3. \A v \in Careful : Same(v)
    BY <1>1 DEF Same, Careful
  <1> QED
    BY <1>2, <1>3, SameLocal DEF CarefulInv, Grows

LEMMA CarefulStep ==
  ASSUME TypeOK, AtWork, CarefulInv, [Next]_vars
  PROVE  CarefulInv'
  <1>g. Grows
    BY CarefulGrows DEF CarefulInv
  <1>1. ASSUME NEW c \in Calls, Continues(c) \/ Fails(c)
        PROVE  CarefulInv'
    <2>0. call[c].kind # "idle"
      BY <1>1 DEF Continues, CommitRejection, CommitDecision, InitiateTransfer, AdvancePayout,
             SettlePayout, RecordPaid, RecordFailed, Fails
    <2>1. PICK w \in Requests : w = call[c].w
      BY <2>0 DEF AtWork
    <2> QED
      BY <1>1, <1>g, <2>1, RejectionStep, DecisionStep, InitiateStep, AdvanceStep, ClosingStep,
         FailsStep DEF Continues
  <1>2. CASE UNCHANGED vars
    <2>1. RefInv'
      BY <1>2 DEF vars, CarefulInv, RefInv, Unreported
    <2>2. \A v \in Careful : Same(v)
      BY <1>2 DEF vars, Same
    <2> QED
      BY <1>g, <2>1, <2>2, SameLocal DEF CarefulInv, Grows
  <1>3. CASE Gateway
    BY <1>3, <1>g, MovesStep, IgnoreStep DEF Gateway
  <1> QED
    BY <1>g, <1>1, <1>2, <1>3, CreateStep, BeginsStep DEF Next

LEMMA CarefulInit == Init => CarefulInv
  BY IdleCallType, WithdrawalAssumption
     DEF Init, CarefulInv, Careful, RefInv, Unreported, Local, BooksInv, OneHandler, RowFor,
         HandlerInv, TransferInv

LEMMA CarefulAlways == Spec => [](TypeOK /\ AtWork /\ CarefulInv)
  BY CarefulInit, TypeAlways, CarefulStep, PTL DEF Spec

(* Request, ledger row and wallet tell one story until two handlers work   *)
(* on the request at a time, someone decides or reports on what is already *)
(* decided or on its way, or a second transfer goes out; and a transfer    *)
(* whose reference is neither written nor about to be is remembered as     *)
(* unanswered.                                                             *)
THEOREM BooksAgreeAlways == Spec => []BooksAgree
  <1>1. CarefulInv => BooksAgree
    <2> SUFFICES ASSUME CarefulInv, NEW w \in Requests, Calm(w)
                 PROVE  /\ BooksInv(w)
                        /\ \A t \in Transfers :
                             transfer[t].of = w =>
                               \/ request[w].ref = t \/ w \in unanswered
                               \/ \E c \in Calls : call[c].w = w /\ call[c].ref = t
      BY DEF BooksAgree, BooksInv
    <2>1. Local(w)
      BY DEF CarefulInv, Careful
    <2>2. ASSUME NEW t \in Transfers, transfer[t].of = w
          PROVE  \/ request[w].ref = t \/ w \in unanswered
                 \/ \E c \in Calls : Carries(c, w, t)
      BY <2>1, <2>2 DEF Local, TransferInv
    <2> QED
      BY <2>1, <2>2 DEF Local, Carries
  <1> QED
    BY <1>1, CarefulAlways, PTL

-----------------------------------------------------------------------------
(* One transfer.  What an answered request, that no two handlers work on   *)
(* at a time, keeps of its transfer: its reference, a decision, or a       *)
(* handler that is about to write the reference.                           *)

Answered == {w \in Requests : w \notin overlapped \cup unanswered}

Sending(w) ==
    \/ Settled(w)
    \/ request[w].status = "PROCESSING" /\ request[w].ref # NoRef
    \/ \E c \in Calls : call[c].w = w /\ call[c].kind = "sent"

SentHandler(c) ==
    LET w == call[c].w IN
    /\ call[c].kind = "review" => call[c].to \in Transition(request[w].status)
    /\ call[c].kind = "payout" => ~Accepted(w)
    /\ call[c].kind = "sent" => call[c].ref \in Transfers

SentLocal(w) ==
    /\ OneHandler(w)
    /\ \A c \in Calls : call[c].w = w => SentHandler(c)
    /\ Accepted(w) => Sending(w)
    /\ ~Resent(w)

SentInv == \A w \in Answered : SentLocal(w)

(* What is not touched keeps it.                                           *)
LEMMA SentSame ==
  ASSUME NEW v, SentLocal(v), request'[v] = request[v],
         \A c \in Calls : call'[c].w = v \/ call[c].w = v => call'[c] = call[c],
         \A t \in Transfers : transfer'[t].of = v => transfer[t].of = v
  PROVE  SentLocal(v)'
  <1>1. OneHandler(v)'
    BY DEF SentLocal, OneHandler
  <1>2. Accepted(v)' => Accepted(v)
    BY DEF Accepted
  <1>3. Sending(v) => Sending(v)'
    BY DEF Sending, Settled
  <1>4. ASSUME NEW c \in Calls, call'[c].w = v
        PROVE  SentHandler(c)'
    BY <1>2, <1>4 DEF SentLocal, SentHandler
  <1>5. ~Resent(v)'
    BY DEF SentLocal, Resent
  <1> QED
    BY <1>1, <1>2, <1>3, <1>4, <1>5 DEF SentLocal

(* A handler goes on as k, or begins so, with a request that no other is   *)
(* at work on; no transfer goes out.                                       *)
LEMMA SentOn ==
  ASSUME TypeOK, RefInv, SentInv, Answered' \subseteq Answered, NEW c \in Calls, NEW w \in Requests, NEW k,
         call' = [call EXCEPT ![c] = k], call[c].w \in {w, NoRequest}, k.w \in {w, NoRequest},
         w \in Answered' => \A d \in Calls : call[d].w = w => d = c,
         \A v \in Requests : v # w => request'[v] = request[v],
         transfer' = transfer,
         w \in Answered' /\ k.w = w => SentHandler(c)',
         w \in Answered' /\ Accepted(w) => Sending(w)'
  PROVE  SentInv'
  <1>1. call'[c] = k /\ \A d \in Calls : d # c => call'[d] = call[d]
    BY DEF TypeOK
  <1>2. ASSUME NEW v \in Answered', v # w
        PROVE  SentLocal(v)'
    <2>1. SentLocal(v) /\ v \in Requests /\ v # NoRequest
      BY <1>2, WithdrawalAssumption DEF SentInv, Answered
    <2>2. \A d \in Calls : call'[d].w = v \/ call[d].w = v => call'[d] = call[d]
      BY <1>1, <1>2, <2>1
    <2> QED
      BY <1>2, <2>1, <2>2, SentSame
  <1>3. ASSUME w \in Answered'
        PROVE  SentLocal(w)'
    <2>1. SentLocal(w) /\ \A d \in Calls : call[d].w = w => d = c
      BY <1>3 DEF SentInv
    <2>2. \A d \in Calls : call'[d].w = w => d = c
      BY <1>1, <2>1
    <2>3. Accepted(w)' = Accepted(w) /\ Resent(w)' = Resent(w)
      BY DEF Accepted, Resent
    <2>4. OneHandler(w)'
      BY <2>2 DEF OneHandler
    <2>5. ASSUME NEW d \in Calls, call'[d].w = w
          PROVE  SentHandler(d)'
      BY <1>1, <1>3, <2>2, <2>5
    <2> QED
      BY <1>3, <2>1, <2>3, <2>4, <2>5 DEF SentLocal
  <1> QED
    BY <1>2, <1>3 DEF SentInv

LEMMA SentBegins ==
  ASSUME TypeOK, AtWork, RefInv, SentInv, Answered' \subseteq Answered, NEW c \in Calls, Begins(c)
  PROVE  SentInv'
  <1>0. ASSUME NEW w \in Requests, NEW k \in CallRecords, k.w = w, k.kind \notin {"idle", "sent"},
               TakesOn(c, k),
               w \in Answered /\ (Accepted(w) => Sending(w)) /\ Alone(w) =>
                   /\ k.kind = "review" => k.to \in Transition(request[w].status)
                   /\ k.kind = "payout" => ~Accepted(w)
        PROVE  SentInv'
    <2>1. /\ call[c].w = NoRequest /\ call' = [call EXCEPT ![c] = k] /\ call'[c] = k
          /\ UNCHANGED <<request, transfer>>
      BY <1>0 DEF TakesOn, RefInv, TypeOK
    <2>2. w \in Answered' => Alone(w) /\ w \in Answered
      BY <1>0 DEF TakesOn, Answered, Alone
    <2>3. w \in Answered' => (Accepted(w) => Sending(w))
      BY <2>2 DEF SentInv, SentLocal
    <2>4. w \in Answered' => SentHandler(c)'
      BY <1>0, <2>1, <2>2, <2>3 DEF SentHandler, Accepted
    <2>5. w \in Answered' /\ Accepted(w) => Sending(w)'
      BY <2>1, <2>2, <2>3 DEF Sending, Settled, Alone
    <2>6. w \in Answered' => \A d \in Calls : call[d].w = w => d = c
      BY <2>2 DEF Alone
    <2> QED
      BY <1>0, <2>1, <2>4, <2>5, <2>6, SentOn
  <1>1. ASSUME NEW w \in Requests, NEW to \in Decisions,
               NEW ref \in {NoRef, HandRef, request[w].ref},
               ReviewWithdrawalRequest(c, w, to, ref)
        PROVE  SentInv'
    <2>1. PICK k : k = [kind |-> "review", w |-> w, to |-> to, ref |-> ref, row |-> ledger[w]]
      OBVIOUS
    <2>2. k \in CallRecords /\ k.w = w /\ k.kind = "review" /\ k.to = to
      BY <2>1 DEF TypeOK, CallRecords, Decisions, Refs
    <2> QED
      BY <1>0, <1>1, <2>1, <2>2 DEF ReviewWithdrawalRequest
  <1>2. ASSUME NEW w \in Requests, RetryWithdrawalPayout(c, w)
        PROVE  SentInv'
    <2>1. PICK k : k = Handler("payout", w, "NONE", NoRef)
      OBVIOUS
    <2>2. k \in CallRecords /\ k.w = w /\ k.kind = "payout"
      BY <2>1 DEF Handler, CallRecords, Rows, Refs, Statuses
    <2>3. Alone(w) => ~Sending(w)
      BY <1>2 DEF RetryWithdrawalPayout, Retryable, Sending, Settled, Alone
    <2> QED
      BY <1>0, <1>2, <2>1, <2>2, <2>3 DEF RetryWithdrawalPayout
  <1>3. ASSUME NEW w \in Requests, NEW t \in Transfers, NEW report \in Reports,
               FindPayout(c, w, t, report)
        PROVE  SentInv'
    <2> DEFINE to == IF report = "success" THEN "COMPLETED" ELSE "REJECTED"
    <2>0. to \in Statuses
      BY Constants
    <2>1. PICK k : k = Handler("webhook", w, to, t)
      OBVIOUS
    <2>2. TakesOn(c, k)
      BY <1>3, <2>1 DEF FindPayout
    <2> HIDE DEF to
    <2>3. k \in CallRecords /\ k.w = w /\ k.kind = "webhook"
      BY <2>0, <2>1 DEF Handler, CallRecords, Rows, Refs, Statuses
    <2> QED
      BY <1>0, <2>2, <2>3
  <1> QED
    BY <1>1, <1>2, <1>3 DEF Begins

LEMMA SentContinues ==
  ASSUME TypeOK, AtWork, RefInv, SentInv, Answered' \subseteq Answered, NEW c \in Calls,
         NEW w \in Requests, w = call[c].w, Continues(c)
  PROVE  SentInv'
  <1>1. w \in Answered' => /\ SentLocal(w) /\ SentHandler(c)
                           /\ \A d \in Calls : call[d].w = w => d = c
    BY DEF SentInv, SentLocal, OneHandler
  <1>2. CASE CommitRejection(c) \/ SettlePayout(c) \/ RecordPaid(c) \/ RecordFailed(c)
    <2>1. /\ call' = [call EXCEPT ![c] = IdleCall] /\ transfer' = transfer
          /\ Pays(w) \/ Returns(w)
      BY <1>2 DEF CommitRejection, SettlePayout, RecordPaid, RecordFailed, Ends
    <2>2. /\ Settled(w)'
          /\ \A v \in Requests : v # w => request'[v] = request[v]
      BY <2>1 DEF Pays, Returns, Settled, TypeOK
    <2>3. IdleCall.w = NoRequest /\ IdleCall.w # w
      BY IdleCallType, WithdrawalAssumption
    <2> QED
      BY <1>1, <2>1, <2>2, <2>3, SentOn DEF Sending
  <1>3. CASE CommitDecision(c)
    <2>1. PICK k : k = IF call[c].to = "APPROVED" THEN Handler("payout", w, "NONE", NoRef)
                       ELSE IdleCall
      OBVIOUS
    <2>2. /\ call[c].to = "APPROVED" => k.kind = "payout" /\ k.w = w
          /\ call[c].to # "APPROVED" => k.w = NoRequest
      BY <2>1, IdleCallType DEF Handler
    <2>3. /\ call' = [call EXCEPT ![c] = k] /\ transfer' = transfer
          /\ call[c].kind = "review" /\ call[c].to # "REJECTED"
      BY <1>3, <2>1 DEF CommitDecision, Ends
    <2>4. /\ request'[w].status = call[c].to
          /\ \A v \in Requests : v # w => request'[v] = request[v]
      BY <1>3 DEF CommitDecision, TypeOK
    <2>5. w \in Answered' /\ Accepted(w) => call[c].to = "COMPLETED"
      <3> SUFFICES ASSUME w \in Answered', Accepted(w)
                   PROVE  call[c].to = "COMPLETED"
        OBVIOUS
      <3>1. Sending(w) /\ call[c].to \in Transition(request[w].status)
        BY <1>1, <2>3 DEF SentLocal, SentHandler
      <3>2. Settled(w) \/ request[w].status = "PROCESSING"
        BY <1>1, <2>3, <3>1 DEF Sending
      <3> QED
        BY <2>3, <3>1, <3>2 DEF Settled, Transition
    <2>6. w \in Answered' /\ k.w = w => SentHandler(c)'
      <3>1. call'[c] = k /\ Accepted(w)' = Accepted(w)
        BY <2>3 DEF TypeOK, Accepted
      <3> QED
        BY <2>2, <2>5, <3>1, WithdrawalAssumption DEF SentHandler
    <2>7. w \in Answered' /\ Accepted(w) => Sending(w)'
      BY <2>4, <2>5 DEF Sending, Settled
    <2> QED
      BY <1>1, <2>2, <2>3, <2>4, <2>6, <2>7, SentOn
  <1>4. CASE AdvancePayout(c)
    <2>1. PICK k : k = IF call[c].to = "COMPLETED"
                       THEN Handler("settled", w, "COMPLETED", call[c].ref) ELSE IdleCall
      OBVIOUS
    <2>2. k.w \in {w, NoRequest} /\ k.kind \in {"settled", "idle"}
      BY <2>1, IdleCallType DEF Handler
    <2>3. /\ call' = [call EXCEPT ![c] = k] /\ transfer' = transfer /\ call[c].kind = "sent"
      BY <1>4, <2>1 DEF AdvancePayout, Ends
    <2>4. /\ request'[w] = [status |-> "PROCESSING", ref |-> call[c].ref]
          /\ \A v \in Requests : v # w => request'[v] = request[v]
      BY <1>4 DEF AdvancePayout, TypeOK
    <2>5. w \in Answered' => Sending(w)'
      BY <1>1, <2>3, <2>4, WithdrawalAssumption DEF SentHandler, Sending
    <2>6. SentHandler(c)'
      BY <2>2, <2>3 DEF SentHandler, TypeOK
    <2> QED
      BY <1>1, <2>2, <2>3, <2>4, <2>5, <2>6, SentOn
  <1>5. ASSUME NEW t \in Transfers, InitiateTransfer(c, t)
        PROVE  SentInv'
    <2>1. PICK to \in Statuses :
            \/ call' = [call EXCEPT ![c] = Handler("sent", w, to, t)]
            \/ Ends(c) /\ unanswered' = unanswered \cup {w}
      BY <1>5, Constants DEF InitiateTransfer
    <2>2. PICK k : k = Handler("sent", w, to, t)
      OBVIOUS
    <2>3. k.kind = "sent" /\ k.w = w /\ k.ref = t
      BY <2>2 DEF Handler
    <2>4. /\ call[c].kind = "payout" /\ request' = request
          /\ \A u \in Transfers : u # t => transfer'[u] = transfer[u]
          /\ transfer'[t].of = w
          /\ \A d \in Calls : d # c => call'[d] = call[d]
          /\ call'[c].w \in {w, NoRequest}
      <3>1. /\ call[c].kind = "payout" /\ request' = request
            /\ \A u \in Transfers : u # t => transfer'[u] = transfer[u]
            /\ transfer'[t].of = w
        BY <1>5 DEF InitiateTransfer, TypeOK
      <3>2. /\ \A d \in Calls : d # c => call'[d] = call[d]
            /\ call'[c].w \in {w, NoRequest}
        BY <2>1, <2>2, <2>3, IdleCallType DEF Ends, TypeOK
      <3> QED
        BY <3>1, <3>2
    <2>5. ASSUME NEW v \in Answered', v # w
          PROVE  SentLocal(v)'
      <3>1. SentLocal(v) /\ v # NoRequest
        BY <2>5, WithdrawalAssumption DEF SentInv, Answered
      <3>2. \A d \in Calls : call'[d].w = v \/ call[d].w = v => call'[d] = call[d]
        BY <2>4, <2>5, <3>1
      <3>3. \A u \in Transfers : transfer'[u].of = v => transfer[u].of = v
        BY <2>4, <2>5
      <3> QED
        BY <2>4, <3>1, <3>2, <3>3, SentSame
    <2>6. ASSUME w \in Answered'
          PROVE  SentLocal(w)'
      <3>1. ~Accepted(w)
        BY <1>1, <2>4, <2>6 DEF SentHandler
      <3>2. call'[c] = k
        BY <2>1, <2>2, <2>6 DEF Answered, TypeOK
      <3>3. \A d \in Calls : call'[d].w = w => d = c
        BY <1>1, <2>4, <2>6
      <3>4. \A u \in Transfers : transfer'[u].of = w => u = t
        BY <2>4, <3>1 DEF Accepted
      <3>5. ~Resent(w)'
        BY <3>4 DEF Resent
      <3>6. \A d \in Calls : call'[d].w = w => SentHandler(d)'
        BY <2>3, <3>2, <3>3 DEF SentHandler
      <3>7. Sending(w)'
        BY <2>3, <3>2 DEF Sending
      <3> QED
        BY <3>3, <3>5, <3>6, <3>7 DEF SentLocal, OneHandler
    <2> QED
      BY <2>5, <2>6 DEF SentInv
  <1> QED
    BY <1>2, <1>3, <1>4, <1>5 DEF Continues

LEMMA SentStep ==
  ASSUME TypeOK, AtWork, RefInv, SentInv, [Next]_vars
  PROVE  SentInv'
  <1>0. Answered' \subseteq Answered
    BY CarefulGrows DEF Grows, Answered
  <1>1. ASSUME NEW w \in Requests, CreateWithdrawalRequest(w)
        PROVE  SentInv'
    <2>1. /\ UNCHANGED <<transfer, call>> /\ request[w].status = "NONE"
          /\ \A v \in Requests : v # w => request'[v] = request[v]
      BY <1>1 DEF CreateWithdrawalRequest, TypeOK
    <2>2. ASSUME NEW v \in Answered', v # w
          PROVE  SentLocal(v)'
      <3>1. SentLocal(v) /\ request'[v] = request[v]
        BY <1>0, <2>1, <2>2 DEF SentInv, Answered
      <3> QED
        BY <2>1, <3>1, SentSame
    <2>3. ASSUME w \in Answered'
          PROVE  SentLocal(w)'
      <3>1. SentLocal(w)
        BY <1>0, <2>3 DEF SentInv
      <3>2. Accepted(w) => Sending(w)'
        BY <2>1, <3>1 DEF SentLocal, Sending, Settled
      <3>3. ASSUME NEW c \in Calls, call[c].w = w
            PROVE  SentHandler(c)'
        BY <2>1, <3>1, <3>3 DEF SentLocal, SentHandler, Transition, Accepted
      <3> QED
        BY <2>1, <3>1, <3>2, <3>3 DEF SentLocal, OneHandler, Accepted, Resent
    <2> QED
      BY <2>2, <2>3 DEF SentInv
  <1>2. ASSUME NEW c \in Calls, Begins(c)
        PROVE  SentInv'
    BY <1>0, <1>2, SentBegins
  <1>3. ASSUME NEW c \in Calls, Continues(c)
        PROVE  SentInv'
    <2>1. call[c].kind # "idle"
      BY <1>3 DEF Continues, CommitRejection, CommitDecision, InitiateTransfer, AdvancePayout,
             SettlePayout, RecordPaid, RecordFailed
    <2>2. PICK w \in Requests : w = call[c].w
      BY <2>1 DEF AtWork
    <2> QED
      BY <1>0, <1>3, <2>2, SentContinues
  <1>4. ASSUME NEW c \in Calls, Fails(c)
        PROVE  SentInv'
    <2>1. PICK w \in Requests : w = call[c].w
      BY <1>4 DEF Fails, AtWork
    <2>2. /\ call' = [call EXCEPT ![c] = IdleCall] /\ UNCHANGED <<request, transfer>>
          /\ call[c].kind = "sent" => w \in unanswered'
      BY <1>4, <2>1 DEF Fails, Ends
    <2>3. w \in Answered' => SentLocal(w) /\ \A d \in Calls : call[d].w = w => d = c
      BY <1>0, <2>1 DEF SentInv, SentLocal, OneHandler
    <2>4. w \in Answered' /\ Accepted(w) => Sending(w)'
      BY <2>2, <2>3 DEF SentLocal, Sending, Settled, Answered
    <2>5. IdleCall.w = NoRequest /\ IdleCall.w # w
      BY IdleCallType, WithdrawalAssumption
    <2> QED
      BY <1>0, <2>1, <2>2, <2>3, <2>4, <2>5, SentOn
  <1>5. CASE Gateway \/ UNCHANGED vars
    <2>1. UNCHANGED <<request, call>>
      BY <1>5 DEF Gateway, GatewayPays, GatewayFails, GatewayReverses, Moves, IgnorePayout, vars
    <2>2. \A u \in Transfers : transfer'[u].of = transfer[u].of
      <3>1. ASSUME NEW t \in Transfers, GatewayPays(t) \/ GatewayFails(t) \/ GatewayReverses(t)
            PROVE  \A u \in Transfers : transfer'[u].of = transfer[u].of
        <4>1. \E to : transfer' = [transfer EXCEPT ![t].state = to]
          BY <3>1 DEF GatewayPays, GatewayFails, GatewayReverses, Moves
        <4> QED
          BY <4>1 DEF TypeOK
      <3> QED
        BY <1>5, <3>1 DEF Gateway, IgnorePayout, vars
    <2>3. ASSUME NEW v \in Answered'
          PROVE  SentLocal(v)'
      <3>1. SentLocal(v)
        BY <1>0, <2>3 DEF SentInv
      <3> QED
        BY <2>1, <2>2, <3>1, SentSame
    <2> QED
      BY <2>3 DEF SentInv
  <1> QED
    BY <1>1, <1>2, <1>3, <1>4, <1>5 DEF Next

(* A second transfer goes out for a request only where the first was lost  *)
(* sight of, its answer or the write of its reference lost, or where two   *)
(* handlers worked on the request at a time: webhooks in any number,       *)
(* decisions of admins, failing writes and stops of the process included.  *)
THEOREM SentOnce == Spec => []NeverResent
  <1>1. Init => SentInv
    BY IdleCallType, WithdrawalAssumption
       DEF Init, SentInv, Answered, SentLocal, OneHandler, SentHandler, Accepted, Resent
  <1>2. SentInv => NeverResent
    BY DEF SentInv, SentLocal, Answered, NeverResent
  <1>3. CarefulInv => RefInv
    BY DEF CarefulInv
  <1> QED
    BY <1>1, <1>2, <1>3, CarefulAlways, SentStep, PTL DEF Spec

-----------------------------------------------------------------------------
(* The promise.                                                            *)

PaidOut(w) == \E t \in Transfers : transfer[t].of = w /\ transfer[t].state = "paid"

(* Where the amount of a careful request is.                               *)
LEMMA AmountIs ==
  ASSUME NEW w, Calm(w), Local(w)
  PROVE  AmountOf(w) = IF request[w].status = "NONE" THEN "wallet"
                       ELSE IF request[w].status = "REJECTED" THEN "returned"
                       ELSE IF request[w].status = "COMPLETED" \/ PaidOut(w) THEN "bank"
                       ELSE "aside"
  <1>1. returned[w] > 0 <=> request[w].status = "REJECTED"
    BY DEF Local, BooksInv
  <1>2. Paid(w) <=> request[w].status = "COMPLETED" \/ PaidOut(w)
    BY DEF Paid, PaidOut
  <1> QED
    BY <1>1, <1>2 DEF AmountOf

(* What a step may do to the amount of the request it works on.            *)
Progress(w) ==
    \/ AmountOf(w) = "wallet" /\ AmountOf(w)' = "aside" /\ approved' = approved
    \/ AmountOf(w) = "aside" /\ AmountOf(w)' = "aside" /\ approved' = approved \cup {w}
    \/ AmountOf(w) = "aside" /\ AmountOf(w)' = "bank" /\ approved' = approved /\ w \in approved
    \/ AmountOf(w) = "aside" /\ AmountOf(w)' = "returned" /\ approved' = approved
    \/ AmountOf(w)' = AmountOf(w) /\ approved' = approved

(* A step works on the request w, and leaves the others as they are.       *)
Keeps(w) ==
    /\ approved' \in {approved, approved \cup {w}}
    /\ \A v \in Careful : v # w => AmountOf(v)' = AmountOf(v)
    /\ w \in Careful' => Progress(w)
    /\ w \in Careful \ Careful' => AmountOf(w) # "wallet" /\ approved' = approved

LEMMA PromiseMove ==
  ASSUME NEW w \in Requests, Keeps(w), Grows
  PROVE  [Promise!Next]_<<[v \in Requests |-> AmountOf(v)], approved>>
  <1>0. \A v \in Requests : v # w => AmountOf(v)' = AmountOf(v)
    BY DEF Keeps, Grows, Careful, AmountOf
  <1>1. CASE w \notin Careful
    <2>1. AmountOf(w) = "unclear" /\ AmountOf(w)' = "unclear"
      BY <1>1 DEF Grows, Careful, AmountOf
    <2>2. CASE approved' = approved
      BY <1>0, <2>1, <2>2
    <2>3. CASE approved' = approved \cup {w}
      <3>1. Promise!Approve(w)
        BY <1>0, <2>1, <2>3 DEF Promise!Approve
      <3> QED
        BY <3>1 DEF Promise!Next
    <2> QED
      BY <2>2, <2>3 DEF Keeps
  <1>2. CASE w \in Careful \ Careful'
    <2>1. AmountOf(w) # "wallet" /\ AmountOf(w)' = "unclear" /\ approved' = approved
      BY <1>2 DEF Keeps, Careful, AmountOf
    <2>2. Promise!Contradict(w)
      BY <1>0, <2>1 DEF Promise!Contradict
    <2> QED
      BY <2>2 DEF Promise!Next
  <1>3. CASE w \in Careful'
    <2>1. CASE AmountOf(w)' = AmountOf(w) /\ approved' = approved
      BY <1>0, <2>1
    <2>2. CASE AmountOf(w) = "wallet" /\ AmountOf(w)' = "aside" /\ approved' = approved
      <3>1. Promise!SetAside(w)
        BY <1>0, <2>2 DEF Promise!SetAside, Promise!Moves
      <3> QED
        BY <3>1 DEF Promise!Next
    <2>3. CASE /\ AmountOf(w) = "aside" /\ AmountOf(w)' = "aside"
               /\ approved' = approved \cup {w}
      <3>1. Promise!Approve(w)
        BY <1>0, <2>3 DEF Promise!Approve
      <3> QED
        BY <3>1 DEF Promise!Next
    <2>4. CASE /\ AmountOf(w) = "aside" /\ AmountOf(w)' = "bank" /\ approved' = approved
               /\ w \in approved
      <3>1. Promise!PayOut(w)
        BY <1>0, <2>4 DEF Promise!PayOut, Promise!Moves
      <3> QED
        BY <3>1 DEF Promise!Next
    <2>5. CASE AmountOf(w) = "aside" /\ AmountOf(w)' = "returned" /\ approved' = approved
      <3>1. Promise!GiveBack(w)
        BY <1>0, <2>5 DEF Promise!GiveBack, Promise!Moves
      <3> QED
        BY <3>1 DEF Promise!Next
    <2> QED
      BY <1>3, <2>1, <2>2, <2>3, <2>4, <2>5 DEF Keeps, Progress
  <1> QED
    BY <1>1, <1>2, <1>3

LEMMA SameAmount ==
  ASSUME NEW v \in Careful, request'[v] = request[v], returned'[v] = returned[v],
         v \notin overlapped' \cup contested',
         \A t \in Transfers : transfer'[t].of = v \/ transfer[t].of = v =>
             transfer'[t] = transfer[t]
  PROVE  AmountOf(v)' = AmountOf(v)
  <1>1. Paid(v)' = Paid(v)
    BY DEF Paid
  <1>2. Calm(v) /\ Calm(v)'
    BY DEF Careful, Calm, Resent
  <1> QED
    BY <1>1, <1>2 DEF AmountOf

(* The steps of a handler that is at work on w.                            *)
LEMMA ContinuesKeeps ==
  ASSUME TypeOK, AtWork, ApprovalInv, CarefulInv, CarefulInv', Grows, NEW c \in Calls,
         NEW w \in Requests, w = call[c].w, Continues(c)
  PROVE  Keeps(w)
  <1>a. w \in Careful' => /\ Calm(w) /\ Calm(w)' /\ w \in Careful
                          /\ Local(w) /\ Local(w)' /\ HandlerInv(c)
    BY DEF CarefulInv, Grows, Careful, Local
  <1>b. ASSUME UNCHANGED <<transfer, overlapped, contested>>
        PROVE  Careful' = Careful /\ \A v \in Careful : v \notin overlapped' \cup contested'
    BY <1>b DEF Careful, Calm, Resent
  <1>1. CASE CommitRejection(c)
    <2>1. /\ \A v \in Requests : v # w => request'[v] = request[v] /\ returned'[v] = returned[v]
          /\ request'[w].status = "REJECTED" /\ approved' = approved /\ transfer' = transfer
          /\ UNCHANGED <<overlapped, contested>>
      BY <1>1 DEF CommitRejection, Returns, TypeOK, history
    <2>2. \A v \in Careful : v # w => AmountOf(v)' = AmountOf(v)
      BY <1>b, <2>1, SameAmount DEF Careful
    <2>3. ASSUME w \in Careful'
          PROVE  AmountOf(w) = "aside" /\ AmountOf(w)' = "returned"
      <3>1. ~Accepted(w) /\ "REJECTED" \in Transition(request[w].status)
        BY <1>1, <1>a, <2>3 DEF CommitRejection, HandlerInv
      <3>2. request[w].status \in {"PENDING", "APPROVED", "PROCESSING"} /\ ~PaidOut(w)
        BY <3>1 DEF Transition, Accepted, PaidOut
      <3>3. AmountOf(w) = "aside"
        BY <1>a, <2>3, <3>2, AmountIs
      <3>4. returned'[w] = 1 /\ PaidOut(w)' = PaidOut(w)
        BY <1>a, <2>1, <2>3 DEF Local, BooksInv, PaidOut
      <3>5. AmountOf(w)' = "returned"
        BY <1>a, <2>1, <2>3, <3>2, <3>4 DEF AmountOf, Paid, PaidOut
      <3> QED
        BY <3>3, <3>5
    <2> QED
      BY <1>b, <2>1, <2>2, <2>3 DEF Keeps, Progress
  <1>2. CASE CommitDecision(c)
    <2>1. /\ \A v \in Requests : v # w => request'[v] = request[v]
          /\ request'[w].status = call[c].to /\ call[c].to # "REJECTED"
          /\ transfer' = transfer /\ returned' = returned
          /\ approved' = IF call[c].to = "APPROVED" THEN approved \cup {w} ELSE approved
          /\ UNCHANGED <<overlapped, contested>>
      BY <1>2 DEF CommitDecision, TypeOK, history
    <2>2. \A v \in Careful : v # w => AmountOf(v)' = AmountOf(v)
      BY <1>b, <2>1, SameAmount DEF Careful
    <2>3. ASSUME w \in Careful'
          PROVE  Progress(w)
      <3>1. ~Accepted(w) /\ call[c].to \in Transition(request[w].status)
        BY <1>2, <1>a, <2>3 DEF CommitDecision, HandlerInv
      <3>2. /\ request[w].status \in {"PENDING", "APPROVED", "PROCESSING"} /\ ~PaidOut(w)
            /\ call[c].to \in {"APPROVED", "PROCESSING", "COMPLETED"}
            /\ call[c].to = "COMPLETED" => request[w].status \in {"APPROVED", "PROCESSING"}
        BY <2>1, <3>1 DEF Transition, Accepted, PaidOut
      <3>3. AmountOf(w) = "aside"
        BY <1>a, <2>3, <3>2, AmountIs
      <3>4. PaidOut(w)' = PaidOut(w) /\ returned'[w] = 0
        BY <1>a, <2>1, <2>3, <3>2 DEF PaidOut, Local, BooksInv
      <3>5. Paid(w)' <=> call[c].to = "COMPLETED"
        BY <2>1, <3>2, <3>4 DEF Paid, PaidOut
      <3>6. AmountOf(w)' = IF call[c].to = "COMPLETED" THEN "bank" ELSE "aside"
        BY <1>a, <2>1, <2>3, <3>2, <3>4, <3>5 DEF AmountOf
      <3>7. call[c].to = "COMPLETED" => w \in approved
        BY <3>2 DEF ApprovalInv
      <3> QED
        BY <2>1, <3>2, <3>3, <3>6, <3>7 DEF Progress
    <2> QED
      BY <1>b, <2>1, <2>2, <2>3 DEF Keeps
  <1>3. ASSUME NEW t \in Transfers, InitiateTransfer(c, t)
        PROVE  Keeps(w)
    <2>1. /\ UNCHANGED <<request, returned, approved, overlapped, contested>>
          /\ transfer[t].state = "none" /\ call[c].kind = "payout"
          /\ transfer'[t].of = w
          /\ \A u \in Transfers : u # t => transfer'[u] = transfer[u]
      BY <1>3 DEF InitiateTransfer, TypeOK
    <2>2. transfer[t].of = NoRequest
      BY <2>1 DEF CarefulInv, RefInv
    <2>3. \A v \in Careful : v # w => AmountOf(v)' = AmountOf(v)
      BY <2>1, <2>2, SameAmount, WithdrawalAssumption DEF Careful, Calm
    <2>4. ASSUME w \in Careful'
          PROVE  Progress(w)
      <3>0. ~Accepted(w)
        BY <1>a, <2>1, <2>2, <2>4, WithdrawalAssumption DEF Calm, Resent, Accepted
      <3>1. ~Accepted(w) /\ request[w].status \in {"APPROVED", "PROCESSING"}
        BY <1>a, <2>1, <2>4, <3>0 DEF HandlerInv, Sendable
      <3>2. w \in approved
        BY <3>1 DEF ApprovalInv
      <3>3. AmountOf(w) = "aside"
        BY <1>a, <2>4, <3>1, AmountIs DEF PaidOut, Accepted
      <3>4. AmountOf(w)' \in {"aside", "bank"}
        <4>1. returned'[w] = 0
          BY <1>a, <2>1, <2>4, <3>1 DEF Local, BooksInv
        <4> QED
          BY <1>a, <2>1, <2>4, <3>1, <4>1 DEF AmountOf
      <3> QED
        BY <2>1, <3>2, <3>3, <3>4 DEF Progress
    <2>5. w \in Careful => AmountOf(w) # "wallet"
      BY <2>1 DEF CarefulInv, Local, HandlerInv, Sendable, AmountOf, Careful
    <2> QED
      BY <2>1, <2>3, <2>4, <2>5 DEF Keeps
  <1>4. CASE AdvancePayout(c)
    <2>1. /\ \A v \in Requests : v # w => request'[v] = request[v]
          /\ request'[w].status = "PROCESSING"
          /\ transfer' = transfer /\ returned' = returned /\ approved' = approved
          /\ call[c].kind = "sent" /\ UNCHANGED <<overlapped, contested>>
      BY <1>4 DEF AdvancePayout, TypeOK, history
    <2>2. \A v \in Careful : v # w => AmountOf(v)' = AmountOf(v)
      BY <1>b, <2>1, SameAmount DEF Careful
    <2>3. ASSUME w \in Careful'
          PROVE  AmountOf(w)' = AmountOf(w)
      <3>1. request[w].status \in {"APPROVED", "PROCESSING"}
        BY <1>a, <2>1, <2>3 DEF HandlerInv, Sendable
      <3>2. Paid(w)' = Paid(w)
        BY <2>1, <3>1 DEF Paid
      <3> QED
        BY <1>a, <2>1, <2>3, <3>1, <3>2 DEF AmountOf
    <2> QED
      BY <1>b, <2>1, <2>2, <2>3 DEF Keeps, Progress
  <1>5. CASE SettlePayout(c) \/ RecordPaid(c) \/ RecordFailed(c)
    <2>1. /\ \A v \in Requests : v # w => request'[v] = request[v] /\ returned'[v] = returned[v]
          /\ transfer' = transfer /\ approved' = approved
          /\ call[c].kind \in {"settled", "webhook"} /\ UNCHANGED <<overlapped, contested>>
      BY <1>5 DEF SettlePayout, RecordPaid, RecordFailed, Pays, Returns, TypeOK, history
    <2>2. \A v \in Careful : v # w => AmountOf(v)' = AmountOf(v)
      BY <1>b, <2>1, SameAmount DEF Careful
    <2>3. ASSUME w \in Careful'
          PROVE  Progress(w)
      <3> DEFINE t == call[c].ref
      <3>1. Owns(w, t) /\ request[w].status = "PROCESSING" /\ TransferInv(t)
        BY <1>a, <2>1, <2>3 DEF HandlerInv, Local, Owns
      <3>2. returned[w] = 0
        BY <1>a, <2>3, <3>1 DEF Local, BooksInv
      <3>3. PaidOut(w)' = PaidOut(w) /\ (PaidOut(w) <=> transfer[t].state = "paid")
        BY <2>1, <3>1 DEF PaidOut, Owns, TransferInv
      <3>4. CASE SettlePayout(c) \/ RecordPaid(c)
        <4>1. transfer[t].state = "paid"
          BY <1>a, <2>3, <3>1, <3>4 DEF SettlePayout, RecordPaid, HandlerInv, TransferInv
        <4>2. request'[w].status = "COMPLETED" /\ returned'[w] = 0
          BY <3>2, <3>4 DEF SettlePayout, RecordPaid, Pays, TypeOK
        <4>3. AmountOf(w) = "bank" /\ AmountOf(w)' = "bank"
          BY <1>a, <2>3, <3>1, <3>2, <3>3, <4>1, <4>2 DEF AmountOf, Paid, PaidOut
        <4> QED
          BY <2>1, <4>3 DEF Progress
      <3>5. CASE RecordFailed(c)
        <4>1. transfer[t].state = "failed"
          BY <1>a, <2>3, <3>1, <3>5 DEF RecordFailed, HandlerInv, TransferInv
        <4>2. request'[w].status = "REJECTED"
          BY <3>5 DEF RecordFailed, Returns, TypeOK
        <4>3. returned'[w] > 0
          BY <1>a, <2>3, <4>2 DEF Local, BooksInv
        <4>4. AmountOf(w) = "aside" /\ AmountOf(w)' = "returned"
          BY <1>a, <2>3, <3>1, <3>2, <3>3, <4>1, <4>2, <4>3 DEF AmountOf, Paid, PaidOut
        <4> QED
          BY <2>1, <4>4 DEF Progress
      <3> QED
        BY <1>5, <3>4, <3>5
    <2> QED
      BY <1>b, <2>1, <2>2, <2>3 DEF Keeps
  <1> QED
    BY <1>1, <1>2, <1>3, <1>4, <1>5 DEF Continues

LEMMA GatewayKeeps ==
  ASSUME TypeOK, ApprovalInv, CarefulInv, CarefulInv', Grows, NEW t \in Transfers,
         NEW w \in Requests, w = transfer[t].of,
         GatewayPays(t) \/ GatewayFails(t) \/ GatewayReverses(t)
  PROVE  Keeps(w)
  <1>1. /\ UNCHANGED <<request, returned, approved, overlapped>>
        /\ transfer[t].state # "none" /\ transfer'[t].of = w
        /\ \A u \in Transfers : u # t => transfer'[u] = transfer[u]
    BY DEF GatewayPays, GatewayFails, GatewayReverses, Moves, TypeOK
  <1>2. \A v \in Careful : v # w => AmountOf(v)' = AmountOf(v)
    <2>1. \A v \in Careful : v # w => v \notin overlapped' \cup contested'
      BY <1>1 DEF GatewayPays, GatewayFails, GatewayReverses, Careful, Calm
    <2> QED
      BY <1>1, <2>1, SameAmount
  <1>3. w \in Careful => request[w].status \in {"APPROVED", "PROCESSING", "COMPLETED", "REJECTED"}
    BY DEF CarefulInv, Local, TransferInv
  <1>4. ASSUME w \in Careful'
        PROVE  Progress(w)
    <2>1. /\ Local(w) /\ TransferInv(t) /\ transfer[t].state = "pending"
          /\ Calm(w) /\ Calm(w)'
      BY <1>4 DEF CarefulInv, Local, Grows, Careful, Calm, GatewayPays, GatewayFails,
         GatewayReverses, Moves
    <2>2. request[w].status \in {"APPROVED", "PROCESSING"} /\ ~PaidOut(w)
      BY <2>1 DEF TransferInv, PaidOut
    <2>3. AmountOf(w) = "aside" /\ w \in approved
      BY <2>1, <2>2, AmountIs DEF ApprovalInv
    <2>4. returned'[w] = 0
      BY <1>1, <2>1, <2>2 DEF Local, BooksInv
    <2>5. AmountOf(w)' \in {"aside", "bank"}
      BY <1>1, <2>1, <2>2, <2>4 DEF AmountOf
    <2> QED
      BY <1>1, <2>3, <2>5 DEF Progress
  <1>5. w \in Careful => AmountOf(w) # "wallet"
    BY <1>3 DEF AmountOf, Careful
  <1> QED
    BY <1>1, <1>2, <1>4, <1>5 DEF Keeps

(* A handler that begins leaves every amount, and may make one unclear.    *)
LEMMA BeginsKeeps ==
  ASSUME TypeOK, CarefulInv, Grows, NEW c \in Calls, NEW w \in Requests, NEW k,
         TakesOn(c, k), k.w = w, contested' \subseteq contested \cup {w},
         w \in Careful => request[w].status # "NONE"
  PROVE  Keeps(w)
  <1>1. /\ UNCHANGED <<request, returned, transfer, approved>>
        /\ overlapped' \subseteq overlapped \cup {w}
    BY DEF TakesOn
  <1>2. \A v \in Careful : v # w => AmountOf(v)' = AmountOf(v)
    BY <1>1, SameAmount DEF Careful, Calm
  <1>3. w \in Careful' => AmountOf(w)' = AmountOf(w)
    BY <1>1, SameAmount DEF Grows, Careful, Calm
  <1>4. w \in Careful => AmountOf(w) # "wallet"
    BY DEF AmountOf, Careful
  <1> QED
    BY <1>1, <1>2, <1>3, <1>4 DEF Keeps, Progress

LEMMA PromiseStep ==
  ASSUME TypeOK, AtWork, ApprovalInv, CarefulInv, CarefulInv', [Next]_vars
  PROVE  [Promise!Next]_<<[v \in Requests |-> AmountOf(v)], approved>>
  <1>g. Grows
    BY CarefulGrows DEF CarefulInv
  <1>1. ASSUME NEW w \in Requests, CreateWithdrawalRequest(w)
        PROVE  Keeps(w)
    <2>1. /\ \A v \in Requests : v # w => request'[v] = request[v]
          /\ request[w].status = "NONE" /\ request'[w].status = "PENDING"
          /\ UNCHANGED <<returned, transfer, approved, overlapped, contested>>
      BY <1>1 DEF CreateWithdrawalRequest, TypeOK, history
    <2>2. Careful' = Careful /\ \A v \in Careful : v \notin overlapped' \cup contested'
      BY <2>1 DEF Careful, Calm, Resent
    <2>3. \A v \in Careful : v # w => AmountOf(v)' = AmountOf(v)
      BY <2>1, <2>2, SameAmount DEF Careful
    <2>4. ASSUME w \in Careful'
          PROVE  Progress(w)
      <3>1. Local(w) /\ Calm(w) /\ Calm(w)'
        BY <2>2, <2>4 DEF CarefulInv, Careful
      <3>2. returned[w] = 0 /\ \A t \in Transfers : transfer[t].of # w
        BY <2>1, <3>1 DEF Local, BooksInv, TransferInv
      <3>3. AmountOf(w) = "wallet" /\ AmountOf(w)' = "aside"
        BY <2>1, <3>1, <3>2 DEF AmountOf, Paid
      <3> QED
        BY <2>1, <3>3 DEF Progress
    <2> QED
      BY <2>1, <2>2, <2>3, <2>4 DEF Keeps
  <1>2. ASSUME NEW c \in Calls, Continues(c)
        PROVE  \E w \in Requests : Keeps(w)
    <2>1. call[c].kind # "idle"
      BY <1>2 DEF Continues, CommitRejection, CommitDecision, InitiateTransfer, AdvancePayout,
             SettlePayout, RecordPaid, RecordFailed
    <2>2. PICK w \in Requests : w = call[c].w
      BY <2>1 DEF AtWork
    <2> QED
      BY <1>g, <1>2, <2>2, ContinuesKeeps
  <1>3. ASSUME NEW t \in Transfers, GatewayPays(t) \/ GatewayFails(t) \/ GatewayReverses(t)
        PROVE  \E w \in Requests : Keeps(w)
    <2>1. transfer[t].state # "none"
      BY <1>3 DEF GatewayPays, GatewayFails, GatewayReverses, Moves
    <2>2. PICK w \in Requests : w = transfer[t].of
      BY <2>1 DEF TypeOK, CarefulInv, RefInv
    <2> QED
      BY <1>g, <1>3, <2>2, GatewayKeeps
  <1>4. ASSUME NEW c \in Calls, Begins(c)
        PROVE  \E w \in Requests : Keeps(w)
    <2>1. ASSUME NEW w \in Requests, NEW to \in Decisions,
                 NEW ref \in {NoRef, HandRef, request[w].ref},
                 ReviewWithdrawalRequest(c, w, to, ref)
          PROVE  Keeps(w)
      <3>1. PICK k : k = [kind |-> "review", w |-> w, to |-> to, ref |-> ref, row |-> ledger[w]]
        OBVIOUS
      <3>2. TakesOn(c, k) /\ k.w = w /\ contested' \subseteq contested \cup {w}
        BY <2>1, <3>1 DEF ReviewWithdrawalRequest
      <3>3. request[w].status # "NONE"
        BY <2>1 DEF ReviewWithdrawalRequest, Transition
      <3> QED
        BY <1>g, <3>2, <3>3, BeginsKeeps
    <2>2. ASSUME NEW w \in Requests, RetryWithdrawalPayout(c, w)
          PROVE  Keeps(w)
      <3>1. PICK k : k = Handler("payout", w, "NONE", NoRef)
        OBVIOUS
      <3>2. TakesOn(c, k) /\ k.w = w /\ contested' \subseteq contested \cup {w}
        BY <2>2, <3>1 DEF RetryWithdrawalPayout, Handler
      <3>3. request[w].status # "NONE"
        BY <2>2 DEF RetryWithdrawalPayout, Retryable
      <3> QED
        BY <1>g, <3>2, <3>3, BeginsKeeps
    <2>3. ASSUME NEW w \in Requests, NEW t \in Transfers, NEW report \in Reports,
                 FindPayout(c, w, t, report)
          PROVE  Keeps(w)
      <3>1. PICK k : k = Handler("webhook", w,
                                 IF report = "success" THEN "COMPLETED" ELSE "REJECTED", t)
        OBVIOUS
      <3>2. TakesOn(c, k) /\ k.w = w /\ contested' \subseteq contested \cup {w}
        BY <2>3, <3>1 DEF FindPayout, Handler
      <3>3. w \in Careful => request[w].status # "NONE"
        <4>1. request[w].ref = t /\ transfer[t].of = w
          BY <2>3 DEF FindPayout, CarefulInv, RefInv
        <4> QED
          BY <4>1 DEF CarefulInv, Local, TransferInv
      <3> QED
        BY <1>g, <3>2, <3>3, BeginsKeeps
    <2> QED
      BY <1>4, <2>1, <2>2, <2>3 DEF Begins
  <1>5. CASE \/ \E c \in Calls : Fails(c)
             \/ \E t \in Transfers, report \in Reports : IgnorePayout(t, report)
             \/ UNCHANGED vars
    <2>1. UNCHANGED <<request, returned, transfer, approved, overlapped, contested>>
      BY <1>5 DEF Fails, IgnorePayout, vars, history
    <2> QED
      BY <2>1 DEF AmountOf, Paid, Calm, Resent
  <1> QED
    BY <1>g, <1>1, <1>2, <1>3, <1>4, <1>5, PromiseMove DEF Next, Gateway

LEMMA PromiseInit ==
  Init => Promise!Init
  <1> SUFFICES ASSUME Init
               PROVE  Promise!Init
    OBVIOUS
  <1>1. \A v \in Requests : AmountOf(v) = "wallet"
    BY WithdrawalAssumption DEF Init, AmountOf, Calm, Resent
  <1> QED
    BY <1>1 DEF Init, Promise!Init

(* The handlers implement PayoutPromise: an amount is set aside and leaves *)
(* once, to the bank only after an approval, or back to the wallet; and    *)
(* where it is becomes unclear only for a request that is not calm.        *)
THEOREM PromiseKept == Spec => KeepsPromise
  <1>1. Init => ApprovalInv
    BY IdleCallType DEF Init, ApprovalInv, NeverPaidUnapproved, Sends
  <1>2. Spec => []ApprovalInv
    BY <1>1, TypeAlways, ApprovalStep, PTL DEF Spec
  <1>3. Spec => [](TypeOK /\ AtWork /\ ApprovalInv /\ CarefulInv)
    BY <1>2, CarefulAlways, PTL
  <1>4. /\ TypeOK /\ AtWork /\ ApprovalInv /\ CarefulInv
        /\ (TypeOK /\ AtWork /\ ApprovalInv /\ CarefulInv)'
        /\ [Next]_vars
        => [Promise!Next]_<<[w \in Requests |-> AmountOf(w)], approved>>
    BY PromiseStep
  <1> QED
    BY <1>3, <1>4, PromiseInit, PTL DEF Spec, KeepsPromise, Promise!Spec

=============================================================================
