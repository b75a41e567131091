----------------------- MODULE OrderLifecycle_proofs -----------------------
(***************************************************************************)
(* Theorems about OrderLifecycle for every number of orders, centers and   *)
(* requests, every timing constant, any faults and however reads, commits, *)
(* queue calls and workers are interleaved: first types, assignees and the *)
(* number of releases, then settlement and assignment of the orders that no *)
(* commit has overtaken.                                                   *)
(***************************************************************************)
EXTENDS OrderLifecycle, TLAPS

-----------------------------------------------------------------------------
(* What the operators of the model return.                                 *)

(* Every queue operation leaves a well-formed job.                         *)
LEMMA JobTypes ==
    ASSUME NEW job \in Jobs, NEW delay \in Nat, NEW attempts \in Nat
    PROVE  /\ NoJob \in Jobs
           /\ AddJob(job, delay) \in Jobs
           /\ StartJob(job) \in Jobs
           /\ FinishJob(job) \in Jobs
           /\ CompleteJob(job) \in Jobs
           /\ FailJob(job, attempts) \in Jobs
           /\ RecoverJob(job) \in Jobs
           /\ JobTick(job) \in Jobs
<1>1. NoJob \in Jobs /\ AddJob(job, delay) \in Jobs
  BY DEF Jobs, JobStates, NoJob, AddJob
<1>2. /\ StartJob(job) \in Jobs /\ FinishJob(job) \in Jobs
      /\ CompleteJob(job) \in Jobs
  BY DEF Jobs, JobStates, StartJob, FinishJob, CompleteJob
<1>3. FailJob(job, attempts) \in Jobs
  BY DEF Jobs, JobStates, FailJob
<1>4. RecoverJob(job) \in Jobs
  BY DEF Jobs, JobStates, RecoverJob
<1>5. JobTick(job) \in Jobs
  BY DEF Jobs, JobStates, JobTick
<1>. QED  BY <1>1, <1>2, <1>3, <1>4, <1>5

(* Letting time pass keeps a date a date.                                  *)
LEMMA ElapseType == ASSUME NEW t \in Times PROVE Elapse(t) \in Times
BY DEF Times, NoTime, Elapse

(* A handler starts with a well-formed record of what it has read.         *)
LEMMA CallType ==
    ASSUME NEW kind \in Kinds, NEW o \in Orders, NEW c \in Cbts \cup {NoCbt},
           kind \in CenterKinds => c \in Cbts
    PROVE  Call(kind, o, c) \in Calls
BY DEF Call, Calls, Steps, Times

(* A request that is at some step is not idle.                             *)
LEMMA BusyIsCall ==
    ASSUME TypeOK, NEW r \in Requests, request[r].step \in Steps
    PROVE  request[r] \in Calls
BY DEF TypeOK, Idle, Steps

(* Assigning and returning an order keep its row well formed.              *)
LEMMA RowTypes ==
    ASSUME NEW row \in OrderRows, NEW c \in Cbts \cup {NoCbt},
           NEW released \in BOOLEAN
    PROVE  /\ Assigned(row, c) \in OrderRows
           /\ HandedTo(row, c) \in OrderRows
           /\ InPool(row) \in OrderRows
           /\ Upheld(row, released) \in OrderRows
           /\ OneMore(row.releases) \in 0..2
           /\ OneMore(row.refunds) \in 0..2
<1>1. OneMore(row.releases) \in 0..2 /\ OneMore(row.refunds) \in 0..2
  BY DEF OrderRows, OneMore
<1>2. Assigned(row, c) \in OrderRows
  BY TimeAssumption DEF OrderRows, OrderStatuses, Times, Assigned
<1>3. HandedTo(row, c) \in OrderRows
  BY <1>2 DEF OrderRows, HandedTo
<1>4. InPool(row) \in OrderRows
  BY DEF OrderRows, OrderStatuses, Times, InPool
<1>5. Upheld(row, released) \in OrderRows
  BY <1>1 DEF OrderRows, OrderStatuses, DisputeStatuses, Upheld
<1>. QED  BY <1>1, <1>2, <1>3, <1>4, <1>5
-----------------------------------------------------------------------------
(* Type correctness.                                                       *)

(* What the handlers read, and the history beside it.                      *)
CoreOK ==
    /\ order \in [Orders -> OrderRows]
    /\ deadlineJob \in [Orders -> Jobs]
    /\ releaseJob \in [Orders -> Jobs]
    /\ request \in [Requests -> Calls \cup {Idle}]
    /\ storage \subseteq Files

HistoryOK ==
    overtaken \subseteq Orders /\ deadlineOff \subseteq Orders /\ releaseOff \subseteq Orders

(* What a step does to the records of the requests.                        *)
RequestType == request \in [Requests -> Calls \cup {Idle}]

LEMMA RequestSteps ==
    ASSUME TypeOK, NEW r \in Requests
    PROVE  /\ Answer(r) => RequestType'
           /\ \A call \in Calls : Begin(r, call) => RequestType'
           /\ \A step \in Steps :
                 request[r].step \in Steps /\ Continue(r, step) => RequestType'
<1>1. Answer(r) => RequestType'
  BY DEF TypeOK, RequestType, Answer
<1>2. \A call \in Calls : Begin(r, call) => RequestType'
  BY DEF TypeOK, RequestType, Begin
<1>3. \A step \in Steps :
        request[r].step \in Steps /\ Continue(r, step) => RequestType'
  <2>1. SUFFICES ASSUME NEW step \in Steps, request[r].step \in Steps,
                        Continue(r, step)
                 PROVE  RequestType'
    OBVIOUS
  <2>2. request[r] \in Calls
    BY <2>1, BusyIsCall
  <2>3. [request[r] EXCEPT !.step = step] \in Calls
    BY <2>1, <2>2 DEF Calls
  <2>. QED  BY <2>1, <2>3 DEF TypeOK, RequestType, Continue
<1>. QED  BY <1>1, <1>2, <1>3

(* Types are kept when a handler starts.                                   *)
LEMMA UserActsType == TypeOK /\ UserActs => CoreOK'
<1>. SUFFICES ASSUME TypeOK, UserActs PROVE CoreOK'
  OBVIOUS
<1>1. ASSUME NEW o \in Orders, CreateOrder(o) \/ UnblockAll(o)
      PROVE  CoreOK'
  <2>1. order[o] \in OrderRows
    BY DEF TypeOK, CoreOK
  <2>2. /\ [order[o] EXCEPT !.status = "PENDING"] \in OrderRows
        /\ [order[o] EXCEPT !.blocks = {}] \in OrderRows
    BY <2>1 DEF OrderRows, OrderStatuses
  <2>. QED  BY <1>1, <2>2 DEF TypeOK, CoreOK, CreateOrder, UnblockAll
<1>2. ASSUME NEW o \in Orders, NEW c \in Cbts,
             StartCbtJob(o, c) \/ UnblockCbt(o, c)
      PROVE  CoreOK'
  <2>1. order[o] \in OrderRows
    BY DEF TypeOK, CoreOK
  <2>2. /\ [order[o] EXCEPT !.status = "IN_PROGRESS"] \in OrderRows
        /\ [order[o] EXCEPT !.blocks = @ \ {c}] \in OrderRows
    BY <2>1 DEF OrderRows, OrderStatuses
  <2>. QED  BY <1>2, <2>2 DEF TypeOK, CoreOK, StartCbtJob, UnblockCbt
<1>3. ASSUME NEW r \in Requests, NEW o \in Orders,
             BeginReturn(r, o) \/ BeginDispute(r, o)
      PROVE  CoreOK'
  BY <1>3, CallType, RequestSteps
  DEF TypeOK, CoreOK, RequestType, BeginReturn, BeginDispute, Kinds, CenterKinds
<1>4. ASSUME NEW r \in Requests, NEW o \in Orders,
             NEW action \in ReviewKinds, BeginReview(r, o, action)
      PROVE  CoreOK'
  <2>1. order[o] \in OrderRows
    BY DEF TypeOK, CoreOK
  <2>2. Call(action, o, order[o].cbt) \in Calls
    BY <2>1, CallType DEF Kinds, ReviewKinds, CenterKinds, OrderRows
  <2>3. [Call(action, o, order[o].cbt) EXCEPT
            !.time = order[o].window, !.result = order[o].result,
            !.released = order[o].released] \in Calls
    BY <2>1, <2>2 DEF Calls, OrderRows
  <2>. QED  BY <1>4, <2>3, RequestSteps DEF TypeOK, CoreOK, RequestType, BeginReview
<1>5. ASSUME NEW r \in Requests, NEW o \in Orders,
             NEW action \in FollowUpKinds, BeginFollowUp(r, o, action)
      PROVE  CoreOK'
  BY <1>5, CallType, RequestSteps
  DEF TypeOK, CoreOK, RequestType, BeginFollowUp, Kinds, FollowUpKinds, CenterKinds
<1>6. ASSUME NEW r \in Requests, NEW o \in Orders, NEW c \in Cbts,
             \/ BeginClaim(r, o, c) \/ BeginReassign(r, o, c)
             \/ BeginAskExtension(r, o, c) \/ BeginReject(r, o, c)
      PROVE  CoreOK'
  BY <1>6, CallType, RequestSteps
  DEF TypeOK, CoreOK, RequestType, BeginClaim, BeginReassign, BeginAskExtension,
      BeginReject, Kinds, CenterKinds
<1>7. ASSUME NEW r \in Requests, NEW o \in Orders, NEW c \in Cbts,
             BeginComplete(r, o, c)
      PROVE  CoreOK'
  <2>. DEFINE f == CHOOSE g \in Files \ FilesInUse : TRUE
  <2>1. f \in Files
    BY <1>7 DEF BeginComplete
  <2>2. Call("COMPLETE", o, c) \in Calls
    BY CallType DEF Kinds, CenterKinds
  <2>3. [Call("COMPLETE", o, c) EXCEPT !.time = DisputeWindow, !.result = f]
           \in Calls
    BY <2>1, <2>2, TimeAssumption DEF Calls, Times
  <2>. QED  BY <1>7, <2>1, <2>3, RequestSteps
            DEF TypeOK, CoreOK, RequestType, BeginComplete
<1>8. ASSUME NEW r \in Requests, NEW o \in Orders, NEW c \in Cbts,
             BeginApprove(r, o, c)
      PROVE  CoreOK'
  <2>1. ExtendedDeadline(o) \in Times
    BY TimeAssumption DEF TypeOK, CoreOK, OrderRows, Times, NoTime, ExtendedDeadline
  <2>2. Call("APPROVE", o, c) \in Calls
    BY CallType DEF Kinds, CenterKinds
  <2>3. [Call("APPROVE", o, c) EXCEPT !.time = ExtendedDeadline(o)] \in Calls
    BY <2>1, <2>2 DEF Calls
  <2>. QED  BY <1>8, <2>3, RequestSteps DEF TypeOK, CoreOK, RequestType, BeginApprove
<1>. QED  BY <1>1, <1>2, <1>3, <1>4, <1>5, <1>6, <1>7, <1>8 DEF UserActs

(* Types are kept when a transaction commits.                              *)
LEMMA TransactionType ==
    ASSUME TypeOK, NEW r \in Requests, Transaction(r)
    PROVE  CoreOK'
<1>. DEFINE o == request[r].order
            c == request[r].cbt
<1>1. request[r] \in Calls
  BY BusyIsCall
  DEF Transaction, Steps, AtCommit, Committing, CommitClaim, CommitComplete,
      CommitReturn, CommitReassign, CommitAskExtension, CommitApprove,
      CommitReject, CommitDispute, CommitUnderReview, CommitForCbt, CommitRedo,
      CommitForRequester, CommitManualRefund, CommitPenalty
<1>2. /\ o \in Orders /\ c \in Cbts \cup {NoCbt} /\ request[r].time \in Times
      /\ request[r].result \in Files \cup {NoFile}
      /\ request[r].released \in BOOLEAN /\ order[o] \in OrderRows
  BY <1>1 DEF Calls, TypeOK, CoreOK
<1>3. ASSUME NEW row \in OrderRows, order' = [order EXCEPT ![o] = row],
             request' = [request EXCEPT ![r] = Idle]
                \/ \E step \in Steps : Continue(r, step),
             UNCHANGED <<deadlineJob, releaseJob, storage>>
      PROVE  CoreOK'
  BY <1>1, <1>3, RequestSteps DEF TypeOK, CoreOK, RequestType, Answer, Calls
<1>4. ASSUME UNCHANGED <<order, deadlineJob, releaseJob>>, Answer(r),
             storage' \subseteq storage
      PROVE  CoreOK'
  BY <1>4, RequestSteps DEF TypeOK, CoreOK, RequestType
<1>5. CASE CommitClaim(r)
  <2>1. CASE Claimable(o)
    <3>1. Assigned(order[o], c) \in OrderRows
      BY <1>2, RowTypes
    <3>2. [request[r] EXCEPT !.step = "scheduleDeadline",
                             !.time = DeliveryWindow] \in Calls
      BY <1>1, TimeAssumption DEF Calls, Steps, Times
    <3>. QED  BY <1>5, <2>1, <3>1, <3>2 DEF CommitClaim, TypeOK, CoreOK
  <2>. QED  BY <1>4, <1>5, <2>1 DEF CommitClaim
<1>6. CASE CommitComplete(r)
  <2>1. [order[o] EXCEPT !.status = "COMPLETED", !.result = request[r].result,
                         !.window = request[r].time] \in OrderRows
    BY <1>2 DEF OrderRows, OrderStatuses
  <2>. QED  BY <1>3, <1>4, <1>6, <2>1 DEF CommitComplete, WithoutUpload, Steps
<1>7. CASE CommitReturn(r)
  <2>1. [InPool(order[o]) EXCEPT !.blocks = {}] \in OrderRows
    BY <1>2, RowTypes DEF OrderRows
  <2>. QED  BY <1>3, <1>7, <2>1 DEF CommitReturn, Steps
<1>8. CASE CommitReassign(r)
  <2>1. HandedTo(order[o], c) \in OrderRows
    BY <1>2, RowTypes
  <2>2. [request[r] EXCEPT !.step = "cancelDeadline",
                           !.time = DeliveryWindow] \in Calls
    BY <1>1, TimeAssumption DEF Calls, Steps, Times
  <2>. QED  BY <1>4, <1>8, <2>1, <2>2 DEF CommitReassign, TypeOK, CoreOK
<1>9. CASE CommitAskExtension(r)
  <2>1. c \in Cbts
    BY <1>1, <1>9 DEF CommitAskExtension, AtCommit, Calls, CenterKinds
  <2>2. [order[o] EXCEPT !.extensions = @ \cup {c}] \in OrderRows
    BY <1>2, <2>1 DEF OrderRows
  <2>. QED  BY <1>3, <1>9, <2>2 DEF CommitAskExtension, Answer
<1>10. CASE CommitApprove(r)
  <2>1. [order[o] EXCEPT !.deadline = request[r].time,
                         !.extensions = @ \ {c}] \in OrderRows
    BY <1>2 DEF OrderRows
  <2>. QED  BY <1>3, <1>10, <2>1 DEF CommitApprove, Steps
<1>11. CASE CommitReject(r)
  <2>1. c \in Cbts
    BY <1>1, <1>11 DEF CommitReject, AtCommit, Calls, CenterKinds
  <2>2. [InPool(order[o]) EXCEPT !.blocks = @ \cup {c},
                                 !.extensions = @ \ {c}] \in OrderRows
    BY <1>2, <2>1, RowTypes DEF OrderRows
  <2>. QED  BY <1>3, <1>11, <2>2 DEF CommitReject, Steps
<1>12. CASE CommitDispute(r)
  <2>1. [order[o] EXCEPT !.dispute = "OPEN", !.status = "DISPUTED"]
           \in OrderRows
    BY <1>2 DEF OrderRows, OrderStatuses, DisputeStatuses
  <2>2. CASE order[o].dispute = "NONE"
    BY <1>3, <1>12, <2>1, <2>2 DEF CommitDispute, Steps
  <2>. QED  BY <1>4, <1>12, <2>2 DEF CommitDispute
<1>13. CASE CommitUnderReview(r) \/ CommitForCbt(r) \/ CommitRedo(r)
  <2>1. ASSUME NEW status \in OrderStatuses, NEW dispute \in DisputeStatuses,
               NEW result \in Files \cup {NoFile}, NEW window \in Times
        PROVE  [order[o] EXCEPT !.status = status, !.dispute = dispute,
                                !.result = result, !.window = window]
                  \in OrderRows
    BY <1>2 DEF OrderRows
  <2>2. CASE CommitUnderReview(r)
    <3>1. [order[o] EXCEPT !.status = "DISPUTED", !.dispute = "UNDER_REVIEW",
                           !.result = request[r].result,
                           !.window = request[r].time] \in OrderRows
      BY <1>2, <2>1 DEF OrderStatuses, DisputeStatuses
    <3>. QED  BY <1>3, <2>2, <3>1 DEF CommitUnderReview, Answer
  <2>3. CASE CommitForCbt(r)
    <3>1. [order[o] EXCEPT !.status = "COMPLETED", !.dispute = "RESOLVED_FOR_CBT",
                           !.result = request[r].result,
                           !.window = request[r].time] \in OrderRows
      BY <1>2, <2>1 DEF OrderStatuses, DisputeStatuses
    <3>. QED  BY <1>3, <2>3, <3>1 DEF CommitForCbt, Steps
  <2>4. CASE CommitRedo(r)
    <3>1. [order[o] EXCEPT !.status = "IN_PROGRESS", !.dispute = "REDO_REQUESTED",
                           !.result = NoFile, !.window = NoTime] \in OrderRows
      BY <2>1 DEF OrderStatuses, DisputeStatuses, Times
    <3>. QED  BY <1>3, <2>4, <3>1 DEF CommitRedo, Steps
  <2>. QED  BY <1>13, <2>2, <2>3, <2>4
<1>14. ASSUME NEW flag \in BOOLEAN, CommitForRequester(r, flag)
       PROVE  CoreOK'
  <2>. DEFINE penalty == IF flag /\ order[o].penalty = "NONE"
                         THEN "PENDING" ELSE order[o].penalty
              paid == Upheld(order[o], request[r].released)
  <2>1. paid \in OrderRows /\ penalty \in PenaltyStatuses
    BY <1>2, RowTypes DEF OrderRows, PenaltyStatuses
  <2>2. paid.penalty = order[o].penalty
    BY <1>2 DEF Upheld, OrderRows
  <2>3. [paid EXCEPT !.result = request[r].result, !.window = request[r].time,
                     !.penalty = IF flag /\ @ = "NONE" THEN "PENDING" ELSE @]
           \in OrderRows
    BY <1>2, <2>1, <2>2 DEF OrderRows
  <2>. QED  BY <1>3, <1>14, <2>2, <2>3 DEF CommitForRequester, Steps
<1>15. CASE CommitManualRefund(r)
  <2>1. [order[o] EXCEPT !.status = "REFUNDED", !.refunds = OneMore(@)]
           \in OrderRows
    BY <1>2, RowTypes DEF OrderRows, OrderStatuses
  <2>. QED  BY <1>3, <1>15, <2>1 DEF CommitManualRefund, Answer
<1>16. CASE CommitPenalty(r)
  <2>1. ASSUME NEW penalty \in PenaltyStatuses
        PROVE  [order[o] EXCEPT !.penalty = penalty] \in OrderRows
    BY <1>2 DEF OrderRows
  <2>. QED  BY <1>3, <1>16, <2>1
            DEF CommitPenalty, Answer, PenaltyStatuses
<1>. QED  BY <1>5, <1>6, <1>7, <1>8, <1>9, <1>10, <1>11, <1>12, <1>13, <1>14,
             <1>15, <1>16 DEF Transaction

(* Types are kept by the queue calls, the workers, the failures and time.  *)
LEMMA JobStepsType ==
    ASSUME TypeOK, NEW o \in Orders
    PROVE  /\ \A job \in Jobs : deadlineJob' = [deadlineJob EXCEPT ![o] = job]
                 => deadlineJob' \in [Orders -> Jobs]
           /\ \A job \in Jobs : releaseJob' = [releaseJob EXCEPT ![o] = job]
                 => releaseJob' \in [Orders -> Jobs]
           /\ deadlineJob[o] \in Jobs /\ releaseJob[o] \in Jobs
           /\ order[o] \in OrderRows
BY DEF TypeOK, CoreOK

LEMMA QueueCallType ==
    ASSUME TypeOK, NEW r \in Requests, QueueCall(r)
    PROVE  CoreOK'
<1>. DEFINE o == request[r].order
<1>1. request[r] \in Calls /\ request[r].step \in Steps
  BY BusyIsCall
  DEF QueueCall, AtStep, Steps, ScheduleDeadline, CancelDeadline,
      CancelDeadlineThrows, ScheduleRelease, RemoveRelease
<1>2. o \in Orders /\ request[r].time \in Times
  BY <1>1 DEF Calls
<1>3. deadlineJob[o] \in Jobs /\ releaseJob[o] \in Jobs /\ order[o] \in OrderRows
  BY <1>2, JobStepsType
<1>4. RequestType'
  BY <1>1, RequestSteps
  DEF QueueCall, ScheduleDeadline, CancelDeadline, CancelDeadlineThrows,
      ScheduleRelease, RemoveRelease, Steps
<1>5. deadlineJob' \in [Orders -> Jobs]
  <2>1. request[r].time > 0 => request[r].time \in Nat
    BY <1>2 DEF Times, NoTime
  <2>2. request[r].time > 0 => AddJob(deadlineJob[o], request[r].time) \in Jobs
    BY <1>3, <2>1, JobTypes, 0 \in Nat
  <2>3. NoJob \in Jobs
    BY <1>3, JobTypes, 0 \in Nat
  <2>. QED  BY <1>2, <2>2, <2>3, JobStepsType
            DEF QueueCall, ScheduleDeadline, CancelDeadline,
                CancelDeadlineThrows, ScheduleRelease, RemoveRelease, TypeOK, CoreOK
<1>6. releaseJob' \in [Orders -> Jobs]
  <2>1. WithReleaseJob(o, releaseJob[o]) \in Jobs
    <3>1. order[o].window # NoTime => order[o].window \in Nat
      BY <1>3 DEF OrderRows, Times
    <3>. QED  BY <1>3, <3>1, JobTypes, 0 \in Nat
              DEF WithReleaseJob, Releasable
  <2>2. NoJob \in Jobs
    BY <1>3, JobTypes, 0 \in Nat
  <2>. QED  BY <1>2, <2>1, <2>2, JobStepsType
            DEF QueueCall, ScheduleDeadline, CancelDeadline,
                CancelDeadlineThrows, ScheduleRelease, RemoveRelease, TypeOK, CoreOK
<1>. QED  BY <1>4, <1>5, <1>6
          DEF QueueCall, ScheduleDeadline, CancelDeadline, CancelDeadlineThrows,
              ScheduleRelease, RemoveRelease, TypeOK, CoreOK, RequestType, WithoutUpload

LEMMA WorkerType ==
    ASSUME TypeOK, NEW o \in Orders, Worker(o)
    PROVE  CoreOK'
<1>1. deadlineJob[o] \in Jobs /\ releaseJob[o] \in Jobs /\ order[o] \in OrderRows
  BY JobStepsType
<1>2. \A job \in Jobs : /\ StartJob(job) \in Jobs
                        /\ FinishJob(job) \in Jobs
                        /\ CompleteJob(job) \in Jobs
                        /\ NoJob \in Jobs
  BY JobTypes, 0 \in Nat
<1>3. CASE DeadlineJobReads(o)
  BY <1>1, <1>2, <1>3, JobStepsType DEF DeadlineJobReads, TypeOK, CoreOK
<1>4. CASE DeadlineJobCommits(o)
  BY <1>1, <1>2, <1>4, RowTypes, JobStepsType DEF DeadlineJobCommits, TypeOK, CoreOK
<1>5. CASE ReleaseJobReads(o)
  BY <1>1, <1>2, <1>5, JobStepsType DEF ReleaseJobReads, TypeOK, CoreOK
<1>6. CASE ReleaseJobCommits(o)
  <2>1. [order[o] EXCEPT !.released = TRUE, !.releases = OneMore(@)]
           \in OrderRows
    BY <1>1, RowTypes DEF OrderRows
  <2>. QED  BY <1>1, <1>2, <1>6, <2>1 DEF ReleaseJobCommits, TypeOK, CoreOK
<1>7. CASE DeadlineJobEnds(o) \/ ReleaseJobEnds(o)
  BY <1>1, <1>2, <1>7, JobStepsType
  DEF DeadlineJobEnds, ReleaseJobEnds, TypeOK, CoreOK
<1>. QED  BY <1>3, <1>4, <1>5, <1>6, <1>7 DEF Worker

LEMMA FailuresType == TypeOK /\ Failures => CoreOK'
<1>. SUFFICES ASSUME TypeOK, Failures PROVE CoreOK'
  OBVIOUS
<1>1. ASSUME NEW r \in Requests, AbortCommit(r) PROVE CoreOK'
  BY <1>1, RequestSteps DEF AbortCommit, TypeOK, CoreOK, RequestType, WithoutUpload
<1>2. ASSUME NEW o \in Orders,
             \/ DeadlineJobFails(o) \/ ReleaseJobFails(o)
             \/ ReleaseJobEvicted(o) \/ DeadlineJobStalls(o)
             \/ ReleaseJobStalls(o)
      PROVE  CoreOK'
  <2>1. deadlineJob[o] \in Jobs /\ releaseJob[o] \in Jobs
    BY JobStepsType
  <2>2. /\ NoJob \in Jobs /\ FailJob(releaseJob[o], ReleaseAttempts) \in Jobs
        /\ RecoverJob(deadlineJob[o]) \in Jobs
        /\ RecoverJob(releaseJob[o]) \in Jobs
    BY <2>1, TimeAssumption, JobTypes
  <2>. QED  BY <1>2, <2>2, JobStepsType
            DEF DeadlineJobFails, ReleaseJobFails, ReleaseJobEvicted,
                DeadlineJobStalls, ReleaseJobStalls, TypeOK, CoreOK
<1>3. ASSUME NEW warm \in BOOLEAN, Restart(warm) PROVE CoreOK'
  <2>1. ASSUME NEW o \in Orders
        PROVE  /\ RecoveredDeadline(o, warm) \in Jobs
               /\ RecoveredRelease(o, warm) \in Jobs
    <3>1. /\ RecoverJob(deadlineJob[o]) \in Jobs
          /\ RecoverJob(releaseJob[o]) \in Jobs
      BY JobStepsType, JobTypes, 0 \in Nat
    <3>2. /\ order[o].deadline # NoTime => order[o].deadline \in Nat
          /\ order[o].window # NoTime => order[o].window \in Nat
      BY JobStepsType DEF OrderRows, Times
    <3>3. \A job \in Jobs : WithDeadlineJob(o, job) \in Jobs
      BY <3>2, JobTypes, 0 \in Nat DEF WithDeadlineJob
    <3>4. \A job \in Jobs : WithReleaseJob(o, job) \in Jobs
      BY <3>2, JobTypes, 0 \in Nat DEF WithReleaseJob, Releasable
    <3>. QED  BY <3>1, <3>3, <3>4 DEF RecoveredDeadline, RecoveredRelease
  <2>. QED  BY <1>3, <2>1 DEF Restart, TypeOK, CoreOK
<1>. QED  BY <1>1, <1>2, <1>3 DEF Failures

LEMMA TickType == TypeOK /\ Tick => CoreOK'
<1>. SUFFICES ASSUME TypeOK, Tick PROVE CoreOK'
  OBVIOUS
<1>1. order' \in [Orders -> OrderRows]
  <2>1. ASSUME NEW o \in Orders
        PROVE  [order[o] EXCEPT !.deadline = Elapse(@), !.window = Elapse(@)]
                  \in OrderRows
    BY JobStepsType, ElapseType DEF OrderRows
  <2>. QED  BY <2>1 DEF Tick
<1>2. /\ deadlineJob' \in [Orders -> Jobs]
      /\ releaseJob' \in [Orders -> Jobs]
  BY JobStepsType, JobTypes, 0 \in Nat DEF Tick
<1>3. request' \in [Requests -> Calls \cup {Idle}]
  <2>1. ASSUME NEW r \in Requests, request[r] # Idle
        PROVE  [request[r] EXCEPT !.time = Elapse(@)] \in Calls
    BY <2>1, ElapseType DEF TypeOK, CoreOK, Calls
  <2>. QED  BY <2>1 DEF Tick
<1>. QED  BY <1>1, <1>2, <1>3 DEF Tick, TypeOK, CoreOK

(* The history names orders.                                               *)
LEMMA BusyOrder ==
    ASSUME TypeOK, NEW r \in Requests, request[r] # Idle
    PROVE  request[r].order \in Orders
BY DEF TypeOK, Calls

LEMMA TransactionBegins ==
    ASSUME TypeOK, NEW r \in Requests, Transaction(r)
    PROVE  /\ Committing(r) /\ request[r] \in Calls
           /\ request[r].order \in Orders
<1>1. Committing(r)
  BY DEF Transaction, AtCommit, CommitClaim, CommitComplete,
         CommitReturn, CommitReassign, CommitAskExtension, CommitApprove,
         CommitReject, CommitDispute, CommitUnderReview, CommitForCbt,
         CommitRedo, CommitForRequester, CommitManualRefund, CommitPenalty
<1>2. request[r] \in Calls
  BY <1>1, BusyIsCall DEF Committing, Steps
<1>. QED  BY <1>1, <1>2 DEF Calls

LEMMA QueueCallBegins ==
    ASSUME TypeOK, NEW r \in Requests, QueueCall(r)
    PROVE  /\ Queueing(r) /\ request[r] \in Calls
           /\ request[r].order \in Orders
           /\ request[r].step \in Steps \ {"commit"}
<1>1. request[r].step \in Steps \ {"commit"}
  BY DEF QueueCall, AtStep, Steps, ScheduleDeadline, CancelDeadline,
         CancelDeadlineThrows, ScheduleRelease, RemoveRelease
<1>2. request[r] \in Calls
  BY <1>1, BusyIsCall
<1>. QED  BY <1>1, <1>2 DEF Calls, Queueing, Committing, Idle, Steps

LEMMA HistoryType == TypeOK /\ [Next]_vars => HistoryOK'
<1>. SUFFICES ASSUME TypeOK, [Next]_vars PROVE HistoryOK'
  OBVIOUS
<1>1. HistoryOK
  BY DEF TypeOK, HistoryOK
<1>2. ASSUME NEW r \in Requests, Commit(r) PROVE HistoryOK'
  <2>1. request[r].order \in Orders
    BY <1>2, TransactionBegins DEF Commit
  <2>. QED  BY <1>1, <1>2, <2>1 DEF Commit, WithOrder, HistoryOK
<1>3. ASSUME NEW r \in Requests, QueueCall(r) PROVE HistoryOK'
  <2>1. request[r].order \in Orders
    BY <1>3, QueueCallBegins
  <2>. QED  BY <1>1, <1>3, <2>1
            DEF QueueCall, ScheduleDeadline, CancelDeadline, history,
                CancelDeadlineThrows, ScheduleRelease, RemoveRelease,
                WithOrder, HistoryOK
<1>4. ASSUME NEW o \in Orders, Worker(o) PROVE HistoryOK'
  BY <1>1, <1>4 DEF Worker, DeadlineJobReads, DeadlineJobCommits,
     DeadlineJobEnds, ReleaseJobReads, ReleaseJobCommits, ReleaseJobEnds,
     history, WithOrder, HistoryOK
<1>5. ASSUME NEW o \in Orders,
             \/ DeadlineJobFails(o) \/ ReleaseJobFails(o)
             \/ ReleaseJobEvicted(o) \/ DeadlineJobStalls(o)
             \/ ReleaseJobStalls(o)
      PROVE  HistoryOK'
  BY <1>1, <1>5 DEF DeadlineJobFails, ReleaseJobFails, ReleaseJobEvicted,
     DeadlineJobStalls, ReleaseJobStalls, history, WithOrder, HistoryOK
<1>6. ASSUME NEW warm \in BOOLEAN, Restart(warm) PROVE HistoryOK'
  BY <1>1, <1>6 DEF Restart, HistoryOK
<1>7. ASSUME UNCHANGED history PROVE HistoryOK'
  BY <1>1, <1>7 DEF history, HistoryOK
<1>8. CASE UserActs
  BY <1>7, <1>8
  DEF UserActs, CreateOrder, UnblockAll, StartCbtJob, UnblockCbt, BeginReturn,
      BeginDispute, BeginReview, BeginFollowUp, BeginClaim, BeginComplete,
      BeginReassign, BeginAskExtension, BeginApprove, BeginReject
<1>9. CASE Failures
  BY <1>5, <1>6, <1>7, <1>9 DEF Failures, AbortCommit
<1>. QED  BY <1>2, <1>3, <1>4, <1>7, <1>8, <1>9 DEF Next, Tick, vars

LEMMA NextType == TypeOK /\ [Next]_vars => TypeOK'
<1>1. TypeOK /\ Next => CoreOK'
  BY UserActsType, TransactionType, QueueCallType, WorkerType, FailuresType,
     TickType
  DEF Next, Commit
<1>2. TypeOK /\ UNCHANGED vars => CoreOK'
  BY DEF TypeOK, CoreOK, vars
<1>3. CoreOK' /\ HistoryOK' => TypeOK'
  BY DEF CoreOK, HistoryOK, TypeOK
<1>. QED  BY <1>1, <1>2, <1>3, HistoryType

(* The rows, the jobs and what the handlers keep of them stay well formed, *)
(* in particular no handler that acts for a center goes on without one.    *)
THEOREM TypeCorrect == Spec => []TypeOK
<1>1. Init => TypeOK
  BY DEF Init, TypeOK, NewOrder, OrderRows, OrderStatuses, DisputeStatuses,
         PenaltyStatuses, Times, NoJob, Jobs, JobStates
<1>2. TypeOK /\ [Next]_vars => TypeOK'
  BY NextType
<1>. QED  BY <1>1, <1>2, PTL DEF Spec

-----------------------------------------------------------------------------
(* What a step may do to an order, in any interleaving.                    *)

(* Steps that write no order row: every start of a handler but the four    *)
(* one-step operations, the queue calls, and the workers' reads.           *)
LEMMA UserActsRows ==
    ASSUME TypeOK, UserActs, NEW o \in Orders
    PROVE  /\ order'[o].cbt = order[o].cbt
           /\ order'[o].released = order[o].released
           /\ order'[o].releases = order[o].releases
           /\ releaseJob' = releaseJob
<1>1. order[o] \in OrderRows
  BY DEF TypeOK
<1>2. ASSUME NEW p \in Orders, CreateOrder(p) \/ UnblockAll(p)
      PROVE  /\ order'[o].cbt = order[o].cbt
             /\ order'[o].released = order[o].released
             /\ order'[o].releases = order[o].releases
             /\ releaseJob' = releaseJob
  BY <1>1, <1>2 DEF CreateOrder, UnblockAll, TypeOK, OrderRows
<1>3. ASSUME NEW p \in Orders, NEW c \in Cbts,
             StartCbtJob(p, c) \/ UnblockCbt(p, c)
      PROVE  /\ order'[o].cbt = order[o].cbt
             /\ order'[o].released = order[o].released
             /\ order'[o].releases = order[o].releases
             /\ releaseJob' = releaseJob
  BY <1>1, <1>3 DEF StartCbtJob, UnblockCbt, TypeOK, OrderRows
<1>4. \/ \E p \in Orders : CreateOrder(p) \/ UnblockAll(p)
      \/ \E p \in Orders, c \in Cbts : StartCbtJob(p, c) \/ UnblockCbt(p, c)
      \/ UNCHANGED <<order, releaseJob>>
  BY DEF UserActs, BeginReturn, BeginDispute, BeginReview, BeginFollowUp,
         BeginClaim, BeginComplete, BeginReassign, BeginAskExtension,
         BeginApprove, BeginReject
<1>. QED  BY <1>2, <1>3, <1>4

(* A transaction of a handler pays nothing out to a center, and replaces   *)
(* no assignee by another.                                                 *)
LEMMA TransactionRows ==
    ASSUME TypeOK, NEW r \in Requests, Transaction(r), NEW o \in Orders
    PROVE  /\ order[o].cbt # NoCbt => order'[o].cbt \in {NoCbt, order[o].cbt}
           /\ order'[o].released = order[o].released
           /\ order'[o].releases = order[o].releases
           /\ releaseJob' = releaseJob
<1>1. order[o] \in OrderRows
  BY DEF TypeOK
<1>2. releaseJob' = releaseJob
  BY DEF Transaction, CommitClaim, CommitComplete, CommitReturn, CommitReassign,
         CommitAskExtension, CommitApprove, CommitReject, CommitDispute,
         CommitUnderReview, CommitForCbt, CommitRedo, CommitForRequester,
         CommitManualRefund, CommitPenalty
<1>3. CASE CommitClaim(r)
  <2>. DEFINE p == request[r].order
  <2>1. \/ Claimable(p) /\ order' = [order EXCEPT ![p] = Assigned(@, request[r].cbt)]
        \/ order' = order
    BY <1>3 DEF CommitClaim
  <2>2. CASE o = p /\ Claimable(p)
    <3>1. order'[o] = Assigned(order[o], request[r].cbt) \/ order' = order
      BY <2>1, <2>2 DEF TypeOK
    <3>2. /\ Assigned(order[o], request[r].cbt).released = order[o].released
          /\ Assigned(order[o], request[r].cbt).releases = order[o].releases
      BY <1>1 DEF Assigned, OrderRows
    <3>. QED  BY <1>2, <2>2, <3>1, <3>2 DEF Claimable
  <2>3. CASE o # p \/ ~Claimable(p)
    BY <1>1, <1>2, <2>1, <2>3 DEF TypeOK
  <2>. QED  BY <2>2, <2>3
<1>4. CASE CommitReassign(r)
  <2>. DEFINE p == request[r].order
              target == request[r].cbt
  <2>1. \/ /\ TriggerAllows(order[p].cbt, target)
           /\ order' = [order EXCEPT ![p] = HandedTo(@, target)]
        \/ order' = order
    BY <1>4 DEF CommitReassign
  <2>2. CASE o = p /\ order' # order
    <3>1. order'[o] = HandedTo(order[o], target)
      BY <2>1, <2>2 DEF TypeOK
    <3>2. /\ HandedTo(order[o], target).cbt = target
          /\ HandedTo(order[o], target).released = order[o].released
          /\ HandedTo(order[o], target).releases = order[o].releases
      BY <1>1 DEF HandedTo, Assigned, OrderRows
    <3>. QED  BY <1>2, <2>1, <2>2, <3>1, <3>2 DEF TriggerAllows
  <2>3. CASE o # p \/ order' = order
    BY <1>1, <1>2, <2>1, <2>3 DEF TypeOK
  <2>. QED  BY <2>2, <2>3
<1>5. CASE CommitReturn(r)
  BY <1>1, <1>2, <1>5 DEF CommitReturn, InPool, TypeOK, OrderRows
<1>6. CASE CommitReject(r)
  BY <1>1, <1>2, <1>6 DEF CommitReject, InPool, TypeOK, OrderRows
<1>7. CASE CommitComplete(r)
  BY <1>1, <1>2, <1>7 DEF CommitComplete, TypeOK, OrderRows
<1>8. CASE CommitDispute(r)
  BY <1>1, <1>2, <1>8 DEF CommitDispute, TypeOK, OrderRows
<1>9. CASE CommitAskExtension(r)
  BY <1>1, <1>2, <1>9 DEF CommitAskExtension, TypeOK, OrderRows
<1>10. CASE CommitApprove(r)
  BY <1>1, <1>2, <1>10 DEF CommitApprove, TypeOK, OrderRows
<1>11. CASE CommitUnderReview(r)
  BY <1>1, <1>2, <1>11 DEF CommitUnderReview, TypeOK, OrderRows
<1>12. CASE CommitForCbt(r)
  BY <1>1, <1>2, <1>12 DEF CommitForCbt, TypeOK, OrderRows
<1>13. CASE CommitRedo(r)
  BY <1>1, <1>2, <1>13 DEF CommitRedo, TypeOK, OrderRows
<1>14. ASSUME NEW flag \in BOOLEAN, CommitForRequester(r, flag)
       PROVE  /\ order'[o].cbt = order[o].cbt
              /\ order'[o].released = order[o].released
              /\ order'[o].releases = order[o].releases
  BY <1>1, <1>14 DEF CommitForRequester, Upheld, TypeOK, OrderRows
<1>15. CASE CommitManualRefund(r)
  BY <1>1, <1>2, <1>15 DEF CommitManualRefund, TypeOK, OrderRows
<1>16. CASE CommitPenalty(r)
  BY <1>1, <1>2, <1>16 DEF CommitPenalty, TypeOK, OrderRows
<1>. QED  BY <1>2, <1>3, <1>4, <1>5, <1>6, <1>7, <1>8, <1>9, <1>10, <1>11, <1>12,
             <1>13, <1>14, <1>15, <1>16 DEF Transaction

(* The first write wins: no step of any handler, worker or recovery hands  *)
(* an order that a center holds straight to another one.                   *)
THEOREM AssigneeStays == Spec => AssigneeNeverSwapped
<1>1. TypeOK /\ [Next]_vars =>
        \A o \in Orders :
           order[o].cbt # NoCbt => order'[o].cbt \in {NoCbt, order[o].cbt}
  <2>. SUFFICES ASSUME TypeOK, [Next]_vars, NEW o \in Orders,
                       order[o].cbt # NoCbt
                PROVE  order'[o].cbt \in {NoCbt, order[o].cbt}
    OBVIOUS
  <2>1. CASE UserActs
    BY <2>1, UserActsRows
  <2>2. ASSUME NEW r \in Requests, Commit(r)
        PROVE  order'[o].cbt \in {NoCbt, order[o].cbt}
    BY <2>2, TransactionRows DEF Commit
  <2>3. ASSUME NEW r \in Requests, QueueCall(r)
        PROVE  order'[o].cbt \in {NoCbt, order[o].cbt}
    BY <2>3 DEF QueueCall, ScheduleDeadline, CancelDeadline,
                CancelDeadlineThrows, ScheduleRelease, RemoveRelease
  <2>4. ASSUME NEW p \in Orders, Worker(p)
        PROVE  order'[o].cbt \in {NoCbt, order[o].cbt}
    <3>1. order[o] \in OrderRows
      BY DEF TypeOK
    <3>2. CASE DeadlineJobCommits(p)
      BY <3>1, <3>2 DEF DeadlineJobCommits, InPool, TypeOK, OrderRows
    <3>3. CASE ReleaseJobCommits(p)
      BY <3>1, <3>3 DEF ReleaseJobCommits, TypeOK, OrderRows
    <3>. QED  BY <2>4, <3>2, <3>3 DEF Worker, DeadlineJobReads, ReleaseJobReads,
                                                DeadlineJobEnds, ReleaseJobEnds
  <2>5. CASE Failures
    BY <2>5 DEF Failures, AbortCommit, DeadlineJobFails, ReleaseJobFails,
                ReleaseJobEvicted, DeadlineJobStalls, ReleaseJobStalls, Restart
  <2>6. CASE Tick
    <3>1. order[o] \in OrderRows
      BY DEF TypeOK
    <3>. QED  BY <2>6, <3>1 DEF Tick, OrderRows
  <2>7. CASE UNCHANGED vars
    BY <2>7 DEF vars
  <2>. QED  BY <2>1, <2>2, <2>3, <2>4, <2>5, <2>6, <2>7 DEF Next
<1>. QED  BY <1>1, TypeCorrect, PTL DEF Spec, AssigneeNeverSwapped

-----------------------------------------------------------------------------
(* Escrow of an order goes to the center at most once.  The invariant says *)
(* why: the row is marked in the transaction that pays, and a job only     *)
(* runs, on its first or a later attempt, for a row that is not marked.    *)

Marked(o) ==
    /\ order[o].releases <= 1
    /\ order[o].released <=> order[o].releases = 1
    /\ releaseJob[o].state = "active" => ~order[o].released

ReleaseInv == \A o \in Orders : Marked(o)

(* Only the job's own read makes it active, and only for an unmarked row.  *)
LEMMA OnlyReadsActivate ==
    ASSUME NEW job \in Jobs, NEW delay \in Nat, NEW attempts \in Nat
    PROVE  /\ NoJob.state # "active"
           /\ AddJob(job, delay).state = "active" => job.state = "active"
           /\ FinishJob(job).state # "active"
           /\ CompleteJob(job).state # "active"
           /\ FailJob(job, attempts).state # "active"
           /\ RecoverJob(job).state # "active"
           /\ JobTick(job).state = job.state
<1>1. /\ NoJob.state # "active"
      /\ AddJob(job, delay).state = "active" => job.state = "active"
  BY DEF NoJob, AddJob
<1>2. /\ FinishJob(job).state # "active" /\ CompleteJob(job).state # "active"
      /\ FailJob(job, attempts).state # "active"
  BY DEF Jobs, FinishJob, CompleteJob, FailJob
<1>3. RecoverJob(job).state # "active"
  BY DEF Jobs, RecoverJob, Locked
<1>4. JobTick(job).state = job.state
  BY DEF Jobs, JobTick
<1>. QED  BY <1>1, <1>2, <1>3, <1>4

LEMMA ReleaseInvStep == TypeOK /\ ReleaseInv /\ [Next]_vars => ReleaseInv'
<1>. SUFFICES ASSUME TypeOK, ReleaseInv, [Next]_vars, NEW o \in Orders
              PROVE  Marked(o)'
  BY DEF ReleaseInv
<1>1. /\ order[o] \in OrderRows /\ releaseJob[o] \in Jobs
      /\ order[o].window # NoTime => order[o].window \in Nat
      /\ Marked(o)
  BY JobStepsType DEF ReleaseInv, OrderRows, Times
(* A step that leaves the money alone and starts no job.                   *)
<1>2. ASSUME order'[o].released = order[o].released,
             order'[o].releases = order[o].releases,
             releaseJob'[o].state = "active" => releaseJob[o].state = "active"
      PROVE  Marked(o)'
  BY <1>1, <1>2 DEF Marked
<1>3. CASE UserActs
  BY <1>2, <1>3, UserActsRows
<1>4. ASSUME NEW r \in Requests, Commit(r)
      PROVE  Marked(o)'
  BY <1>2, <1>4, TransactionRows DEF Commit
<1>5. ASSUME NEW r \in Requests, QueueCall(r)
      PROVE  Marked(o)'
  <2>1. UNCHANGED order
    BY <1>5 DEF QueueCall, ScheduleDeadline, CancelDeadline,
                CancelDeadlineThrows, ScheduleRelease, RemoveRelease
  <2>2. \/ releaseJob' = releaseJob
        \/ \E p \in Orders : releaseJob' = [releaseJob EXCEPT
                                              ![p] = WithReleaseJob(p, @)]
        \/ \E p \in Orders : releaseJob' = [releaseJob EXCEPT ![p] = NoJob]
    <3>1. request[r].step \in Steps => request[r].order \in Orders
      BY BusyIsCall DEF Calls
    <3>. QED  BY <1>5, <3>1
              DEF QueueCall, ScheduleDeadline, CancelDeadline, AtStep, Steps,
                  CancelDeadlineThrows, ScheduleRelease, RemoveRelease
  <2>3. \/ releaseJob'[o] = releaseJob[o]
        \/ releaseJob'[o] = WithReleaseJob(o, releaseJob[o])
        \/ releaseJob'[o] = NoJob
    BY <2>2 DEF TypeOK
  <2>4. WithReleaseJob(o, releaseJob[o]).state = "active" =>
           releaseJob[o].state = "active"
    BY <1>1, OnlyReadsActivate, 0 \in Nat DEF WithReleaseJob, Releasable
  <2>5. NoJob.state # "active"
    BY DEF NoJob
  <2>. QED  BY <1>2, <2>1, <2>3, <2>4, <2>5
<1>6. ASSUME NEW p \in Orders, Worker(p)
      PROVE  Marked(o)'
  <2>1. CASE DeadlineJobReads(p)
    BY <1>2, <2>1 DEF DeadlineJobReads
  <2>2. CASE DeadlineJobCommits(p)
    BY <1>1, <1>2, <2>2 DEF DeadlineJobCommits, InPool, TypeOK, OrderRows
  <2>3. CASE ReleaseJobReads(p)
    <3>. DEFINE pays == Releasable(order[o]) /\ order[o].window = 0
    <3>1. CASE o = p /\ pays
      BY <1>1, <2>3, <3>1 DEF ReleaseJobReads, Releasable, Marked
    <3>2. CASE o # p
      BY <1>2, <2>3, <3>2 DEF ReleaseJobReads, TypeOK
    <3>3. CASE o = p /\ ~pays
      BY <1>1, <1>2, <2>3, <3>3, OnlyReadsActivate, 0 \in Nat
      DEF ReleaseJobReads, TypeOK
    <3>. QED  BY <3>1, <3>2, <3>3
  <2>4. CASE ReleaseJobCommits(p)
    <3>1. CASE o = p
      <4>1. /\ order'[o] = [order[o] EXCEPT !.released = TRUE,
                                             !.releases = OneMore(@)]
            /\ releaseJob'[o] = FinishJob(releaseJob[o])
            /\ releaseJob[o].state = "active"
        BY <2>4, <3>1 DEF ReleaseJobCommits, TypeOK
      <4>2. order[o].releases = 0
        BY <1>1, <4>1 DEF Marked, OrderRows
      <4>3. order'[o].released = TRUE /\ order'[o].releases = 1
        BY <1>1, <4>1, <4>2 DEF OrderRows, OneMore
      <4>4. releaseJob'[o].state # "active"
        BY <1>1, <4>1, OnlyReadsActivate, 0 \in Nat
      <4>. QED  BY <4>3, <4>4 DEF Marked
    <3>2. CASE o # p
      BY <1>2, <2>4, <3>2 DEF ReleaseJobCommits, TypeOK
    <3>. QED  BY <3>1, <3>2
  <2>5. CASE DeadlineJobEnds(p)
    BY <1>2, <2>5 DEF DeadlineJobEnds
  <2>6. CASE ReleaseJobEnds(p)
    BY <1>1, <1>2, <2>6, OnlyReadsActivate, 0 \in Nat DEF ReleaseJobEnds, TypeOK
  <2>. QED  BY <1>6, <2>1, <2>2, <2>3, <2>4, <2>5, <2>6 DEF Worker
<1>7. CASE Failures
  <2>1. ASSUME NEW r \in Requests, AbortCommit(r) PROVE Marked(o)'
    BY <1>2, <2>1 DEF AbortCommit
  <2>2. ASSUME NEW p \in Orders, DeadlineJobFails(p) \/ DeadlineJobStalls(p)
        PROVE  Marked(o)'
    BY <1>2, <2>2 DEF DeadlineJobFails, DeadlineJobStalls
  <2>3. ASSUME NEW p \in Orders, \/ ReleaseJobFails(p) \/ ReleaseJobEvicted(p)
             \/ ReleaseJobStalls(p)
        PROVE  Marked(o)'
    <3>1. /\ FailJob(releaseJob[o], ReleaseAttempts).state # "active"
          /\ RecoverJob(releaseJob[o]).state # "active"
          /\ NoJob.state # "active"
      BY <1>1, OnlyReadsActivate, TimeAssumption
    <3>2. /\ order' = order
          /\ \/ releaseJob'[o] = releaseJob[o]
             \/ releaseJob'[o] = FailJob(releaseJob[o], ReleaseAttempts)
             \/ releaseJob'[o] = RecoverJob(releaseJob[o])
             \/ releaseJob'[o] = NoJob
      BY <2>3 DEF ReleaseJobFails, ReleaseJobEvicted, ReleaseJobStalls, TypeOK
    <3>. QED  BY <1>2, <3>1, <3>2
  <2>4. ASSUME NEW warm \in BOOLEAN, Restart(warm) PROVE Marked(o)'
    <3>. DEFINE job == RecoverJob(releaseJob[o])
    <3>1. job \in Jobs /\ job.state # "active"
      BY <1>1, JobTypes, OnlyReadsActivate, 0 \in Nat
    <3>2. WithReleaseJob(o, job).state # "active"
      BY <1>1, <3>1, OnlyReadsActivate, 0 \in Nat DEF WithReleaseJob, Releasable
    <3>3. releaseJob'[o].state # "active" /\ order' = order
      BY <2>4, <3>1, <3>2 DEF Restart, RecoveredRelease
    <3>. QED  BY <1>2, <3>3
  <2>. QED  BY <1>7, <2>1, <2>2, <2>3, <2>4 DEF Failures
<1>8. CASE Tick
  <2>1. /\ order'[o].released = order[o].released
        /\ order'[o].releases = order[o].releases
    BY <1>1, <1>8 DEF Tick, OrderRows
  <2>2. releaseJob'[o].state = releaseJob[o].state
    BY <1>1, <1>8, OnlyReadsActivate, 0 \in Nat DEF Tick
  <2>. QED  BY <1>2, <2>1, <2>2
<1>9. CASE UNCHANGED vars
  BY <1>2, <1>9 DEF vars
<1>. QED  BY <1>3, <1>4, <1>5, <1>6, <1>7, <1>8, <1>9 DEF Next

(* Whatever requests, retries, restarts and queue errors overlap, the      *)
(* center of an order is paid for it at most once.                         *)
THEOREM NoSecondRelease == Spec => []ReleasedAtMostOnce
<1>1. Init => ReleaseInv
  BY DEF Init, ReleaseInv, Marked, NewOrder, NoJob
<1>2. TypeOK /\ ReleaseInv /\ [Next]_vars => ReleaseInv'
  BY ReleaseInvStep
<1>3. ReleaseInv => ReleasedAtMostOnce
  BY DEF ReleaseInv, Marked, ReleasedAtMostOnce
<1>. QED  BY <1>1, <1>2, <1>3, TypeCorrect, PTL DEF Spec


-----------------------------------------------------------------------------
(* Rows that agree with themselves, while requests, workers, retries and   *)
(* restarts overlap in any way.  The invariant says it of every order no   *)
(* commit of which rested on a check that was overtaken; a commit that     *)
(* still fits what it reads back keeps it, by one lemma per kind of write. *)

(* Status, assignment, dispute and money of a row agree.  The first part   *)
(* is what SettlementAgrees says of it, the second what AssignmentAgrees   *)
(* does, and the third what makes them inductive: which statuses a dispute *)
(* can stand in, and that a delivered order keeps the deadline a redo will *)
(* fall back on.                                                           *)
MoneyFits(row) ==
    /\ row.releases + row.refunds <= 1
    /\ row.released <=> row.releases > 0
    /\ row.released => /\ row.status = "COMPLETED"
                       /\ row.window = 0
                       /\ row.dispute \in {"NONE", "RESOLVED_FOR_CBT"}
    /\ (row.status = "REFUNDED") <=> row.refunds > 0
    /\ row.refunds > 0 <=> row.dispute = "RESOLVED_FOR_REQUESTER"

Worked(row) == row.status \in {"ASSIGNED", "IN_PROGRESS"}

HolderFits(row) ==
    /\ row.status \in {"NONE", "PENDING"} =>
          row.cbt = NoCbt /\ row.deadline = NoTime
    /\ Worked(row) => row.cbt # NoCbt /\ row.deadline # NoTime
    /\ row.status \in {"COMPLETED", "DISPUTED"} =>
          row.cbt # NoCbt /\ row.result # NoFile /\ row.window # NoTime
    /\ row.cbt \notin row.blocks

DisputeFits(row) ==
    /\ row.status # "RESOLVED"
    /\ row.status = "NONE" => row.dispute = "NONE"
    /\ row.status = "DISPUTED" <=> row.dispute \in {"OPEN", "UNDER_REVIEW"}
    /\ row.dispute = "RESOLVED_FOR_CBT" => row.status = "COMPLETED"
    /\ row.status \in {"COMPLETED", "DISPUTED"} => row.deadline # NoTime

RowFits(row) == MoneyFits(row) /\ HolderFits(row) /\ DisputeFits(row)

InThePool(row) == row.status \in {"PENDING", "ASSIGNED", "IN_PROGRESS"}

(* What a handler whose check still fits finds in the row at its commit.   *)
ReadFits(call, row) ==
    /\ call.kind = "CLAIM" => call.cbt \notin row.blocks
    /\ call.kind = "COMPLETE" => call.result # NoFile /\ call.time # NoTime
    /\ call.kind \in {"RETURN", "REASSIGN"} => InThePool(row)
    /\ call.kind = "APPROVE" => Worked(row) /\ call.time # NoTime
    /\ call.kind = "REJECT" => Worked(row)
    /\ call.kind = "DISPUTE" => row.status = "COMPLETED" /\ ~row.released
    /\ call.kind \in ReviewKinds => CopyFits(call, row)
    /\ call.kind = "UNDER_REVIEW" => row.dispute = "OPEN"
    /\ call.kind = "REQUEST_REDO" => row.dispute \in {"OPEN", "UNDER_REVIEW"}
    /\ call.kind = "RESOLVED_FOR_CBT" =>
          /\ row.dispute \in Undecided
          /\ row.status \in {"COMPLETED", "DISPUTED"}
    /\ call.kind = "RESOLVED_FOR_REQUESTER" => row.dispute \in Undecided
    /\ call.kind # "COMPLETE_MANUAL_REFUND"

(* What COMPLETE and APPROVE computed before their commit.                 *)
Prepared(call) ==
    /\ call.kind = "COMPLETE" => call.result # NoFile /\ call.time # NoTime
    /\ call.kind = "APPROVE" => call.time # NoTime

RowsInv ==
    /\ \A o \in Orders \ overtaken : RowFits(order[o])
    /\ \A r \in Requests : Committing(r) => Prepared(request[r])

-----------------------------------------------------------------------------
(* What a handler's writes do to a row, one lemma per kind of write.       *)

(* The steps of EscrowHold, on one order.                                  *)
HoldStep(old, new) ==
    \/ EscrowOf(new) = EscrowOf(old) /\ ClaimOf(new) = ClaimOf(old)
    \/ /\ EscrowOf(old) = "none" /\ EscrowOf(new) = "held"
       /\ ClaimOf(new) = ClaimOf(old)
    \/ /\ EscrowOf(old) = "held" /\ EscrowOf(new) = "held"
       /\ ClaimOf(old) = "none" /\ ClaimOf(new) = "standing"
    \/ /\ EscrowOf(new) = EscrowOf(old)
       /\ ClaimOf(old) = "standing" /\ ClaimOf(new) = "rejected"
    \/ /\ EscrowOf(old) = "held" /\ EscrowOf(new) = "refunded"
       /\ ClaimOf(old) = "standing" /\ ClaimOf(new) = "upheld"
    \/ /\ EscrowOf(old) = "held" /\ EscrowOf(new) = "released"
       /\ ClaimOf(old) \in {"none", "rejected"} /\ ClaimOf(new) = ClaimOf(old)

RowStep(old, new) ==
    /\ RowFits(new)
    /\ old.status = "COMPLETED" /\ new.status # "COMPLETED" =>
          new.dispute # old.dispute
    /\ HoldStep(old, new)

(* A write that touches neither money nor dispute.                         *)
LEMMA SameMoney ==
    ASSUME NEW old \in OrderRows, NEW new \in OrderRows,
           new.releases = old.releases, new.refunds = old.refunds,
           new.dispute = old.dispute,
           old.status = "NONE" <=> new.status = "NONE"
    PROVE  HoldStep(old, new)
<1>1. ClaimOf(new) = ClaimOf(old)
  BY DEF ClaimOf
<1>2. EscrowOf(new) = EscrowOf(old)
  BY DEF EscrowOf
<1>. QED  BY <1>1, <1>2 DEF HoldStep

(* Creation, start and unblocking.                                         *)
LEMMA OneStepRows ==
    ASSUME NEW row \in OrderRows, RowFits(row), NEW gone
    PROVE  /\ row.status = "NONE" =>
                RowStep(row, [row EXCEPT !.status = "PENDING"])
           /\ row.status = "ASSIGNED" =>
                RowStep(row, [row EXCEPT !.status = "IN_PROGRESS"])
           /\ RowStep(row, [row EXCEPT !.blocks = @ \ gone])
           /\ RowStep(row, [row EXCEPT !.blocks = {}])
<1>. USE DEF RowFits, MoneyFits, HolderFits, DisputeFits, Worked
<1>1. ASSUME row.status = "NONE"
      PROVE  RowStep(row, [row EXCEPT !.status = "PENDING"])
  <2>. DEFINE new == [row EXCEPT !.status = "PENDING"]
  <2>1. new \in OrderRows
    BY DEF OrderRows, OrderStatuses
  <2>2. RowFits(new)
    BY <1>1 DEF OrderRows
  <2>3. HoldStep(row, new)
    <3>1. /\ row.refunds = 0 /\ row.releases = 0
          /\ new.refunds = 0 /\ new.releases = 0
          /\ new.status = "PENDING" /\ new.dispute = row.dispute
      BY <1>1 DEF OrderRows
    <3>2. EscrowOf(row) = "none" /\ EscrowOf(new) = "held"
      BY <1>1, <3>1 DEF EscrowOf
    <3>3. ClaimOf(new) = ClaimOf(row)
      BY <3>1 DEF ClaimOf
    <3>. QED  BY <3>2, <3>3 DEF HoldStep
  <2>. QED  BY <1>1, <2>2, <2>3 DEF RowStep
<1>2. ASSUME row.status = "ASSIGNED"
      PROVE  RowStep(row, [row EXCEPT !.status = "IN_PROGRESS"])
  <2>. DEFINE new == [row EXCEPT !.status = "IN_PROGRESS"]
  <2>1. new \in OrderRows
    BY DEF OrderRows, OrderStatuses
  <2>2. RowFits(new)
    BY <1>2 DEF OrderRows
  <2>3. HoldStep(row, new)
    BY <1>2, <2>1, SameMoney DEF OrderRows
  <2>. QED  BY <1>2, <2>2, <2>3 DEF RowStep
<1>3. ASSUME NEW blocks \in SUBSET row.blocks
      PROVE  RowStep(row, [row EXCEPT !.blocks = blocks])
  <2>. DEFINE new == [row EXCEPT !.blocks = blocks]
  <2>1. new \in OrderRows
    BY DEF OrderRows
  <2>2. RowFits(new)
    BY DEF OrderRows
  <2>3. HoldStep(row, new)
    BY <2>1, SameMoney DEF OrderRows
  <2>. QED  BY <2>2, <2>3 DEF RowStep, OrderRows
<1>. QED  BY <1>1, <1>2, <1>3

(* Claim and reassignment.                                                 *)
LEMMA AssignRows ==
    ASSUME NEW row \in OrderRows, RowFits(row), NEW c \in Cbts, InThePool(row)
    PROVE  /\ c \notin row.blocks => RowStep(row, Assigned(row, c))
           /\ RowStep(row, HandedTo(row, c))
<1>. USE DEF RowFits, MoneyFits, HolderFits, DisputeFits, Worked, InThePool
<1>0. c # NoCbt /\ DeliveryWindow \in Nat /\ DeliveryWindow # NoTime
  BY CbtAssumption, TimeAssumption DEF NoTime
<1>1. Assigned(row, c) \in OrderRows /\ HandedTo(row, c) \in OrderRows
  BY RowTypes
<1>2. c \notin row.blocks => RowStep(row, Assigned(row, c))
  <2>1. SUFFICES ASSUME c \notin row.blocks
                 PROVE  RowStep(row, Assigned(row, c))
    OBVIOUS
  <2>2. RowFits(Assigned(row, c))
    BY <1>0, <2>1 DEF OrderRows, Assigned
  <2>3. HoldStep(row, Assigned(row, c))
    BY <1>1, SameMoney DEF OrderRows, Assigned
  <2>. QED  BY <2>2, <2>3 DEF RowStep
<1>3. RowStep(row, HandedTo(row, c))
  <2>2. RowFits(HandedTo(row, c))
    BY <1>0 DEF OrderRows, HandedTo, Assigned
  <2>3. HoldStep(row, HandedTo(row, c))
    BY <1>1, SameMoney DEF OrderRows, HandedTo, Assigned
  <2>. QED  BY <2>2, <2>3 DEF RowStep
<1>. QED  BY <1>2, <1>3

(* Back to the pool: by an admin, a rejected extension, a missed deadline. *)
LEMMA PoolRows ==
    ASSUME NEW row \in OrderRows, RowFits(row), InThePool(row),
           NEW blocks \in SUBSET Cbts, NEW extensions \in SUBSET Cbts
    PROVE  /\ RowStep(row, InPool(row))
           /\ RowStep(row, [InPool(row) EXCEPT !.blocks = blocks])
           /\ RowStep(row, [InPool(row) EXCEPT !.blocks = blocks,
                                               !.extensions = extensions])
<1>. USE DEF RowFits, MoneyFits, HolderFits, DisputeFits, Worked, InThePool
<1>1. [InPool(row) EXCEPT !.blocks = blocks, !.extensions = extensions]
         \in OrderRows
  BY DEF OrderRows, OrderStatuses, Times, InPool
<1>2. ASSUME NEW new \in OrderRows,
             new = [InPool(row) EXCEPT !.blocks = new.blocks,
                                       !.extensions = new.extensions]
      PROVE  RowStep(row, new)
  <2>1. /\ new.status = "PENDING" /\ new.cbt = NoCbt /\ new.deadline = NoTime
        /\ new.releases = row.releases /\ new.refunds = row.refunds
        /\ new.released = row.released /\ new.dispute = row.dispute
        /\ new.blocks \subseteq Cbts
    BY <1>2 DEF OrderRows, InPool
  <2>2. RowFits(new)
    BY <2>1, CbtAssumption DEF OrderRows
  <2>3. HoldStep(row, new)
    BY <2>1, SameMoney DEF OrderRows
  <2>. QED  BY <2>2, <2>3 DEF RowStep
<1>3. ASSUME NEW b \in SUBSET Cbts, NEW e \in SUBSET Cbts
      PROVE  RowStep(row, [InPool(row) EXCEPT !.blocks = b, !.extensions = e])
  <2>. DEFINE new == [InPool(row) EXCEPT !.blocks = b, !.extensions = e]
  <2>1. new \in OrderRows /\ new.blocks = b /\ new.extensions = e
    BY DEF OrderRows, OrderStatuses, Times, InPool
  <2>. QED  BY <1>2, <2>1
<1>4. row.blocks \in SUBSET Cbts /\ row.extensions \in SUBSET Cbts
  BY DEF OrderRows
<1>5. /\ InPool(row) = [InPool(row) EXCEPT !.blocks = row.blocks,
                                           !.extensions = row.extensions]
      /\ [InPool(row) EXCEPT !.blocks = blocks]
            = [InPool(row) EXCEPT !.blocks = blocks,
                                  !.extensions = row.extensions]
  BY DEF OrderRows, InPool
<1>6. /\ RowStep(row, [InPool(row) EXCEPT !.blocks = row.blocks,
                                          !.extensions = row.extensions])
      /\ RowStep(row, [InPool(row) EXCEPT !.blocks = blocks,
                                          !.extensions = row.extensions])
      /\ RowStep(row, [InPool(row) EXCEPT !.blocks = blocks,
                                          !.extensions = extensions])
  BY <1>3, <1>4
<1>. QED  BY <1>5, <1>6

(* Delivery.                                                               *)
LEMMA CompleteRow ==
    ASSUME NEW row \in OrderRows, RowFits(row), Worked(row),
           NEW result \in Files \cup {NoFile}, result # NoFile,
           NEW time \in Times, time # NoTime
    PROVE  RowStep(row, [row EXCEPT !.status = "COMPLETED", !.result = result,
                                    !.window = time])
<1>. USE DEF RowFits, MoneyFits, HolderFits, DisputeFits, Worked
<1>. DEFINE new == [row EXCEPT !.status = "COMPLETED", !.result = result,
                               !.window = time]
<1>1. new \in OrderRows
  BY DEF OrderRows, OrderStatuses
<1>2. RowFits(new)
  BY DEF OrderRows
<1>3. HoldStep(row, new)
  BY <1>1, SameMoney DEF OrderRows
<1>. QED  BY <1>2, <1>3 DEF RowStep, OrderRows

(* Extensions.                                                             *)
LEMMA ExtensionRows ==
    ASSUME NEW row \in OrderRows, RowFits(row),
           NEW extensions \in SUBSET Cbts, NEW time \in Times
    PROVE  /\ RowStep(row, [row EXCEPT !.extensions = extensions])
           /\ Worked(row) /\ time # NoTime =>
                RowStep(row, [row EXCEPT !.deadline = time,
                                         !.extensions = extensions])
<1>. USE DEF RowFits, MoneyFits, HolderFits, DisputeFits, Worked
<1>1. RowStep(row, [row EXCEPT !.extensions = extensions])
  <2>. DEFINE new == [row EXCEPT !.extensions = extensions]
  <2>1. new \in OrderRows
    BY DEF OrderRows
  <2>2. RowFits(new)
    BY DEF OrderRows
  <2>3. HoldStep(row, new)
    BY <2>1, SameMoney DEF OrderRows
  <2>. QED  BY <2>2, <2>3 DEF RowStep, OrderRows
<1>2. ASSUME Worked(row), time # NoTime
      PROVE  RowStep(row, [row EXCEPT !.deadline = time,
                                      !.extensions = extensions])
  <2>. DEFINE new == [row EXCEPT !.deadline = time, !.extensions = extensions]
  <2>1. new \in OrderRows
    BY DEF OrderRows
  <2>2. RowFits(new)
    BY <1>2 DEF OrderRows
  <2>3. HoldStep(row, new)
    BY <2>1, SameMoney DEF OrderRows
  <2>. QED  BY <2>2, <2>3 DEF RowStep, OrderRows
<1>. QED  BY <1>1, <1>2

(* A dispute is opened.                                                    *)
LEMMA DisputeRow ==
    ASSUME NEW row \in OrderRows, RowFits(row), row.status = "COMPLETED",
           ~row.released, row.dispute = "NONE"
    PROVE  RowStep(row, [row EXCEPT !.dispute = "OPEN", !.status = "DISPUTED"])
<1>. DEFINE new == [row EXCEPT !.dispute = "OPEN", !.status = "DISPUTED"]
<1>1. new \in OrderRows
  BY DEF OrderRows, OrderStatuses, DisputeStatuses
<1>2. /\ new.dispute = "OPEN" /\ new.status = "DISPUTED"
      /\ new.releases = row.releases /\ new.refunds = row.refunds
      /\ new.released = row.released /\ new.cbt = row.cbt
      /\ new.result = row.result /\ new.window = row.window
      /\ new.blocks = row.blocks /\ new.deadline = row.deadline
  BY DEF OrderRows
<1>3. row.refunds = 0 /\ row.releases = 0
  BY DEF RowFits, MoneyFits, OrderRows
<1>4. RowFits(new)
  BY <1>2, <1>3 DEF RowFits, MoneyFits, HolderFits, DisputeFits, Worked
<1>5. HoldStep(row, new)
  <2>1. EscrowOf(row) = "held" /\ EscrowOf(new) = "held"
    BY <1>2, <1>3 DEF EscrowOf
  <2>2. ClaimOf(row) = "none" /\ ClaimOf(new) = "standing"
    BY <1>2 DEF ClaimOf
  <2>. QED  BY <2>1, <2>2 DEF HoldStep
<1>. QED  BY <1>2, <1>4, <1>5 DEF RowStep

(* A standing dispute is reviewed: taken up, rejected, sent back.          *)
LEMMA ReviewRows ==
    ASSUME NEW row \in OrderRows, RowFits(row)
    PROVE  /\ row.dispute = "OPEN" =>
                RowStep(row, [row EXCEPT !.status = "DISPUTED",
                                         !.dispute = "UNDER_REVIEW",
                                         !.result = row.result,
                                         !.window = row.window])
           /\ row.dispute \in Undecided /\ row.status \in {"COMPLETED", "DISPUTED"} =>
                RowStep(row, [row EXCEPT !.status = "COMPLETED",
                                         !.dispute = "RESOLVED_FOR_CBT",
                                         !.result = row.result,
                                         !.window = row.window])
           /\ row.dispute \in {"OPEN", "UNDER_REVIEW"} =>
                RowStep(row, [row EXCEPT !.status = "IN_PROGRESS",
                                         !.dispute = "REDO_REQUESTED",
                                         !.result = NoFile,
                                         !.window = NoTime])
<1>. USE DEF Undecided
<1>1. ASSUME row.dispute = "OPEN"
      PROVE  RowStep(row, [row EXCEPT !.status = "DISPUTED",
                                      !.dispute = "UNDER_REVIEW",
                                      !.result = row.result,
                                      !.window = row.window])
  <2>. DEFINE new == [row EXCEPT !.status = "DISPUTED",
                                 !.dispute = "UNDER_REVIEW",
                                 !.result = row.result,
                                 !.window = row.window]
  <2>1. /\ new.dispute = "UNDER_REVIEW" /\ new.status = "DISPUTED"
        /\ new.releases = row.releases /\ new.refunds = row.refunds
        /\ new.released = row.released /\ new.cbt = row.cbt
        /\ new.result = row.result /\ new.window = row.window
        /\ new.blocks = row.blocks /\ new.deadline = row.deadline
    BY DEF OrderRows
  <2>2. row.status = "DISPUTED" /\ row.refunds = 0 /\ row.releases = 0
    BY <1>1 DEF RowFits, MoneyFits, DisputeFits, OrderRows
  <2>3. RowFits(new)
    BY <2>1, <2>2 DEF RowFits, MoneyFits, HolderFits, DisputeFits, Worked
  <2>4. EscrowOf(new) = EscrowOf(row)
    BY <2>1, <2>2 DEF EscrowOf
  <2>5. ClaimOf(new) = ClaimOf(row)
    BY <1>1, <2>1 DEF ClaimOf
  <2>. QED  BY <2>1, <2>2, <2>3, <2>4, <2>5 DEF RowStep, HoldStep
<1>2. ASSUME row.dispute \in Undecided, row.status \in {"COMPLETED", "DISPUTED"}
      PROVE  RowStep(row, [row EXCEPT !.status = "COMPLETED",
                                      !.dispute = "RESOLVED_FOR_CBT",
                                      !.result = row.result,
                                      !.window = row.window])
  <2>. DEFINE new == [row EXCEPT !.status = "COMPLETED",
                                 !.dispute = "RESOLVED_FOR_CBT",
                                 !.result = row.result,
                                 !.window = row.window]
  <2>1. /\ new.dispute = "RESOLVED_FOR_CBT" /\ new.status = "COMPLETED"
        /\ new.releases = row.releases /\ new.refunds = row.refunds
        /\ new.released = row.released /\ new.cbt = row.cbt
        /\ new.result = row.result /\ new.window = row.window
        /\ new.blocks = row.blocks /\ new.deadline = row.deadline
    BY DEF OrderRows
  <2>2. row.refunds = 0 /\ row.releases = 0 /\ ~row.released
    BY <1>2 DEF RowFits, MoneyFits, OrderRows
  <2>3. RowFits(new)
    BY <1>2, <2>1, <2>2 DEF RowFits, MoneyFits, HolderFits, DisputeFits, Worked
  <2>4. EscrowOf(new) = EscrowOf(row)
    BY <1>2, <2>1, <2>2 DEF EscrowOf
  <2>5. ClaimOf(row) = "standing" /\ ClaimOf(new) = "rejected"
    BY <1>2, <2>1 DEF ClaimOf
  <2>. QED  BY <2>1, <2>3, <2>4, <2>5 DEF RowStep, HoldStep
<1>3. ASSUME row.dispute \in {"OPEN", "UNDER_REVIEW"}
      PROVE  RowStep(row, [row EXCEPT !.status = "IN_PROGRESS",
                                      !.dispute = "REDO_REQUESTED",
                                      !.result = NoFile,
                                      !.window = NoTime])
  <2>. DEFINE new == [row EXCEPT !.status = "IN_PROGRESS",
                                 !.dispute = "REDO_REQUESTED",
                                 !.result = NoFile,
                                 !.window = NoTime]
  <2>1. /\ new.dispute = "REDO_REQUESTED" /\ new.status = "IN_PROGRESS"
        /\ new.releases = row.releases /\ new.refunds = row.refunds
        /\ new.released = row.released /\ new.cbt = row.cbt
        /\ new.deadline = row.deadline /\ new.blocks = row.blocks
    BY DEF OrderRows
  <2>2. /\ row.status = "DISPUTED" /\ row.refunds = 0 /\ row.releases = 0
        /\ ~row.released /\ row.cbt # NoCbt
    BY <1>3 DEF RowFits, MoneyFits, HolderFits, DisputeFits, OrderRows
  <2>3. RowFits(new)
    BY <2>1, <2>2 DEF RowFits, MoneyFits, HolderFits, DisputeFits, Worked
  <2>4. EscrowOf(new) = EscrowOf(row)
    BY <2>1, <2>2 DEF EscrowOf
  <2>5. ClaimOf(new) = ClaimOf(row)
    BY <1>3, <2>1 DEF ClaimOf
  <2>. QED  BY <2>1, <2>2, <2>3, <2>4, <2>5 DEF RowStep, HoldStep
<1>. QED  BY <1>1, <1>2, <1>3

(* A dispute is upheld, and the penalty for the center settled.            *)
LEMMA UpheldRow ==
    ASSUME NEW row \in OrderRows, RowFits(row), row.dispute \in Undecided,
           NEW penalty \in PenaltyStatuses
    PROVE  RowStep(row, [Upheld(row, row.released) EXCEPT
                           !.result = row.result, !.window = row.window,
                           !.penalty = penalty])
<1>. USE DEF Undecided
<1>. DEFINE new == [Upheld(row, row.released) EXCEPT
                      !.result = row.result, !.window = row.window,
                      !.penalty = penalty]
<1>1. row.refunds = 0 /\ row.releases = 0 /\ row.released = FALSE
  BY DEF RowFits, MoneyFits, OrderRows
<1>2. /\ new.dispute = "RESOLVED_FOR_REQUESTER" /\ new.status = "REFUNDED"
      /\ new.releases = row.releases /\ new.refunds = 1
      /\ new.released = row.released /\ new.cbt = row.cbt
      /\ new.blocks = row.blocks
  BY <1>1 DEF OrderRows, Upheld, OneMore
<1>3. RowFits(new)
  BY <1>1, <1>2 DEF RowFits, MoneyFits, HolderFits, DisputeFits, Worked
<1>4. row.status # "NONE"
  BY DEF RowFits, DisputeFits
<1>5. EscrowOf(row) = "held" /\ EscrowOf(new) = "refunded"
  BY <1>1, <1>2, <1>4 DEF EscrowOf
<1>6. ClaimOf(row) = "standing" /\ ClaimOf(new) = "upheld"
  BY <1>2 DEF ClaimOf
<1>. QED  BY <1>2, <1>3, <1>5, <1>6 DEF RowStep, HoldStep

LEMMA PenaltyRow ==
    ASSUME NEW row \in OrderRows, RowFits(row), NEW penalty \in PenaltyStatuses
    PROVE  RowStep(row, [row EXCEPT !.penalty = penalty])
<1>. DEFINE new == [row EXCEPT !.penalty = penalty]
<1>1. new \in OrderRows
  BY DEF OrderRows
<1>2. RowFits(new)
  BY DEF OrderRows, RowFits, MoneyFits, HolderFits, DisputeFits, Worked
<1>3. HoldStep(row, new)
  BY <1>1, SameMoney DEF OrderRows
<1>. QED  BY <1>2, <1>3 DEF RowStep, OrderRows

(* The release job pays out.                                               *)
LEMMA ReleaseRow ==
    ASSUME NEW row \in OrderRows, RowFits(row), Releasable(row), row.window = 0
    PROVE  RowStep(row, [row EXCEPT !.released = TRUE, !.releases = OneMore(@)])
<1>. DEFINE new == [row EXCEPT !.released = TRUE, !.releases = OneMore(@)]
<1>1. /\ row.refunds = 0 /\ row.releases = 0 /\ row.status = "COMPLETED"
      /\ row.dispute \in {"NONE", "RESOLVED_FOR_CBT"}
  BY DEF RowFits, MoneyFits, OrderRows, Releasable, DisputeBlocksRelease
<1>2. /\ new.dispute = row.dispute /\ new.status = row.status
      /\ new.releases = 1 /\ new.refunds = row.refunds
      /\ new.released = TRUE /\ new.cbt = row.cbt /\ new.result = row.result
      /\ new.window = row.window /\ new.deadline = row.deadline
      /\ new.blocks = row.blocks
  BY <1>1 DEF OrderRows, OneMore
<1>3. RowFits(new)
  BY <1>1, <1>2 DEF RowFits, MoneyFits, HolderFits, DisputeFits, Worked
<1>4. EscrowOf(row) = "held" /\ EscrowOf(new) = "released"
  BY <1>1, <1>2 DEF EscrowOf
<1>5. ClaimOf(row) \in {"none", "rejected"} /\ ClaimOf(new) = ClaimOf(row)
  BY <1>1, <1>2 DEF ClaimOf
<1>. QED  BY <1>1, <1>2, <1>3, <1>4, <1>5 DEF RowStep, HoldStep

(* Time passes for a row.                                                  *)
Later(row) == [row EXCEPT !.deadline = Elapse(@), !.window = Elapse(@)]

LEMMA LaterRow ==
    ASSUME NEW row \in OrderRows
    PROVE  /\ RowFits(row) => RowFits(Later(row))
           /\ RowFits(row) => RowStep(row, Later(row))
           /\ EscrowOf(Later(row)) = EscrowOf(row)
           /\ ClaimOf(Later(row)) = ClaimOf(row)
           /\ Later(row).status = row.status
<1>. DEFINE new == Later(row)
<1>1. /\ new.dispute = row.dispute /\ new.status = row.status
      /\ new.releases = row.releases /\ new.refunds = row.refunds
      /\ new.released = row.released /\ new.cbt = row.cbt
      /\ new.result = row.result /\ new.blocks = row.blocks
      /\ new.window = Elapse(row.window)
      /\ new.deadline = Elapse(row.deadline)
  BY DEF OrderRows, Later
<1>2. ASSUME NEW t \in Times
      PROVE  (Elapse(t) = NoTime <=> t = NoTime) /\ (t = 0 => Elapse(t) = 0)
  BY DEF Times, NoTime, Elapse
<1>3. /\ new.window = NoTime <=> row.window = NoTime
      /\ new.deadline = NoTime <=> row.deadline = NoTime
      /\ row.window = 0 => new.window = 0
  BY <1>1, <1>2 DEF OrderRows
<1>4. RowFits(row) => RowFits(new)
  BY <1>1, <1>3 DEF RowFits, MoneyFits, HolderFits, DisputeFits, Worked
<1>5. EscrowOf(new) = EscrowOf(row)
  BY <1>1 DEF EscrowOf
<1>6. ClaimOf(new) = ClaimOf(row)
  BY <1>1 DEF ClaimOf
<1>7. RowFits(row) => RowStep(row, new)
  BY <1>1, <1>4, <1>5, <1>6 DEF RowStep, HoldStep
<1>. QED  BY <1>1, <1>4, <1>5, <1>6, <1>7

-----------------------------------------------------------------------------
(* Steps.                                                                  *)

(* A step writes one row at most, as a handler may unless it records that  *)
(* the order was overtaken, or lets time pass for all of them.             *)
RowsStep ==
    \/ order' = order /\ overtaken' = overtaken
    \/ \E o \in Orders :
          /\ \A p \in Orders \ {o} : order'[p] = order[p]
          /\ overtaken' \in {overtaken, overtaken \cup {o}}
          /\ o \notin overtaken' =>
                order'[o] = order[o] \/ RowStep(order[o], order'[o])
    \/ order' = [o \in Orders |-> Later(order[o])] /\ overtaken' = overtaken

LEMMA RowsFit ==
    ASSUME TypeOK, RowsInv, RowsStep, NEW o \in Orders \ overtaken'
    PROVE  /\ o \notin overtaken /\ RowFits(order'[o])
           /\ \/ order'[o] = order[o] \/ RowStep(order[o], order'[o])
              \/ order'[o] = Later(order[o])
<1>1. order[o] \in OrderRows
  BY DEF TypeOK
<1>2. o \notin overtaken /\ RowFits(order[o])
  BY DEF RowsInv, RowsStep
<1>3. order'[o] = order[o] \/ RowStep(order[o], order'[o])
        \/ order'[o] = Later(order[o])
  BY DEF RowsStep
<1>. QED  BY <1>1, <1>2, <1>3, LaterRow DEF RowStep

(* One row is written, in a step that overtakes nothing.                   *)
LEMMA Written ==
    ASSUME TypeOK, NEW o \in Orders, NEW row, overtaken' = overtaken,
           order' = [order EXCEPT ![o] = row],
           o \notin overtaken => RowStep(order[o], row)
    PROVE  RowsStep
<1>1. order'[o] = row /\ \A p \in Orders \ {o} : order'[p] = order[p]
  BY DEF TypeOK
<1>. QED  BY <1>1 DEF RowsStep

(* Operations of one step; a handler that starts writes nothing.           *)
LEMMA UserActsStep ==
    ASSUME TypeOK, RowsInv, UserActs
    PROVE  RowsStep
<1>1. ASSUME NEW o \in Orders, CreateOrder(o) \/ UnblockAll(o)
      PROVE  RowsStep
  <2>1. order[o] \in OrderRows /\ overtaken' = overtaken
    BY <1>1 DEF TypeOK, CreateOrder, UnblockAll, history
  <2>2. o \notin overtaken => RowFits(order[o])
    BY DEF RowsInv
  <2>3. CASE CreateOrder(o)
    <3>1. o \notin overtaken =>
             RowStep(order[o], [order[o] EXCEPT !.status = "PENDING"])
      BY <2>1, <2>2, <2>3, OneStepRows DEF CreateOrder
    <3>2. order' = [order EXCEPT ![o] = [order[o] EXCEPT !.status = "PENDING"]]
      BY <2>3 DEF CreateOrder
    <3>. QED  BY <2>1, <3>1, <3>2, Written
  <2>4. CASE UnblockAll(o)
    <3>1. o \notin overtaken =>
             RowStep(order[o], [order[o] EXCEPT !.blocks = {}])
      BY <2>1, <2>2, OneStepRows
    <3>2. order' = [order EXCEPT ![o] = [order[o] EXCEPT !.blocks = {}]]
      BY <2>4 DEF UnblockAll
    <3>. QED  BY <2>1, <3>1, <3>2, Written
  <2>. QED  BY <1>1, <2>3, <2>4
<1>2. ASSUME NEW o \in Orders, NEW c \in Cbts,
             StartCbtJob(o, c) \/ UnblockCbt(o, c)
      PROVE  RowsStep
  <2>1. order[o] \in OrderRows /\ overtaken' = overtaken
    BY <1>2 DEF TypeOK, StartCbtJob, UnblockCbt, history
  <2>2. o \notin overtaken => RowFits(order[o])
    BY DEF RowsInv
  <2>3. CASE StartCbtJob(o, c)
    <3>1. o \notin overtaken =>
             RowStep(order[o], [order[o] EXCEPT !.status = "IN_PROGRESS"])
      BY <2>1, <2>2, <2>3, OneStepRows DEF StartCbtJob
    <3>2. order' = [order EXCEPT ![o] = [order[o] EXCEPT !.status = "IN_PROGRESS"]]
      BY <2>3 DEF StartCbtJob
    <3>. QED  BY <2>1, <3>1, <3>2, Written
  <2>4. CASE UnblockCbt(o, c)
    <3>1. o \notin overtaken =>
             RowStep(order[o], [order[o] EXCEPT !.blocks = @ \ {c}])
      BY <2>1, <2>2, OneStepRows
    <3>2. order' = [order EXCEPT ![o] = [order[o] EXCEPT !.blocks = @ \ {c}]]
      BY <2>4 DEF UnblockCbt
    <3>. QED  BY <2>1, <3>1, <3>2, Written
  <2>. QED  BY <1>2, <2>3, <2>4
<1>3. ASSUME NEW r \in Requests, NEW o \in Orders,
             \/ BeginReturn(r, o) \/ BeginDispute(r, o)
             \/ \E action \in ReviewKinds : BeginReview(r, o, action)
             \/ \E action \in FollowUpKinds : BeginFollowUp(r, o, action)
      PROVE  UNCHANGED <<order, overtaken>>
  BY <1>3 DEF BeginReturn, BeginDispute, BeginReview, BeginFollowUp, history
<1>4. ASSUME NEW r \in Requests, NEW o \in Orders, NEW c \in Cbts,
             \/ BeginClaim(r, o, c) \/ BeginComplete(r, o, c)
             \/ BeginReassign(r, o, c) \/ BeginAskExtension(r, o, c)
             \/ BeginApprove(r, o, c) \/ BeginReject(r, o, c)
      PROVE  UNCHANGED <<order, overtaken>>
  BY <1>4 DEF BeginClaim, BeginComplete, BeginReassign, BeginAskExtension,
              BeginApprove, BeginReject, history
<1>5. CASE UNCHANGED <<order, overtaken>>
  BY <1>5 DEF RowsStep
<1>. QED  BY <1>1, <1>2, <1>3, <1>4, <1>5 DEF UserActs

(* What a commit needs of the row follows from the check still fitting.    *)
LEMMA StillRead ==
    ASSUME TypeOK, NEW r \in Requests, Committing(r), request[r] \in Calls,
           Prepared(request[r]), StillFits(r),
           RowFits(order[request[r].order])
    PROVE  ReadFits(request[r], order[request[r].order])
<1>. DEFINE call == request[r]
            o == request[r].order
            row == order[o]
<1>1. call.kind # "COMPLETE_MANUAL_REFUND"
  BY DEF StillFits, FollowsUp, FollowUpKinds, RowFits, MoneyFits
<1>2. /\ call.kind = "CLAIM" => call.cbt \notin row.blocks
      /\ call.kind = "COMPLETE" => call.result # NoFile /\ call.time # NoTime
      /\ call.kind \in {"RETURN", "REASSIGN"} => InThePool(row)
      /\ call.kind = "APPROVE" => Worked(row) /\ call.time # NoTime
      /\ call.kind = "REJECT" => Worked(row)
      /\ call.kind = "DISPUTE" => row.status = "COMPLETED" /\ ~row.released
  BY DEF StillFits, Prepared, Poolable, InThePool, Active, Worked, Disputable
<1>3. ASSUME call.kind \in ReviewKinds
      PROVE  CopyFits(call, row) /\ Reviewable(o, call.kind)
  BY <1>3 DEF StillFits
<1>4. /\ call.kind = "UNDER_REVIEW" => row.dispute = "OPEN"
      /\ call.kind = "REQUEST_REDO" => row.dispute \in {"OPEN", "UNDER_REVIEW"}
      /\ call.kind = "RESOLVED_FOR_CBT" =>
            /\ row.dispute \in Undecided
            /\ row.status \in {"COMPLETED", "DISPUTED"}
      /\ call.kind = "RESOLVED_FOR_REQUESTER" => row.dispute \in Undecided
  BY <1>3 DEF Reviewable, ReviewKinds
<1>. QED  BY <1>1, <1>2, <1>3, <1>4 DEF ReadFits

(* Transactions.                                                           *)
LEMMA FittingCommit ==
    ASSUME TypeOK, NEW r \in Requests, Transaction(r),
           RowFits(order[request[r].order]),
           ReadFits(request[r], order[request[r].order])
    PROVE  \/ order' = order
           \/ \E new : /\ order' = [order EXCEPT ![request[r].order] = new]
                       /\ RowStep(order[request[r].order], new)
<1>. DEFINE o == request[r].order
            c == request[r].cbt
            row == order[o]
            call == request[r]
            Goal == \/ order' = order
                    \/ \E new : /\ order' = [order EXCEPT ![o] = new]
                                /\ RowStep(row, new)
<1>1. SUFFICES Goal
  OBVIOUS
<1>2. call \in Calls /\ o \in Orders
  BY TransactionBegins
<1>3. /\ c \in Cbts \cup {NoCbt} /\ call.time \in Times
      /\ call.result \in Files \cup {NoFile} /\ call.released \in BOOLEAN
      /\ call.kind \in CenterKinds => c \in Cbts
  BY <1>2 DEF Calls
<1>4. row \in OrderRows /\ RowFits(row) /\ ReadFits(call, row)
  BY <1>2 DEF TypeOK
<1>6. ASSUME NEW new, RowStep(row, new), order' = [order EXCEPT ![o] = new]
      PROVE  Goal
  BY <1>6
<1>8. CASE CommitClaim(r)
  <2>1. call.kind = "CLAIM"
    BY <1>8 DEF CommitClaim, AtCommit
  <2>2. CASE Claimable(o)
    <3>4. RowStep(row, Assigned(row, c))
      BY <1>3, <1>4, <2>1, <2>2, AssignRows
      DEF ReadFits, Claimable, InThePool, CenterKinds
    <3>5. order' = [order EXCEPT ![o] = Assigned(row, c)]
      BY <1>8, <2>2 DEF CommitClaim
    <3>. QED  BY <1>6, <3>4, <3>5
  <2>. QED  BY <1>8, <2>2 DEF CommitClaim
<1>9. CASE CommitComplete(r)
  <2>1. call.kind = "COMPLETE"
    BY <1>9 DEF CommitComplete, AtCommit
  <2>3. CASE order[o].cbt = c /\ Active(o)
    <3>. DEFINE new == [row EXCEPT !.status = "COMPLETED",
                                   !.result = call.result,
                                   !.window = call.time]
    <3>1. call.result # NoFile /\ call.time # NoTime /\ Worked(row)
      BY <1>4, <2>1, <2>3 DEF ReadFits, Active, Worked
    <3>2. RowStep(row, new)
      BY <1>3, <1>4, <3>1, CompleteRow
    <3>3. order' = [order EXCEPT ![o] = new]
      BY <1>9, <2>3 DEF CommitComplete
    <3>. QED  BY <1>6, <3>2, <3>3
  <2>. QED  BY <1>9, <2>3 DEF CommitComplete
<1>10. CASE CommitReturn(r)
  <2>1. call.kind = "RETURN"
    BY <1>10 DEF CommitReturn, AtCommit
  <2>2. InThePool(row)
    BY <1>4, <2>1 DEF ReadFits
  <2>3. RowStep(row, [InPool(row) EXCEPT !.blocks = {}])
    BY <1>4, <2>2, PoolRows
  <2>4. order' = [order EXCEPT ![o] = [InPool(row) EXCEPT !.blocks = {}]]
    BY <1>10 DEF CommitReturn
  <2>. QED  BY <1>6, <2>3, <2>4
<1>11. CASE CommitReassign(r)
  <2>1. call.kind = "REASSIGN"
    BY <1>11 DEF CommitReassign, AtCommit
  <2>2. CASE TriggerAllows(order[o].cbt, c)
    <3>4. RowStep(row, HandedTo(row, c))
      BY <1>3, <1>4, <2>1, AssignRows DEF ReadFits, CenterKinds
    <3>5. order' = [order EXCEPT ![o] = HandedTo(row, c)]
      BY <1>11, <2>2 DEF CommitReassign
    <3>. QED  BY <1>6, <3>4, <3>5
  <2>. QED  BY <1>11, <2>2 DEF CommitReassign
<1>12. CASE CommitAskExtension(r)
  <2>. DEFINE extensions == row.extensions \cup {c}
  <2>1. call.kind = "ASK_EXTENSION"
    BY <1>12 DEF CommitAskExtension, AtCommit
  <2>2. extensions \in SUBSET Cbts
    BY <1>3, <1>4, <2>1 DEF OrderRows, CenterKinds
  <2>3. RowStep(row, [row EXCEPT !.extensions = extensions])
    BY <1>3, <1>4, <2>2, ExtensionRows
  <2>4. order' = [order EXCEPT ![o] = [row EXCEPT !.extensions = extensions]]
    BY <1>12 DEF CommitAskExtension
  <2>. QED  BY <1>6, <2>3, <2>4
<1>13. CASE CommitApprove(r)
  <2>. DEFINE extensions == row.extensions \ {c}
              new == [row EXCEPT !.deadline = call.time,
                                 !.extensions = extensions]
  <2>1. call.kind = "APPROVE"
    BY <1>13 DEF CommitApprove, AtCommit
  <2>2. extensions \in SUBSET Cbts
    BY <1>4 DEF OrderRows
  <2>3. Worked(row) /\ call.time # NoTime
    BY <1>4, <2>1 DEF ReadFits
  <2>4. RowStep(row, new)
    BY <1>3, <1>4, <2>2, <2>3, ExtensionRows
  <2>5. order' = [order EXCEPT ![o] = new]
    BY <1>13 DEF CommitApprove
  <2>. QED  BY <1>6, <2>4, <2>5
<1>14. CASE CommitReject(r)
  <2>. DEFINE blocks == row.blocks \cup {c}
              extensions == row.extensions \ {c}
              new == [InPool(row) EXCEPT !.blocks = blocks,
                                         !.extensions = extensions]
  <2>1. call.kind = "REJECT"
    BY <1>14 DEF CommitReject, AtCommit
  <2>2. blocks \in SUBSET Cbts /\ extensions \in SUBSET Cbts
    BY <1>3, <1>4, <2>1 DEF OrderRows, CenterKinds
  <2>3. InThePool(row)
    BY <1>4, <2>1 DEF ReadFits, Worked, InThePool
  <2>4. RowStep(row, new)
    BY <1>4, <2>2, <2>3, PoolRows
  <2>5. InPool(row).blocks = row.blocks /\ InPool(row).extensions = row.extensions
    BY <1>4 DEF OrderRows, InPool
  <2>6. order' = [order EXCEPT ![o] = new]
    BY <1>14, <2>5 DEF CommitReject
  <2>. QED  BY <1>6, <2>4, <2>6
<1>15. CASE CommitDispute(r)
  <2>1. call.kind = "DISPUTE"
    BY <1>15 DEF CommitDispute, AtCommit
  <2>2. CASE order[o].dispute = "NONE"
    <3>. DEFINE new == [row EXCEPT !.dispute = "OPEN", !.status = "DISPUTED"]
    <3>1. RowStep(row, new)
      BY <1>4, <2>1, <2>2, DisputeRow DEF ReadFits
    <3>2. order' = [order EXCEPT ![o] = new]
      BY <1>15, <2>2 DEF CommitDispute
    <3>. QED  BY <1>6, <3>1, <3>2
  <2>. QED  BY <1>15, <2>2 DEF CommitDispute
<1>16. CASE CommitUnderReview(r)
  <2>. DEFINE new == [row EXCEPT !.status = "DISPUTED",
                                 !.dispute = "UNDER_REVIEW",
                                 !.result = row.result, !.window = row.window]
  <2>1. call.kind = "UNDER_REVIEW"
    BY <1>16 DEF CommitUnderReview, AtCommit
  <2>2. row.dispute = "OPEN" /\ CopyFits(call, row)
    BY <1>4, <2>1 DEF ReadFits, ReviewKinds
  <2>3. RowStep(row, new)
    BY <1>4, <2>2, ReviewRows
  <2>4. order' = [order EXCEPT ![o] = new]
    BY <1>16, <2>2 DEF CommitUnderReview, CopyFits
  <2>. QED  BY <1>6, <2>3, <2>4
<1>17. CASE CommitForCbt(r)
  <2>. DEFINE new == [row EXCEPT !.status = "COMPLETED",
                                 !.dispute = "RESOLVED_FOR_CBT",
                                 !.result = row.result, !.window = row.window]
  <2>1. call.kind = "RESOLVED_FOR_CBT"
    BY <1>17 DEF CommitForCbt, AtCommit
  <2>2. /\ row.dispute \in Undecided /\ row.status \in {"COMPLETED", "DISPUTED"}
        /\ CopyFits(call, row)
    BY <1>4, <2>1 DEF ReadFits, ReviewKinds
  <2>3. RowStep(row, new)
    BY <1>4, <2>2, ReviewRows
  <2>4. order' = [order EXCEPT ![o] = new]
    BY <1>17, <2>2 DEF CommitForCbt, CopyFits
  <2>. QED  BY <1>6, <2>3, <2>4
<1>18. CASE CommitRedo(r)
  <2>. DEFINE new == [row EXCEPT !.status = "IN_PROGRESS",
                                 !.dispute = "REDO_REQUESTED",
                                 !.result = NoFile, !.window = NoTime]
  <2>1. call.kind = "REQUEST_REDO"
    BY <1>18 DEF CommitRedo, AtCommit
  <2>2. row.dispute \in {"OPEN", "UNDER_REVIEW"}
    BY <1>4, <2>1 DEF ReadFits
  <2>3. RowStep(row, new)
    BY <1>4, <2>2, ReviewRows
  <2>4. order' = [order EXCEPT ![o] = new]
    BY <1>18 DEF CommitRedo
  <2>. QED  BY <1>6, <2>3, <2>4
<1>19. ASSUME NEW flag \in BOOLEAN, CommitForRequester(r, flag)
       PROVE  Goal
  <2>. DEFINE penalty == IF flag /\ row.penalty = "NONE"
                         THEN "PENDING" ELSE row.penalty
              paid == Upheld(row, row.released)
              new == [paid EXCEPT !.result = row.result, !.window = row.window,
                                  !.penalty = penalty]
  <2>1. call.kind = "RESOLVED_FOR_REQUESTER"
    BY <1>19 DEF CommitForRequester, AtCommit
  <2>2. row.dispute \in Undecided /\ CopyFits(call, row)
    BY <1>4, <2>1 DEF ReadFits, ReviewKinds
  <2>3. penalty \in PenaltyStatuses
    BY <1>4 DEF OrderRows, PenaltyStatuses
  <2>4. RowStep(row, new)
    BY <1>4, <2>2, <2>3, UpheldRow
  <2>5. paid.penalty = row.penalty
    BY <1>4 DEF OrderRows, Upheld
  <2>6. order' = [order EXCEPT ![o] = new]
    BY <1>19, <2>2, <2>5 DEF CommitForRequester, CopyFits
  <2>. QED  BY <1>6, <2>4, <2>6
<1>20. ~CommitManualRefund(r)
  BY <1>4 DEF CommitManualRefund, AtCommit, ReadFits
<1>21. CASE CommitPenalty(r)
  <2>. DEFINE penalty == IF call.kind = "EXECUTE_CBT_PENALTY" THEN "SUCCESS"
                                                              ELSE "REVERSED"
  <2>2. RowStep(row, [row EXCEPT !.penalty = penalty])
    BY <1>4, PenaltyRow DEF PenaltyStatuses
  <2>3. order' = [order EXCEPT ![o] = [row EXCEPT !.penalty = penalty]]
    BY <1>21 DEF CommitPenalty
  <2>. QED  BY <1>6, <2>2, <2>3
<1>. QED  BY <1>8, <1>9, <1>10, <1>11, <1>12, <1>13, <1>14, <1>15, <1>16, <1>17,
             <1>18, <1>19, <1>20, <1>21 DEF Transaction

LEMMA OneRowWritten ==
    ASSUME TypeOK, NEW r \in Requests, Transaction(r),
           NEW p \in Orders, p # request[r].order
    PROVE  order'[p] = order[p]
<1>. DEFINE o == request[r].order
<1>1. order' = order \/ \E new : order' = [order EXCEPT ![o] = new]
  <2>1. ASSUME CommitClaim(r) \/ CommitComplete(r) \/ CommitReturn(r)
                 \/ CommitReassign(r) \/ CommitReject(r) \/ CommitDispute(r)
                 \/ CommitUnderReview(r) \/ CommitForCbt(r) \/ CommitRedo(r)
        PROVE  order' = order \/ \E new : order' = [order EXCEPT ![o] = new]
    BY <2>1 DEF CommitClaim, CommitComplete, CommitReturn, CommitReassign,
       CommitReject, CommitDispute, CommitUnderReview, CommitForCbt, CommitRedo
  <2>2. ASSUME \/ CommitAskExtension(r) \/ CommitApprove(r)
               \/ \E flag \in BOOLEAN : CommitForRequester(r, flag)
               \/ CommitManualRefund(r) \/ CommitPenalty(r)
        PROVE  order' = order \/ \E new : order' = [order EXCEPT ![o] = new]
    BY <2>2 DEF CommitAskExtension, CommitApprove, CommitForRequester,
       CommitManualRefund, CommitPenalty
  <2>. QED  BY <2>1, <2>2 DEF Transaction
<1>. QED  BY <1>1 DEF TypeOK

LEMMA CommitStep ==
    ASSUME TypeOK, RowsInv, NEW r \in Requests, Commit(r)
    PROVE  RowsStep
<1>. DEFINE o == request[r].order
<1>1. Transaction(r) /\ Committing(r) /\ request[r] \in Calls /\ o \in Orders
  BY TransactionBegins DEF Commit
<1>2. \A p \in Orders \ {o} : order'[p] = order[p]
  BY <1>1, OneRowWritten
<1>3. /\ overtaken' \in {overtaken, overtaken \cup {o}}
      /\ order' # order /\ ~StillFits(r) => o \in overtaken'
  BY DEF Commit, WithOrder
<1>4. ASSUME o \notin overtaken'
      PROVE  order'[o] = order[o] \/ RowStep(order[o], order'[o])
  <2>1. CASE order' = order
    BY <2>1
  <2>2. CASE order' # order
    <3>1. StillFits(r) /\ o \notin overtaken
      BY <1>3, <1>4, <2>2
    <3>2. RowFits(order[o]) /\ Prepared(request[r])
      BY <1>1, <3>1 DEF RowsInv
    <3>3. ReadFits(request[r], order[o])
      BY <1>1, <3>1, <3>2, StillRead
    <3>4. PICK new : /\ order' = [order EXCEPT ![o] = new]
                     /\ RowStep(order[o], new)
      BY <1>1, <2>2, <3>2, <3>3, FittingCommit
    <3>. QED  BY <1>1, <3>4 DEF TypeOK
  <2>. QED  BY <2>1, <2>2
<1>. QED  BY <1>1, <1>2, <1>3, <1>4 DEF RowsStep

(* The workers write one row each, if at all.                              *)
LEMMA WorkerStep ==
    ASSUME TypeOK, RowsInv, NEW o \in Orders, Worker(o)
    PROVE  RowsStep
<1>1. order[o] \in OrderRows /\ (o \notin overtaken => RowFits(order[o]))
  BY DEF TypeOK, RowsInv
<1>2. CASE DeadlineJobCommits(o)
  <2>1. order' = [order EXCEPT ![o] = InPool(order[o])]
    BY <1>2 DEF DeadlineJobCommits
  <2>2. /\ overtaken' \in {overtaken, overtaken \cup {o}}
        /\ o \notin overtaken' => o \notin overtaken /\ Worked(order[o])
    BY <1>2 DEF DeadlineJobCommits, WithOrder, Active, Worked
  <2>3. o \notin overtaken' => RowStep(order[o], InPool(order[o]))
    BY <1>1, <2>2, PoolRows DEF Worked, InThePool
  <2>. QED  BY <2>1, <2>2, <2>3 DEF RowsStep, TypeOK
<1>3. CASE ReleaseJobCommits(o)
  <2>. DEFINE new == [order[o] EXCEPT !.released = TRUE, !.releases = OneMore(@)]
  <2>1. order' = [order EXCEPT ![o] = new]
    BY <1>3 DEF ReleaseJobCommits
  <2>2. /\ overtaken' \in {overtaken, overtaken \cup {o}}
        /\ o \notin overtaken' =>
              o \notin overtaken /\ Releasable(order[o]) /\ order[o].window = 0
    BY <1>3 DEF ReleaseJobCommits, WithOrder
  <2>3. o \notin overtaken' => RowStep(order[o], new)
    BY <1>1, <2>2, ReleaseRow
  <2>4. order'[o] = new /\ \A p \in Orders \ {o} : order'[p] = order[p]
    BY <2>1 DEF TypeOK
  <2>. HIDE DEF new
  <2>. QED  BY <2>2, <2>3, <2>4 DEF RowsStep
<1>. QED  BY <1>2, <1>3
          DEF Worker, DeadlineJobReads, DeadlineJobEnds, ReleaseJobReads,
              ReleaseJobEnds, RowsStep, history

LEMMA RowsStepHolds ==
    ASSUME TypeOK, RowsInv, [Next]_vars
    PROVE  RowsStep
<1>1. ASSUME NEW r \in Requests, QueueCall(r) PROVE RowsStep
  BY <1>1 DEF QueueCall, ScheduleDeadline, CancelDeadline,
              CancelDeadlineThrows, ScheduleRelease, RemoveRelease, RowsStep,
              history
<1>2. CASE Failures
  BY <1>2 DEF Failures, AbortCommit, DeadlineJobFails, ReleaseJobFails,
              ReleaseJobEvicted, DeadlineJobStalls, ReleaseJobStalls, Restart,
              RowsStep, history
<1>3. CASE Tick
  BY <1>3 DEF Tick, Later, RowsStep, history
<1>4. CASE UNCHANGED vars
  BY <1>4 DEF vars, history, RowsStep
<1>. QED  BY <1>1, <1>2, <1>3, <1>4, UserActsStep, CommitStep, WorkerStep
          DEF Next

(* A handler about to commit has started so, and time has passed for it.   *)
LEMMA PreparedStep ==
    ASSUME TypeOK, RowsInv, [Next]_vars, NEW r \in Requests, Committing(r)'
    PROVE  Prepared(request[r])'
<1>1. ASSUME request'[r] = request[r] PROVE Prepared(request[r])'
  BY <1>1 DEF RowsInv, Committing
<1>2. ASSUME NEW q \in Requests, NEW next,
             request' = [request EXCEPT ![q] = next], next.step # "commit"
      PROVE  Prepared(request[r])'
  <2>1. request'[r].step = "commit"
    BY DEF Committing
  <2>2. q # r
    BY <1>2, <2>1 DEF TypeOK
  <2>. QED  BY <1>1, <1>2, <2>2 DEF TypeOK
<1>3. ASSUME NEW q \in Requests, NEW call, Begin(q, call), Prepared(call)
      PROVE  Prepared(request[r])'
  <2>1. request'[r] \in {request[r], call}
    BY <1>3 DEF Begin, TypeOK
  <2>. QED  BY <1>1, <1>3, <2>1
<1>4. ASSUME NEW q \in Requests, request[q] \in Calls,
             Answer(q) \/ \E step \in Steps \ {"commit"} : Continue(q, step)
      PROVE  Prepared(request[r])'
  <2>1. CASE Answer(q)
    <3>1. Idle.step # "commit"
      BY DEF Idle
    <3>2. request' = [request EXCEPT ![q] = Idle]
      BY <2>1 DEF Answer
    <3>. QED  BY <1>2, <3>1, <3>2
  <2>2. ASSUME NEW step \in Steps \ {"commit"}, Continue(q, step)
        PROVE  Prepared(request[r])'
    <3>1. [request[q] EXCEPT !.step = step].step # "commit"
      BY <1>4 DEF Calls
    <3>2. request' = [request EXCEPT ![q] = [request[q] EXCEPT !.step = step]]
      BY <2>2 DEF Continue
    <3>. QED  BY <1>2, <3>1, <3>2
  <2>. QED  BY <1>4, <2>1, <2>2
<1>5. CASE UserActs
  <2>1. ASSUME NEW q \in Requests, NEW o \in Orders, NEW kind, NEW c,
               Begin(q, Call(kind, o, c)), kind \notin {"COMPLETE", "APPROVE"}
        PROVE  Prepared(request[r])'
    BY <1>3, <2>1 DEF Prepared, Call
  <2>2. ASSUME NEW q \in Requests, NEW o \in Orders,
               BeginReturn(q, o) \/ BeginDispute(q, o)
        PROVE  Prepared(request[r])'
    BY <2>1, <2>2 DEF BeginReturn, BeginDispute
  <2>3. ASSUME NEW q \in Requests, NEW o \in Orders, NEW c \in Cbts,
               \/ BeginClaim(q, o, c) \/ BeginReassign(q, o, c)
               \/ BeginAskExtension(q, o, c) \/ BeginReject(q, o, c)
        PROVE  Prepared(request[r])'
    BY <2>1, <2>3
    DEF BeginClaim, BeginReassign, BeginAskExtension, BeginReject
  <2>4. ASSUME NEW q \in Requests, NEW o \in Orders,
               NEW action \in FollowUpKinds, BeginFollowUp(q, o, action)
        PROVE  Prepared(request[r])'
    BY <2>1, <2>4 DEF BeginFollowUp, FollowUpKinds
  <2>5. ASSUME NEW q \in Requests, NEW o \in Orders,
               NEW action \in ReviewKinds, BeginReview(q, o, action)
        PROVE  Prepared(request[r])'
    <3>. DEFINE call == [Call(action, o, order[o].cbt) EXCEPT
                   !.time = order[o].window, !.result = order[o].result,
                   !.released = order[o].released]
    <3>1. Prepared(call)
      BY DEF Prepared, Call, ReviewKinds
    <3>2. Begin(q, call)
      BY <2>5 DEF BeginReview
    <3>. HIDE DEF call
    <3>. QED  BY <1>3, <3>1, <3>2
  <2>6. ASSUME NEW q \in Requests, NEW o \in Orders, NEW c \in Cbts,
               BeginComplete(q, o, c)
        PROVE  Prepared(request[r])'
    <3>. DEFINE f == CHOOSE g \in Files \ FilesInUse : TRUE
                call == [Call("COMPLETE", o, c) EXCEPT !.time = DisputeWindow,
                                                       !.result = f]
    <3>1. f \in Files /\ Begin(q, call)
      BY <2>6 DEF BeginComplete
    <3>2. f # NoFile /\ DisputeWindow # NoTime
      <4>1. DisputeWindow # NoTime
        BY TimeAssumption DEF NoTime
      <4>. HIDE DEF f
      <4>. QED  BY <3>1, <4>1, FileAssumption
    <3>3. Prepared(call)
      BY <3>2 DEF Prepared, Call
    <3>. HIDE DEF call
    <3>. QED  BY <1>3, <3>1, <3>3
  <2>7. ASSUME NEW q \in Requests, NEW o \in Orders, NEW c \in Cbts,
               BeginApprove(q, o, c)
        PROVE  Prepared(request[r])'
    <3>. DEFINE call == [Call("APPROVE", o, c) EXCEPT
                           !.time = ExtendedDeadline(o)]
    <3>1. ExtendedDeadline(o) # NoTime
      BY TimeAssumption DEF TypeOK, OrderRows, Times, NoTime, ExtendedDeadline
    <3>2. Prepared(call)
      BY <3>1 DEF Prepared, Call
    <3>3. Begin(q, call)
      BY <2>7 DEF BeginApprove
    <3>. HIDE DEF call
    <3>. QED  BY <1>3, <3>2, <3>3
  <2>8. CASE UNCHANGED request
    BY <1>1, <2>8
  <2>. QED  BY <1>5, <2>2, <2>3, <2>4, <2>5, <2>6, <2>7, <2>8
            DEF UserActs, CreateOrder, UnblockAll, StartCbtJob, UnblockCbt
<1>6. ASSUME NEW q \in Requests, Commit(q) PROVE Prepared(request[r])'
  <2>1. Transaction(q) /\ request[q] \in Calls
    BY <1>6, TransactionBegins DEF Commit
  <2>2. CASE CommitClaim(q) /\ Claimable(request[q].order)
    <3>. DEFINE next == [request[q] EXCEPT !.step = "scheduleDeadline",
                                           !.time = DeliveryWindow]
    <3>1. request' = [request EXCEPT ![q] = next] /\ next.step # "commit"
      BY <2>1, <2>2 DEF CommitClaim, Calls
    <3>. QED  BY <1>2, <3>1
  <2>3. CASE CommitReassign(q) /\ TriggerAllows(order[request[q].order].cbt,
                                                request[q].cbt)
    <3>. DEFINE next == [request[q] EXCEPT !.step = "cancelDeadline",
                                           !.time = DeliveryWindow]
    <3>1. request' = [request EXCEPT ![q] = next] /\ next.step # "commit"
      BY <2>1, <2>3 DEF CommitReassign, Calls
    <3>. QED  BY <1>2, <3>1
  <2>. QED  BY <1>4, <2>1, <2>2, <2>3
            DEF Transaction, CommitClaim, CommitComplete, CommitReturn,
                CommitReassign, CommitAskExtension, CommitApprove, CommitReject,
                CommitDispute, CommitUnderReview, CommitForCbt, CommitRedo,
                CommitForRequester, CommitManualRefund, CommitPenalty, Steps
<1>7. ASSUME NEW q \in Requests, QueueCall(q) PROVE Prepared(request[r])'
  <2>1. request[q] \in Calls
    BY <1>7, QueueCallBegins
  <2>. QED  BY <1>4, <1>7, <2>1
            DEF QueueCall, ScheduleDeadline, CancelDeadline,
                CancelDeadlineThrows, ScheduleRelease, RemoveRelease, Steps
<1>8. ASSUME NEW o \in Orders, Worker(o) PROVE Prepared(request[r])'
  BY <1>1, <1>8 DEF Worker, DeadlineJobReads, DeadlineJobCommits,
     DeadlineJobEnds, ReleaseJobReads, ReleaseJobCommits, ReleaseJobEnds
<1>9. CASE Failures
  <2>1. ASSUME NEW q \in Requests, AbortCommit(q) PROVE Prepared(request[r])'
    <3>1. Idle.step # "commit"
      BY DEF Idle
    <3>2. request' = [request EXCEPT ![q] = Idle]
      BY <2>1 DEF AbortCommit, Answer
    <3>. QED  BY <1>2, <3>1, <3>2
  <2>2. ASSUME NEW warm \in BOOLEAN, Restart(warm) PROVE Prepared(request[r])'
    BY <2>2 DEF Restart, Committing, Idle
  <2>. QED  BY <1>1, <1>9, <2>1, <2>2
            DEF Failures, DeadlineJobFails, ReleaseJobFails, ReleaseJobEvicted,
                DeadlineJobStalls, ReleaseJobStalls
<1>10. CASE Tick
  <2>1. request[r] # Idle /\ request'[r] = [request[r] EXCEPT !.time = Elapse(@)]
    BY <1>10 DEF Tick, Committing, Idle
  <2>2. request[r] \in Calls
    BY <2>1 DEF TypeOK
  <2>3. /\ request'[r].step = request[r].step
        /\ request'[r].kind = request[r].kind
        /\ request'[r].result = request[r].result
        /\ request'[r].time = Elapse(request[r].time)
    BY <2>1, <2>2 DEF Calls
  <2>4. Elapse(request[r].time) = NoTime <=> request[r].time = NoTime
    BY <2>2 DEF Calls, Times, NoTime, Elapse
  <2>5. Prepared(request[r])
    BY <2>3 DEF RowsInv, Committing
  <2>. QED  BY <2>3, <2>4, <2>5 DEF Prepared
<1>11. CASE UNCHANGED vars
  BY <1>1, <1>11 DEF vars
<1>. QED  BY <1>5, <1>6, <1>7, <1>8, <1>9, <1>10, <1>11 DEF Next

LEMMA RowsAlways == Spec => [](TypeOK /\ RowsInv)
<1>1. Init => RowsInv
  BY CbtAssumption
  DEF Init, RowsInv, Committing, Idle, NewOrder, RowFits, MoneyFits,
      HolderFits, DisputeFits, Worked
<1>2. TypeOK /\ RowsInv /\ [Next]_vars => RowsInv'
  <2>. SUFFICES ASSUME TypeOK, RowsInv, [Next]_vars PROVE RowsInv'
    OBVIOUS
  <2>1. RowsStep
    BY RowsStepHolds
  <2>2. (\A o \in Orders \ overtaken : RowFits(order[o]))'
    BY <2>1, RowsFit
  <2>3. (\A r \in Requests : Committing(r) => Prepared(request[r]))'
    BY PreparedStep
  <2>. QED  BY <2>2, <2>3 DEF RowsInv
<1>. QED  BY <1>1, <1>2, TypeCorrect, PTL DEF Spec

(* The money of an order leaves escrow once, and row, ledger and dispute   *)
(* agree on it, through every dispute, redo, retry, restart, queue error   *)
(* and interleaving, up to a commit whose check was overtaken.             *)
THEOREM SettlementSound == Spec => []SettlementAgrees
<1>1. RowsInv => SettlementAgrees
  BY DEF RowsInv, RowFits, MoneyFits, SettlementAgrees
<1>. QED  BY <1>1, RowsAlways, PTL

(* Holder, deadline, delivery and blocks fit the status of every order, up *)
(* to a commit whose check was overtaken.                                  *)
THEOREM AssignmentSound == Spec => []AssignmentAgrees
<1>1. RowsInv => AssignmentAgrees
  BY DEF RowsInv, RowFits, HolderFits, Worked, Active, AssignmentAgrees
<1>. QED  BY <1>1, RowsAlways, PTL

(* A delivered order is never taken back by a step whose check has not     *)
(* been overtaken: only its dispute moves it out of COMPLETED.             *)
THEOREM DeliveredStays == Spec => CompletedOnlyDisputed
<1>1. TypeOK /\ RowsInv /\ [Next]_vars =>
        \A o \in Orders \ overtaken' :
          order[o].status = "COMPLETED" /\ order'[o].status # "COMPLETED" =>
             order'[o].dispute # order[o].dispute
  <2>1. SUFFICES ASSUME TypeOK, RowsInv, [Next]_vars,
                        NEW o \in Orders \ overtaken',
                        order[o].status = "COMPLETED",
                        order'[o].status # "COMPLETED"
                 PROVE  order'[o].dispute # order[o].dispute
    OBVIOUS
  <2>2. RowsStep
    BY <2>1, RowsStepHolds
  <2>3. order'[o] = order[o] \/ RowStep(order[o], order'[o])
          \/ order'[o] = Later(order[o])
    BY <2>1, <2>2, RowsFit
  <2>4. Later(order[o]).status = order[o].status
    BY <2>1, LaterRow DEF TypeOK
  <2>. QED  BY <2>1, <2>3, <2>4 DEF RowStep
<1>. QED  BY <1>1, RowsAlways, PTL DEF Spec, CompletedOnlyDisputed

(* A step of the handlers is a step of EscrowHold, or none.                *)
LEMMA HoldRefines ==
    ASSUME TypeOK, TypeOK', RowsStep
    PROVE  [Hold!Next]_<<Escrow, Claim>>
<1>1. ASSUME NEW o \in Orders,
             \A p \in Orders \ {o} : order'[p] = order[p],
             overtaken' \in {overtaken, overtaken \cup {o}},
             o \notin overtaken' =>
                order'[o] = order[o] \/ RowStep(order[o], order'[o])
      PROVE  [Hold!Next]_<<Escrow, Claim>>
  <2>1. \A p \in Orders \ {o} : Escrow'[p] = Escrow[p] /\ Claim'[p] = Claim[p]
    BY <1>1 DEF Escrow, Claim
  <2>2. /\ Escrow' = [Escrow EXCEPT ![o] = Escrow'[o]]
        /\ Claim' = [Claim EXCEPT ![o] = Claim'[o]]
    <3>1. /\ Escrow = [p \in Orders |-> Escrow[p]]
          /\ Escrow' = [p \in Orders |-> Escrow'[p]]
          /\ Claim = [p \in Orders |-> Claim[p]]
          /\ Claim' = [p \in Orders |-> Claim'[p]]
      BY DEF Escrow, Claim
    <3>. QED  BY <2>1, <3>1
  <2>3. CASE o \in overtaken'
    <3>1. Escrow'[o] = "overtaken" /\ Claim'[o] = "overtaken"
      BY <2>3 DEF Escrow, Claim
    <3>. QED  BY <2>2, <3>1 DEF Hold!Next, Hold!Overtake
  <2>4. CASE o \notin overtaken'
    <3>1. /\ Escrow[o] = EscrowOf(order[o]) /\ Claim[o] = ClaimOf(order[o])
          /\ Escrow'[o] = EscrowOf(order'[o]) /\ Claim'[o] = ClaimOf(order'[o])
      BY <1>1, <2>4 DEF Escrow, Claim
    <3>2. \/ Escrow'[o] = Escrow[o] /\ Claim'[o] = Claim[o]
          \/ HoldStep(order[o], order'[o])
      BY <1>1, <2>4, <3>1 DEF RowStep
    <3>3. /\ Escrow'[o] = Escrow[o] => UNCHANGED Escrow
          /\ Claim'[o] = Claim[o] => UNCHANGED Claim
      <4>1. /\ Escrow = [p \in Orders |-> Escrow[p]]
            /\ Escrow' = [p \in Orders |-> Escrow'[p]]
            /\ Claim = [p \in Orders |-> Claim[p]]
            /\ Claim' = [p \in Orders |-> Claim'[p]]
        BY DEF Escrow, Claim
      <4>. QED  BY <2>1, <4>1
    <3>4. \/ UNCHANGED <<Escrow, Claim>>
          \/ /\ Escrow[o] = "none" /\ Escrow' = [Escrow EXCEPT ![o] = "held"]
             /\ UNCHANGED Claim
          \/ /\ Escrow[o] = "held" /\ Claim[o] = "none"
             /\ Claim' = [Claim EXCEPT ![o] = "standing"]
             /\ UNCHANGED Escrow
          \/ /\ Claim[o] = "standing"
             /\ Claim' = [Claim EXCEPT ![o] = "rejected"]
             /\ UNCHANGED Escrow
          \/ /\ Escrow[o] = "held" /\ Claim[o] = "standing"
             /\ Claim' = [Claim EXCEPT ![o] = "upheld"]
             /\ Escrow' = [Escrow EXCEPT ![o] = "refunded"]
          \/ /\ Escrow[o] = "held" /\ Claim[o] \in {"none", "rejected"}
             /\ Escrow' = [Escrow EXCEPT ![o] = "released"]
             /\ UNCHANGED Claim
      BY <2>2, <3>1, <3>2, <3>3 DEF HoldStep
    <3>. QED  BY <3>4 DEF Hold!Next, Hold!Lock, Hold!Raise, Hold!Reject,
                          Hold!Uphold, Hold!Release
  <2>. QED  BY <2>3, <2>4
<1>2. CASE order' = order /\ overtaken' = overtaken
  BY <1>2 DEF Escrow, Claim
<1>3. CASE /\ order' = [o \in Orders |-> Later(order[o])]
           /\ overtaken' = overtaken
  <2>1. ASSUME NEW o \in Orders
        PROVE  /\ EscrowOf(order'[o]) = EscrowOf(order[o])
               /\ ClaimOf(order'[o]) = ClaimOf(order[o])
    BY <1>3, LaterRow DEF TypeOK
  <2>. QED  BY <1>3, <2>1 DEF Escrow, Claim
<1>. QED  BY <1>1, <1>2, <1>3 DEF RowsStep

(* The handlers keep the promise of EscrowHold: the price is locked once   *)
(* and leaves escrow once, to the center while no claim stands, or to the  *)
(* requester when his claim is upheld, up to a commit whose check was      *)
(* overtaken.                                                              *)
THEOREM EscrowHeld == Spec => HoldsEscrow
<1>1. Init => Hold!Init
  <2>1. EscrowOf(NewOrder) = "none" /\ ClaimOf(NewOrder) = "none"
    BY DEF EscrowOf, ClaimOf, NewOrder
  <2>. QED  BY <2>1 DEF Init, Hold!Init, Escrow, Claim
<1>2. TypeOK /\ TypeOK' /\ RowsInv /\ [Next]_vars =>
        [Hold!Next]_<<Escrow, Claim>>
  BY RowsStepHolds, HoldRefines
<1>. QED  BY <1>1, <1>2, RowsAlways, TypeCorrect, PTL
          DEF Spec, HoldsEscrow, Hold!Spec

==============================================================================
