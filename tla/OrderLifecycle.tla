--------------------------- MODULE OrderLifecycle ---------------------------
(***************************************************************************)
(* A manual order from creation to settlement: the job pool, delivery      *)
(* deadlines, time extensions, disputes and the release of escrow.         *)
(*                                                                         *)
(* The API process serves several HTTP requests and two Bull queues at     *)
(* once.  A handler reads the order, checks it, awaits, and then runs a    *)
(* transaction that updates the row BY ID; after it, the handler adds or   *)
(* removes the order's job in Redis, one call at a time.  Each of these is *)
(* a step here, so that other handlers, the clock, a Redis error or a      *)
(* restart can fall in between.                                            *)
(*                                                                         *)
(* Time is counted down: a column or a timer that holds a date is modelled *)
(* by the time left until it (0 once it has passed, NoTime when null), and *)
(* Tick moves all of them.  The code compares dates with now only.         *)
(***************************************************************************)
EXTENDS Integers, FiniteSets, BullJob

CONSTANTS
    Orders,             \* orders fulfilled by CBT centers (fulfillmentType MANUAL)
    Cbts,               \* approved CBT centers that cover the service category
    NoCbt,              \* assignedCbtId is null
    Requests,           \* HTTP requests the API can be serving at once
    Files,              \* public ids storage can give an uploaded result
    NoFile,             \* resultFileUrl is null
    DeliveryWindow,     \* the delivery window set on claim and reassignment
    Extension,          \* the time an approved extension adds
    MaxDeadline,        \* bound: no extension moves a deadline further than this
    DisputeWindow,      \* two hours in the code
    ReleaseAttempts,    \* attempts of a release job
    RedisFaults,        \* TRUE: a queue call may throw
    DbFaults            \* TRUE: a transaction may fail

ASSUME CbtAssumption == NoCbt \notin Cbts
ASSUME FileAssumption == NoFile \notin Files
ASSUME TimeAssumption ==
    /\ DeliveryWindow \in Nat /\ Extension \in Nat /\ DisputeWindow \in Nat
    /\ MaxDeadline \in Nat /\ ReleaseAttempts \in Nat
ASSUME FaultAssumption == RedisFaults \in BOOLEAN /\ DbFaults \in BOOLEAN

VARIABLES
    order,          \* the order row and the rows that hang off it
    deadlineJob,    \* the order's job in the delivery-deadline queue
    releaseJob,     \* the order's job in the release-escrow queue
    request,        \* what each HTTP request in flight holds
    storage,        \* the result files object storage holds
    (* History, which no handler reads: *)
    overtaken,      \* orders written after the check for it had come undone
    deadlineOff,    \* orders that lost step with their delivery timer, and
    releaseOff      \* with their release job: a queue call failed or was lost,
                    \* or handlers of the order overlapped there

history == <<overtaken, deadlineOff, releaseOff>>
vars == <<order, deadlineJob, releaseJob, request, storage, history>>

NoTime == -1
Times == Nat \cup {NoTime}
Elapse_Below(t) == t - 1
Elapse(t) == IF t > 0 THEN t - 1 ELSE t

OrderStatuses ==
    {"NONE", "PENDING", "ASSIGNED", "IN_PROGRESS", "COMPLETED", "DISPUTED",
     "RESOLVED", "REFUNDED"}
DisputeStatuses ==
    {"NONE", "OPEN", "UNDER_REVIEW", "REDO_REQUESTED", "RESOLVED_FOR_CBT",
     "RESOLVED_FOR_REQUESTER"}
PenaltyStatuses == {"NONE", "PENDING", "SUCCESS", "REVERSED"}

(* extensions: the centers with a PENDING extension request; blocks: the   *)
(* CbtJobBlock rows; releases, refunds: ledger rows of that type, counted  *)
(* up to two ("two or more").                                              *)
OrderRows ==
    [status : OrderStatuses, cbt : Cbts \cup {NoCbt}, deadline : Times,
     result : Files \cup {NoFile}, window : Times, released : BOOLEAN,
     dispute : DisputeStatuses, penalty : PenaltyStatuses,
     extensions : SUBSET Cbts, blocks : SUBSET Cbts,
     releases : 0..2, refunds : 0..2]

NewOrder ==
    [status |-> "NONE", cbt |-> NoCbt, deadline |-> NoTime, result |-> NoFile,
     window |-> NoTime, released |-> FALSE, dispute |-> "NONE",
     penalty |-> "NONE", extensions |-> {}, blocks |-> {},
     releases |-> 0, refunds |-> 0]

OneMore(n) == IF n < 2 THEN n + 1 ELSE 2

(* step: what the handler does next; "commit" while it is between reading  *)
(* the order and writing it.  time, result and released are what it keeps  *)
(* of what it read or computed.                                            *)
ReviewKinds == {"UNDER_REVIEW", "RESOLVED_FOR_CBT", "REQUEST_REDO",
                "RESOLVED_FOR_REQUESTER"}
FollowUpKinds ==
    {"COMPLETE_MANUAL_REFUND", "EXECUTE_CBT_PENALTY", "WAIVE_CBT_PENALTY"}
CenterKinds ==
    {"CLAIM", "COMPLETE", "REASSIGN", "ASK_EXTENSION", "APPROVE", "REJECT"}
Kinds == CenterKinds \cup {"RETURN", "DISPUTE"} \cup ReviewKinds \cup FollowUpKinds
Steps == {"commit", "scheduleDeadline", "cancelDeadline", "scheduleRelease",
          "removeRelease"}
Idle == [step |-> "idle"]
Calls ==
    {call \in [step : Steps, kind : Kinds, order : Orders,
               cbt : Cbts \cup {NoCbt}, time : Times,
               result : Files \cup {NoFile}, released : BOOLEAN] :
        call.kind \in CenterKinds => call.cbt \in Cbts}

(* Rows, jobs and calls are well formed; no timer or date runs below zero. *)
TypeOK ==
    /\ order \in [Orders -> OrderRows]
    /\ deadlineJob \in [Orders -> Jobs]
    /\ releaseJob \in [Orders -> Jobs]
    /\ request \in [Requests -> Calls \cup {Idle}]
    /\ storage \subseteq Files
    /\ overtaken \subseteq Orders
    /\ deadlineOff \subseteq Orders
    /\ releaseOff \subseteq Orders

Init ==
    /\ order = [o \in Orders |-> NewOrder]
    /\ deadlineJob = [o \in Orders |-> NoJob]
    /\ releaseJob = [o \in Orders |-> NoJob]
    /\ request = [r \in Requests |-> Idle]
    /\ storage = {}
    /\ overtaken = {} /\ deadlineOff = {} /\ releaseOff = {}

-----------------------------------------------------------------------------
(* Handlers in flight.                                                     *)

Committing(r) == request[r].step = "commit"

(* Request r has written its order and still has queue calls to make.      *)
Queueing(r) == request[r] # Idle /\ ~Committing(r)

(* Request r starts: it has read the order and its checks have passed.     *)
Begin(r, call) ==
    /\ request[r] = Idle
    /\ request' = [request EXCEPT ![r] = call]

Call(kind, o, c) ==
    [step |-> "commit", kind |-> kind, order |-> o, cbt |-> c,
     time |-> NoTime, result |-> NoFile, released |-> FALSE]

(* The handler moves on to one of its Redis calls, or answers.             *)
Continue(r, step) == request' = [request EXCEPT ![r].step = step]
Answer(r) == request' = [request EXCEPT ![r] = Idle]

(* Request r is about to run the transaction of a handler of this kind.    *)
AtCommit(r, kind) == Committing(r) /\ request[r].kind = kind

Active(o) == order[o].status \in {"ASSIGNED", "IN_PROGRESS"}

-----------------------------------------------------------------------------
(* The trigger prevent_order_reassignment: an update may set or clear the  *)
(* assignee, never replace it by another.                                  *)
TriggerAllows_Any(old, new) == TRUE
TriggerAllows(old, new) == old = NoCbt \/ new = NoCbt \/ old = new

CreateOrder(o) ==
    /\ order[o].status = "NONE"
    /\ order' = [order EXCEPT ![o].status = "PENDING"]
    /\ UNCHANGED <<deadlineJob, releaseJob, request, storage, history>>

(* claimCbtJob: only the block is checked ahead; the claim itself is one   *)
(* conditional UPDATE, and the timer is armed after it.                    *)
BeginClaim(r, o, c) ==
    /\ order[o].status # "NONE"
    /\ c \notin order[o].blocks
    /\ Begin(r, Call("CLAIM", o, c))
    /\ UNCHANGED <<order, deadlineJob, releaseJob, storage, history>>

Assigned(row, c) ==
    [row EXCEPT !.status = "ASSIGNED", !.cbt = c, !.deadline = DeliveryWindow]

Claimable(o) == order[o].status = "PENDING" /\ order[o].cbt = NoCbt

CommitClaim(r) ==
    /\ AtCommit(r, "CLAIM")
    /\ LET o == request[r].order
       IN  IF Claimable(o)
           THEN /\ order' = [order EXCEPT ![o] = Assigned(@, request[r].cbt)]
                /\ request' = [request EXCEPT ![r].step = "scheduleDeadline",
                                              ![r].time = DeliveryWindow]
           ELSE /\ Answer(r)
                /\ UNCHANGED order
    /\ UNCHANGED <<deadlineJob, releaseJob, storage>>

StartCbtJob(o, c) ==
    /\ order[o].cbt = c
    /\ order[o].status = "ASSIGNED"
    /\ order' = [order EXCEPT ![o].status = "IN_PROGRESS"]
    /\ UNCHANGED <<deadlineJob, releaseJob, request, storage, history>>

(* Public ids some order or handler still refers to.                       *)
FilesInUse ==
    {order[o].result : o \in Orders}
        \cup {request[r].result : r \in {q \in Requests : request[q] # Idle}}

(* completeCbtJob uploads the result before its transaction.               *)
BeginComplete(r, o, c) ==
    /\ order[o].cbt = c
    /\ Active(o)
    /\ Files \ FilesInUse # {}
    /\ LET f == CHOOSE g \in Files \ FilesInUse : TRUE
       IN  /\ Begin(r, [Call("COMPLETE", o, c) EXCEPT !.time = DisputeWindow,
                                                      !.result = f])
           /\ storage' = (storage \cap FilesInUse) \cup {f}
    /\ UNCHANGED <<order, deadlineJob, releaseJob, history>>

(* The catch block of completeCbtJob deletes the file it has uploaded.     *)
WithoutUpload(r) ==
    IF request[r].kind = "COMPLETE" THEN storage \ {request[r].result}
                                    ELSE storage

CommitComplete(r) ==
    /\ AtCommit(r, "COMPLETE")
    /\ LET o == request[r].order
       IN  IF order[o].cbt = request[r].cbt /\ Active(o)
           THEN /\ order' = [order EXCEPT ![o].status = "COMPLETED",
                                          ![o].result = request[r].result,
                                          ![o].window = request[r].time]
                /\ Continue(r, "scheduleRelease")
                /\ UNCHANGED storage
           ELSE /\ storage' = WithoutUpload(r)
                /\ Answer(r)
                /\ UNCHANGED order
    /\ UNCHANGED <<deadlineJob, releaseJob>>

-----------------------------------------------------------------------------
(* Operations of the admins on the pool.                                   *)

InPool(row) ==
    [row EXCEPT !.status = "PENDING", !.cbt = NoCbt, !.deadline = NoTime]

Poolable_Delivered(o) ==
    order[o].status \in {"PENDING", "ASSIGNED", "IN_PROGRESS", "COMPLETED"}
Poolable(o) == order[o].status \in {"PENDING", "ASSIGNED", "IN_PROGRESS"}

BeginReturn(r, o) ==
    /\ Poolable(o)
    /\ Begin(r, Call("RETURN", o, NoCbt))
    /\ UNCHANGED <<order, deadlineJob, releaseJob, storage, history>>

CommitReturn(r) ==
    /\ AtCommit(r, "RETURN")
    /\ LET o == request[r].order
       IN  order' = [order EXCEPT ![o] = [InPool(@) EXCEPT !.blocks = {}]]
    /\ Continue(r, "cancelDeadline")
    /\ UNCHANGED <<deadlineJob, releaseJob, storage>>

BeginReassign(r, o, target) ==
    /\ Poolable(o)
    /\ order[o].cbt # target
    /\ Begin(r, Call("REASSIGN", o, target))
    /\ UNCHANGED <<order, deadlineJob, releaseJob, storage, history>>

HandedTo(row, c) == [Assigned(row, c) EXCEPT !.blocks = @ \ {c}]

CommitReassign(r) ==
    /\ AtCommit(r, "REASSIGN")
    /\ LET o == request[r].order
           target == request[r].cbt
       IN  IF TriggerAllows(order[o].cbt, target)
           THEN /\ order' = [order EXCEPT ![o] = HandedTo(@, target)]
                /\ request' = [request EXCEPT ![r].step = "cancelDeadline",
                                              ![r].time = DeliveryWindow]
           ELSE /\ Answer(r)
                /\ UNCHANGED order
    /\ UNCHANGED <<deadlineJob, releaseJob, storage>>

UnblockCbt(o, c) ==
    /\ order[o].blocks # {}
    /\ order' = [order EXCEPT ![o].blocks = @ \ {c}]
    /\ UNCHANGED <<deadlineJob, releaseJob, request, storage, history>>

UnblockAll(o) ==
    /\ order[o].blocks # {}
    /\ order' = [order EXCEPT ![o].blocks = {}]
    /\ UNCHANGED <<deadlineJob, releaseJob, request, storage, history>>

-----------------------------------------------------------------------------
(* Time extensions.                                                        *)

BeginAskExtension(r, o, c) ==
    /\ order[o].cbt = c
    /\ Active(o)
    /\ order[o].extensions = {}
    /\ Begin(r, Call("ASK_EXTENSION", o, c))
    /\ UNCHANGED <<order, deadlineJob, releaseJob, storage, history>>

CommitAskExtension(r) ==
    /\ AtCommit(r, "ASK_EXTENSION")
    /\ order' = [order EXCEPT ![request[r].order].extensions =
                                @ \cup {request[r].cbt}]
    /\ Answer(r)
    /\ UNCHANGED <<deadlineJob, releaseJob, storage>>

(* The later of the deadline and now, plus the extension.                  *)
ExtendedDeadline(o) ==
    (IF order[o].deadline > 0 THEN order[o].deadline ELSE 0) + Extension

(* reviewTimeExtension checks the request and that the order is active,    *)
(* not that the order is still with the center that asked.                 *)
BeginApprove(r, o, c) ==
    /\ c \in order[o].extensions
    /\ Active(o)
    /\ ExtendedDeadline(o) <= MaxDeadline
    /\ Begin(r, [Call("APPROVE", o, c) EXCEPT !.time = ExtendedDeadline(o)])
    /\ UNCHANGED <<order, deadlineJob, releaseJob, storage, history>>

CommitApprove_AddsOnly(r) ==
    /\ AtCommit(r, "APPROVE")
    /\ order' = [order EXCEPT ![request[r].order].deadline = request[r].time,
                              ![request[r].order].extensions =
                                @ \ {request[r].cbt}]
    /\ Continue(r, "scheduleDeadline")
    /\ UNCHANGED <<deadlineJob, releaseJob, storage>>
CommitApprove(r) ==
    /\ AtCommit(r, "APPROVE")
    /\ order' = [order EXCEPT ![request[r].order].deadline = request[r].time,
                              ![request[r].order].extensions =
                                @ \ {request[r].cbt}]
    /\ Continue(r, "cancelDeadline")
    /\ UNCHANGED <<deadlineJob, releaseJob, storage>>

BeginReject(r, o, c) ==
    /\ c \in order[o].extensions
    /\ Active(o)
    /\ Begin(r, Call("REJECT", o, c))
    /\ UNCHANGED <<order, deadlineJob, releaseJob, storage, history>>

CommitReject(r) ==
    /\ AtCommit(r, "REJECT")
    /\ LET o == request[r].order
           c == request[r].cbt
       IN  order' = [order EXCEPT ![o] =
                       [InPool(order[o]) EXCEPT !.blocks = @ \cup {c},
                                                !.extensions = @ \ {c}]]
    /\ Continue(r, "cancelDeadline")
    /\ UNCHANGED <<deadlineJob, releaseJob, storage>>

-----------------------------------------------------------------------------
(* Disputes.                                                               *)

Disputable(o) ==
    /\ order[o].cbt # NoCbt
    /\ order[o].status = "COMPLETED"
    /\ order[o].result # NoFile
    /\ ~order[o].released
    /\ order[o].dispute = "NONE"

BeginDispute(r, o) ==
    /\ Disputable(o)
    /\ order[o].window > 0
    /\ Begin(r, Call("DISPUTE", o, NoCbt))
    /\ UNCHANGED <<order, deadlineJob, releaseJob, storage, history>>

(* Dispute.orderId is unique: a second dispute fails its transaction.      *)
CommitDispute(r) ==
    /\ AtCommit(r, "DISPUTE")
    /\ LET o == request[r].order
       IN  IF order[o].dispute = "NONE"
           THEN /\ order' = [order EXCEPT ![o].dispute = "OPEN",
                                          ![o].status = "DISPUTED"]
                /\ Continue(r, "removeRelease")
           ELSE /\ Answer(r)
                /\ UNCHANGED order
    /\ UNCHANGED <<deadlineJob, releaseJob, storage>>

Undecided == {"OPEN", "UNDER_REVIEW", "REDO_REQUESTED"}

Reviewable_Reopens(o, action) ==
    order[o].dispute \notin {"NONE", "RESOLVED_FOR_REQUESTER"}
Reviewable_Undelivered(o, action) == order[o].dispute \in Undecided
Reviewable(o, action) ==
    CASE action = "UNDER_REVIEW" -> order[o].dispute = "OPEN"
      [] action = "REQUEST_REDO" ->
            /\ order[o].dispute \in {"OPEN", "UNDER_REVIEW"}
            /\ order[o].cbt # NoCbt
      [] action = "RESOLVED_FOR_CBT" ->
            /\ order[o].dispute \in Undecided
            /\ order[o].cbt # NoCbt
            /\ order[o].result # NoFile
            /\ order[o].status \in {"COMPLETED", "DISPUTED"}
      [] action = "RESOLVED_FOR_REQUESTER" ->
            order[o].dispute \in Undecided

(* reviewDispute keeps what it read: the transaction writes result and     *)
(* window back from that copy and refunds on its escrowReleasedAt.         *)
BeginReview(r, o, action) ==
    /\ Reviewable(o, action)
    /\ Begin(r, [Call(action, o, order[o].cbt) EXCEPT
                   !.time = order[o].window, !.result = order[o].result,
                   !.released = order[o].released])
    /\ UNCHANGED <<order, deadlineJob, releaseJob, storage, history>>

CommitUnderReview(r) ==
    /\ AtCommit(r, "UNDER_REVIEW")
    /\ LET o == request[r].order
       IN  order' = [order EXCEPT ![o].status = "DISPUTED",
                                  ![o].dispute = "UNDER_REVIEW",
                                  ![o].result = request[r].result,
                                  ![o].window = request[r].time]
    /\ Answer(r)
    /\ UNCHANGED <<deadlineJob, releaseJob, storage>>

CommitForCbt_NoJob(r) ==
    /\ AtCommit(r, "RESOLVED_FOR_CBT")
    /\ LET o == request[r].order
       IN  order' = [order EXCEPT ![o].status = "COMPLETED",
                                  ![o].dispute = "RESOLVED_FOR_CBT",
                                  ![o].result = request[r].result,
                                  ![o].window = request[r].time]
    /\ Answer(r)
    /\ UNCHANGED <<deadlineJob, releaseJob, storage>>
CommitForCbt(r) ==
    /\ AtCommit(r, "RESOLVED_FOR_CBT")
    /\ LET o == request[r].order
       IN  order' = [order EXCEPT ![o].status = "COMPLETED",
                                  ![o].dispute = "RESOLVED_FOR_CBT",
                                  ![o].result = request[r].result,
                                  ![o].window = request[r].time]
    /\ Continue(r, "scheduleRelease")
    /\ UNCHANGED <<deadlineJob, releaseJob, storage>>

CommitRedo(r) ==
    /\ AtCommit(r, "REQUEST_REDO")
    /\ LET o == request[r].order
       IN  order' = [order EXCEPT ![o].status = "IN_PROGRESS",
                                  ![o].dispute = "REDO_REQUESTED",
                                  ![o].result = NoFile,
                                  ![o].window = NoTime]
    /\ Continue(r, "removeRelease")
    /\ UNCHANGED <<deadlineJob, releaseJob, storage>>

(* The refund is paid out of escrow unless the copy says it was released;  *)
(* the order then waits in RESOLVED for a manual refund.                   *)
Upheld_Unpaid(row, released) ==
    [row EXCEPT !.dispute = "RESOLVED_FOR_REQUESTER", !.status = "RESOLVED",
                !.refunds = OneMore(@)]
Upheld(row, released) ==
    [row EXCEPT !.dispute = "RESOLVED_FOR_REQUESTER",
                !.status = IF released THEN "RESOLVED" ELSE "REFUNDED",
                !.refunds = IF released THEN @ ELSE OneMore(@)]

CommitForRequester(r, flagCbtPenalty) ==
    /\ AtCommit(r, "RESOLVED_FOR_REQUESTER")
    /\ flagCbtPenalty => request[r].cbt # NoCbt
    /\ LET o == request[r].order
       IN  order' = [order EXCEPT ![o] =
                       [Upheld(order[o], request[r].released) EXCEPT
                          !.result = request[r].result,
                          !.window = request[r].time,
                          !.penalty = IF flagCbtPenalty /\ @ = "NONE"
                                      THEN "PENDING" ELSE @]]
    /\ Continue(r, "removeRelease")
    /\ UNCHANGED <<deadlineJob, releaseJob, storage>>

(* reviewDisputeFinancialFollowUp checks the rows outside its transaction. *)
FollowsUp(o, action) ==
    /\ order[o].dispute = "RESOLVED_FOR_REQUESTER"
    /\ CASE action = "COMPLETE_MANUAL_REFUND" ->
              order[o].released /\ order[o].refunds = 0
         [] action # "COMPLETE_MANUAL_REFUND" ->
              order[o].penalty = "PENDING" /\ order[o].cbt # NoCbt

BeginFollowUp(r, o, action) ==
    /\ FollowsUp(o, action)
    /\ Begin(r, Call(action, o, NoCbt))
    /\ UNCHANGED <<order, deadlineJob, releaseJob, storage, history>>

CommitManualRefund(r) ==
    /\ AtCommit(r, "COMPLETE_MANUAL_REFUND")
    /\ order' = [order EXCEPT ![request[r].order].status = "REFUNDED",
                              ![request[r].order].refunds = OneMore(@)]
    /\ Answer(r)
    /\ UNCHANGED <<deadlineJob, releaseJob, storage>>

CommitPenalty(r) ==
    /\ AtCommit(r, "EXECUTE_CBT_PENALTY") \/ AtCommit(r, "WAIVE_CBT_PENALTY")
    /\ order' = [order EXCEPT ![request[r].order].penalty =
                   IF request[r].kind = "EXECUTE_CBT_PENALTY" THEN "SUCCESS"
                                                              ELSE "REVERSED"]
    /\ Answer(r)
    /\ UNCHANGED <<deadlineJob, releaseJob, storage>>

Transaction(r) ==
    \/ CommitClaim(r) \/ CommitComplete(r) \/ CommitReturn(r)
    \/ CommitReassign(r) \/ CommitAskExtension(r) \/ CommitApprove(r)
    \/ CommitReject(r) \/ CommitDispute(r) \/ CommitUnderReview(r)
    \/ CommitForCbt(r) \/ CommitRedo(r)
    \/ \E flag \in BOOLEAN : CommitForRequester(r, flag)
    \/ CommitManualRefund(r) \/ CommitPenalty(r)

(* Whether what r checked, and the copy it writes back, still fit the row: *)
(* the checks of the Begin actions again, where the transaction does not   *)
(* make them itself.                                                       *)
CopyFits(call, row) ==
    /\ call.cbt = row.cbt /\ call.time = row.window
    /\ call.result = row.result /\ call.released = row.released

StillFits(r) ==
    LET o == request[r].order
        kind == request[r].kind
    IN  /\ kind = "CLAIM" => request[r].cbt \notin order[o].blocks
        /\ kind \in {"RETURN", "REASSIGN"} => Poolable(o)
        /\ kind \in {"APPROVE", "REJECT"} =>
              request[r].cbt \in order[o].extensions /\ Active(o)
        /\ kind = "DISPUTE" => Disputable(o)
        /\ kind \in ReviewKinds =>
              Reviewable(o, kind) /\ CopyFits(request[r], order[o])
        /\ kind \in FollowUpKinds => FollowsUp(o, kind)

WithOrder(orders, o, joins) == IF joins THEN orders \cup {o} ELSE orders

(* A commit that took effect is recorded when what it rests on was         *)
(* overtaken, and when it fell between another handler's commit to the     *)
(* order and that handler's queue calls.                                   *)
Commit(r) ==
    /\ Transaction(r)
    /\ LET o == request[r].order
           effect == order' # order \/ request'[r] # Idle
           between == effect /\ \E q \in Requests \ {r} :
                                   Queueing(q) /\ request[q].order = o
       IN  /\ overtaken' = WithOrder(overtaken, o, effect /\ ~StillFits(r))
           /\ deadlineOff' = WithOrder(deadlineOff, o, between)
           /\ releaseOff' = WithOrder(releaseOff, o, between)

(* A transaction fails and changes nothing; an uploaded result is deleted. *)
AbortCommit(r) ==
    /\ DbFaults
    /\ Committing(r)
    /\ storage' = WithoutUpload(r)
    /\ Answer(r)
    /\ UNCHANGED <<order, deadlineJob, releaseJob, history>>

-----------------------------------------------------------------------------
(* Redis calls of the request handlers after their commit.                 *)

AtStep(r, step) == request[r].step = step

(* scheduleDeadline returns at once when the deadline has passed.          *)
ScheduleDeadline(r) ==
    /\ AtStep(r, "scheduleDeadline")
    /\ LET o == request[r].order
           time == request[r].time
           job == deadlineJob[o]
       IN  \/ /\ deadlineJob' = IF time > 0
                                THEN [deadlineJob EXCEPT ![o] = AddJob(@, time)]
                                ELSE deadlineJob
              /\ deadlineOff' =
                    WithOrder(deadlineOff, o, time <= 0 \/ Locked(job))
           \/ /\ RedisFaults
              /\ deadlineOff' = deadlineOff \cup {o}
              /\ UNCHANGED deadlineJob
    /\ Answer(r)
    /\ UNCHANGED <<order, releaseJob, storage, overtaken, releaseOff>>

CancelDeadline(r) ==
    /\ AtStep(r, "cancelDeadline")
    /\ CanRemoveJob(deadlineJob[request[r].order])
    /\ deadlineJob' = [deadlineJob EXCEPT ![request[r].order] = NoJob]
    /\ IF request[r].kind \in {"REASSIGN", "APPROVE"}
       THEN Continue(r, "scheduleDeadline") ELSE Answer(r)
    /\ UNCHANGED <<order, releaseJob, storage, history>>

(* The error reaches the caller: completeCbtJob's catch block then deletes *)
(* the file it uploaded, though its transaction has committed.             *)
CancelDeadlineThrows(r) ==
    /\ AtStep(r, "cancelDeadline")
    /\ RedisFaults \/ ~CanRemoveJob(deadlineJob[request[r].order])
    /\ storage' = WithoutUpload(r)
    /\ deadlineOff' = deadlineOff \cup {request[r].order}
    /\ Answer(r)
    /\ UNCHANGED <<order, deadlineJob, releaseJob, overtaken, releaseOff>>

(* Any dispute but one resolved for the center keeps the money in escrow.  *)
DisputeBlocksRelease(row) == row.dispute \notin {"NONE", "RESOLVED_FOR_CBT"}

Releasable_Again(row) ==
    row.status = "COMPLETED" /\ row.cbt # NoCbt /\ row.window # NoTime
        /\ ~DisputeBlocksRelease(row)
Releasable(row) ==
    /\ row.status = "COMPLETED"
    /\ row.cbt # NoCbt
    /\ row.window # NoTime
    /\ ~DisputeBlocksRelease(row)
    /\ ~row.released

WithReleaseJob(o, job) ==
    IF Releasable(order[o]) THEN AddJob(job, order[o].window) ELSE job

(* Its errors are swallowed by every caller.                               *)
ScheduleRelease(r) ==
    /\ AtStep(r, "scheduleRelease")
    /\ LET o == request[r].order
       IN  \/ /\ releaseJob' = [releaseJob EXCEPT ![o] = WithReleaseJob(o, @)]
              /\ releaseOff' = WithOrder(releaseOff, o,
                                  Releasable(order[o]) /\ Locked(releaseJob[o]))
           \/ /\ RedisFaults
              /\ releaseOff' = releaseOff \cup {o}
              /\ UNCHANGED releaseJob
    /\ IF request[r].kind = "COMPLETE"
       THEN Continue(r, "cancelDeadline") ELSE Answer(r)
    /\ UNCHANGED <<order, deadlineJob, storage, overtaken, deadlineOff>>

RemoveRelease(r) ==
    /\ AtStep(r, "removeRelease")
    /\ LET o == request[r].order
       IN  \/ /\ CanRemoveJob(releaseJob[o])
              /\ releaseJob' = [releaseJob EXCEPT ![o] = NoJob]
              /\ UNCHANGED releaseOff
           \/ /\ RedisFaults \/ ~CanRemoveJob(releaseJob[o])
              /\ releaseOff' = releaseOff \cup {o}
              /\ UNCHANGED releaseJob
    /\ Answer(r)
    /\ UNCHANGED <<order, deadlineJob, storage, overtaken, deadlineOff>>

-----------------------------------------------------------------------------
(* The delivery-deadline worker: it reads status and assignee, then        *)
(* returns the order to the pool by id.  Only when the handler has         *)
(* returned does Bull end the job; removeOnComplete and removeOnFail free  *)
(* its id.                                                                 *)

DeadlineJobReads(o) ==
    /\ JobDue(deadlineJob[o])
    /\ deadlineJob' = [deadlineJob EXCEPT ![o] =
                         IF Active(o) /\ order[o].cbt # NoCbt
                         THEN StartJob(@) ELSE FinishJob(@)]
    /\ UNCHANGED <<order, releaseJob, request, storage, history>>

DeadlineJobCommits(o) ==
    /\ deadlineJob[o].state = "active"
    /\ order' = [order EXCEPT ![o] = InPool(@)]
    /\ deadlineJob' = [deadlineJob EXCEPT ![o] = FinishJob(@)]
    /\ overtaken' = WithOrder(overtaken, o, ~(Active(o) /\ order[o].cbt # NoCbt))
    /\ deadlineOff' = WithOrder(deadlineOff, o,
                         \E r \in Requests : Queueing(r) /\ request[r].order = o)
    /\ UNCHANGED <<releaseJob, request, storage, releaseOff>>

DeadlineJobEnds(o) ==
    /\ deadlineJob[o].state = "done"
    /\ deadlineJob' = [deadlineJob EXCEPT ![o] = NoJob]
    /\ UNCHANGED <<order, releaseJob, request, storage, history>>

DeadlineJobFails(o) ==
    /\ DbFaults
    /\ deadlineJob[o].state = "active"
    /\ deadlineJob' = [deadlineJob EXCEPT ![o] = NoJob]
    /\ deadlineOff' = deadlineOff \cup {o}
    /\ UNCHANGED <<order, releaseJob, request, storage, overtaken, releaseOff>>

(* The release worker: a blocked order, or one already paid, is skipped;   *)
(* otherwise its transaction pays out on what it read.                     *)
ReleaseJobReads(o) ==
    /\ JobDue(releaseJob[o])
    /\ releaseJob' = [releaseJob EXCEPT ![o] =
                        IF Releasable(order[o]) /\ order[o].window = 0
                        THEN StartJob(@) ELSE FinishJob(@)]
    /\ UNCHANGED <<order, deadlineJob, request, storage, history>>

ReleaseJobCommits(o) ==
    /\ releaseJob[o].state = "active"
    /\ order' = [order EXCEPT ![o].released = TRUE,
                              ![o].releases = OneMore(@)]
    /\ releaseJob' = [releaseJob EXCEPT ![o] = FinishJob(@)]
    /\ overtaken' = WithOrder(overtaken, o,
                         ~(Releasable(order[o]) /\ order[o].window = 0))
    /\ UNCHANGED <<deadlineJob, request, storage, deadlineOff, releaseOff>>

ReleaseJobEnds(o) ==
    /\ releaseJob[o].state = "done"
    /\ releaseJob' = [releaseJob EXCEPT ![o] = CompleteJob(@)]
    /\ UNCHANGED <<order, deadlineJob, request, storage, history>>

(* A wallet is missing, escrow is short, or the transaction fails.         *)
ReleaseJobFails(o) ==
    /\ DbFaults
    /\ releaseJob[o].state = "active"
    /\ releaseJob' = [releaseJob EXCEPT ![o] = FailJob(@, ReleaseAttempts)]
    /\ releaseOff' = WithOrder(releaseOff, o, releaseJob'[o].state = "failed")
    /\ UNCHANGED <<order, deadlineJob, request, storage, overtaken, deadlineOff>>

(* Finished jobs beyond the last 50 completed and 100 failed are dropped.  *)
ReleaseJobEvicted(o) ==
    /\ releaseJob[o].state \in {"completed", "failed"}
    /\ releaseJob' = [releaseJob EXCEPT ![o] = NoJob]
    /\ UNCHANGED <<order, deadlineJob, request, storage, history>>

(* Bull finds a job stalled whose handler has returned and runs it again.  *)
DeadlineJobStalls(o) ==
    /\ deadlineJob[o].state = "done"
    /\ deadlineJob' = [deadlineJob EXCEPT ![o] = RecoverJob(@)]
    /\ deadlineOff' = deadlineOff \cup {o}
    /\ UNCHANGED <<order, releaseJob, request, storage, overtaken, releaseOff>>

ReleaseJobStalls(o) ==
    /\ releaseJob[o].state = "done"
    /\ releaseJob' = [releaseJob EXCEPT ![o] = RecoverJob(@)]
    /\ UNCHANGED <<order, deadlineJob, request, storage, history>>

-----------------------------------------------------------------------------
(* Start-up.  Requests in flight are gone; jobs their dead worker held     *)
(* become due again; the two queue services re-create missing timers from  *)
(* the order rows, unless Redis is unreachable.                            *)

WithDeadlineJob(o, job) ==
    IF Active(o) /\ order[o].cbt # NoCbt /\ order[o].deadline # NoTime
    THEN AddJob(job, order[o].deadline)
    ELSE job

RecoveredDeadline_Cold(o, warm) == RecoverJob(deadlineJob[o])
RecoveredDeadline(o, warm) ==
    LET job == RecoverJob(deadlineJob[o])
    IN  IF warm THEN WithDeadlineJob(o, job) ELSE job

RecoveredRelease_Cold(o, warm) == RecoverJob(releaseJob[o])
RecoveredRelease(o, warm) ==
    LET job == RecoverJob(releaseJob[o])
    IN  IF warm THEN WithReleaseJob(o, job) ELSE job

(* A job the start-up puts back is not lost; one that a handler was still  *)
(* to remove is left, and so is one whose work was done.                   *)
LeavesDeadline(r, warm) ==
    \/ request[r].step = "cancelDeadline"
    \/ request[r].step = "scheduleRelease" /\ request[r].kind = "COMPLETE"
    \/ request[r].step = "scheduleDeadline" /\ ~warm

LeavesRelease(r, warm) ==
    \/ request[r].step = "removeRelease"
    \/ request[r].step = "scheduleRelease" /\ ~warm

Restart(warm) ==
    /\ RedisFaults \/ warm
    /\ deadlineJob' = [o \in Orders |-> RecoveredDeadline(o, warm)]
    /\ releaseJob' = [o \in Orders |-> RecoveredRelease(o, warm)]
    /\ request' = [r \in Requests |-> Idle]
    /\ deadlineOff' = deadlineOff
         \cup {o \in Orders : deadlineJob[o].state = "done"}
         \cup {o \in Orders : \E r \in Requests :
                  LeavesDeadline(r, warm) /\ request[r].order = o}
    /\ releaseOff' = releaseOff
         \cup {o \in Orders : \E r \in Requests :
                  LeavesRelease(r, warm) /\ request[r].order = o}
    /\ UNCHANGED <<order, storage, overtaken>>

(* Time passes for every date that still lies ahead.                       *)
Tick ==
    /\ order' = [o \in Orders |->
         [order[o] EXCEPT !.deadline = Elapse(@), !.window = Elapse(@)]]
    /\ deadlineJob' = [o \in Orders |-> JobTick(deadlineJob[o])]
    /\ releaseJob' = [o \in Orders |-> JobTick(releaseJob[o])]
    /\ request' = [r \in Requests |->
         IF request[r] = Idle THEN Idle
                              ELSE [request[r] EXCEPT !.time = Elapse(@)]]
    /\ UNCHANGED <<storage, history>>

-----------------------------------------------------------------------------
UserActs ==
    \/ \E o \in Orders : CreateOrder(o) \/ UnblockAll(o)
    \/ \E o \in Orders, c \in Cbts : StartCbtJob(o, c) \/ UnblockCbt(o, c)
    \/ \E r \in Requests, o \in Orders :
          \/ BeginReturn(r, o) \/ BeginDispute(r, o)
          \/ \E action \in ReviewKinds : BeginReview(r, o, action)
          \/ \E action \in FollowUpKinds : BeginFollowUp(r, o, action)
    \/ \E r \in Requests, o \in Orders, c \in Cbts :
          \/ BeginClaim(r, o, c) \/ BeginComplete(r, o, c)
          \/ BeginReassign(r, o, c) \/ BeginAskExtension(r, o, c)
          \/ BeginApprove(r, o, c) \/ BeginReject(r, o, c)

QueueCall(r) ==
    \/ ScheduleDeadline(r) \/ CancelDeadline(r) \/ CancelDeadlineThrows(r)
    \/ ScheduleRelease(r) \/ RemoveRelease(r)

Worker(o) ==
    \/ DeadlineJobReads(o) \/ DeadlineJobCommits(o) \/ DeadlineJobEnds(o)
    \/ ReleaseJobReads(o) \/ ReleaseJobCommits(o) \/ ReleaseJobEnds(o)

Failures ==
    \/ \E r \in Requests : AbortCommit(r)
    \/ \E o \in Orders : DeadlineJobFails(o) \/ ReleaseJobFails(o)
    \/ \E o \in Orders :
          ReleaseJobEvicted(o) \/ DeadlineJobStalls(o) \/ ReleaseJobStalls(o)
    \/ \E warm \in BOOLEAN : Restart(warm)

Next ==
    \/ UserActs
    \/ \E r \in Requests : Commit(r) \/ QueueCall(r)
    \/ \E o \in Orders : Worker(o)
    \/ Failures
    \/ Tick

Spec == Init /\ [][Next]_vars

(* The event loop runs every handler it has started, Bull runs every job   *)
(* that is due, and time passes.  Users and admins need do nothing.  The   *)
(* workers and the clock get strong fairness: a restart can undo a read    *)
(* and requests can come in between, but none of them goes on for ever.    *)
FairSpec ==
    /\ Spec
    /\ SF_vars(Tick)
    /\ \A r \in Requests : WF_vars(Commit(r)) /\ WF_vars(QueueCall(r))
    /\ \A o \in Orders :
          /\ SF_vars(DeadlineJobReads(o)) /\ SF_vars(DeadlineJobCommits(o))
          /\ SF_vars(DeadlineJobEnds(o)) /\ SF_vars(ReleaseJobEnds(o))
          /\ SF_vars(ReleaseJobReads(o)) /\ SF_vars(ReleaseJobCommits(o))

-----------------------------------------------------------------------------
(* Safety, with every handler, worker, restart and failure in any order.   *)

(* Nobody's order is handed from one center to another in one step: a      *)
(* center keeps a claimed job until it is taken back to the pool ("first   *)
(* write wins").  Conditional claim, trigger, and every handler that       *)
(* writes the assignee; two claims, or a claim and a reassignment, race.   *)
AssigneeNeverSwapped ==
    [][\A o \in Orders :
          order[o].cbt # NoCbt => order'[o].cbt \in {NoCbt, order[o].cbt}]_vars

(* What reassignJob says of itself: it "works at any time, including       *)
(* before the current delivery window expires", and the order ends with    *)
(* the center the admin chose.                                             *)
ReassignsAtAnyTime ==
    [][\A r \in Requests :
          CommitReassign(r) =>
             order'[request[r].order].cbt = request[r].cbt]_vars

(* Escrow of an order is paid out to the center at most once, whatever     *)
(* races, retries and restarts do to its release job: a job that paid and  *)
(* is run again, because its worker died or was found stalled before Bull  *)
(* noted its end, pays nothing more.                                       *)
ReleasedAtMostOnce == \A o \in Orders : order[o].releases <= 1

(* The money of an order leaves escrow once, to the center or back to the  *)
(* requester, by whichever handlers, and the row agrees with the ledger    *)
(* and the dispute: released money means a completed order without a       *)
(* standing dispute, REFUNDED means the dispute was decided for the        *)
(* requester and the refund was booked.  Said of every order that no       *)
(* handler has written on a check that was overtaken.                      *)
SettlementAgrees ==
    \A o \in Orders \ overtaken :
        /\ order[o].releases + order[o].refunds <= 1
        /\ order[o].released <=> order[o].releases > 0
        /\ order[o].released => /\ order[o].status = "COMPLETED"
                                /\ order[o].window = 0
                                /\ order[o].dispute \in {"NONE", "RESOLVED_FOR_CBT"}
        /\ (order[o].status = "REFUNDED") <=> order[o].refunds > 0
        /\ order[o].refunds > 0 <=> order[o].dispute = "RESOLVED_FOR_REQUESTER"

(* Who holds the job, barred centers excluded, and what he delivered fit   *)
(* the status, after any mix of claims, returns, rejections, missed        *)
(* deadlines and redos, as long as no check was overtaken.                 *)
AssignmentAgrees ==
    \A o \in Orders \ overtaken :
        /\ order[o].status \in {"NONE", "PENDING"} =>
              order[o].cbt = NoCbt /\ order[o].deadline = NoTime
        /\ Active(o) => order[o].cbt # NoCbt /\ order[o].deadline # NoTime
        /\ order[o].status \in {"COMPLETED", "DISPUTED"} =>
              /\ order[o].cbt # NoCbt
              /\ order[o].result # NoFile
              /\ order[o].window # NoTime
        /\ order[o].cbt \notin order[o].blocks

(* A delivered order leaves COMPLETED only through its dispute: neither a  *)
(* missed deadline nor an admin puts it back into the pool, but for a      *)
(* commit whose check was overtaken.                                       *)
CompletedOnlyDisputed ==
    [][\A o \in Orders \ overtaken' :
          order[o].status = "COMPLETED" /\ order'[o].status # "COMPLETED" =>
             order'[o].dispute # order[o].dispute]_vars

(* The escrow the order rows stand for.                                    *)
EscrowOf(row) ==
    CASE row.status = "NONE" -> "none"
      [] row.refunds > 0 -> "refunded"
      [] row.refunds = 0 /\ row.releases > 0 -> "released"
      [] OTHER -> "held"

ClaimOf(row) ==
    CASE row.dispute = "NONE" -> "none"
      [] row.dispute = "RESOLVED_FOR_CBT" -> "rejected"
      [] row.dispute = "RESOLVED_FOR_REQUESTER" -> "upheld"
      [] OTHER -> "standing"

Escrow ==
    [o \in Orders |-> IF o \in overtaken THEN "overtaken" ELSE EscrowOf(order[o])]
Claim ==
    [o \in Orders |-> IF o \in overtaken THEN "overtaken" ELSE ClaimOf(order[o])]

Hold == INSTANCE EscrowHold WITH escrow <- Escrow, claim <- Claim

(* The handlers implement the promise of EscrowHold, until a commit to the *)
(* order rests on a check that was overtaken.                              *)
HoldsEscrow == Hold!Spec

-----------------------------------------------------------------------------
(* Timers.                                                                 *)

(* No handler is between its commit to the order and its queue calls.      *)
Quiet(o) == \A r \in Requests : Queueing(r) => request[r].order # o

(* A center that holds an undisputed job has a timer that fires exactly    *)
(* when the deadline in the row passes, and an order nobody works on has   *)
(* none that could fire on whoever claims it next: claims, returns,        *)
(* reassignments and extensions leave no old timer.  Exempt are the orders *)
(* of deadlineOff (a call on the timer failed, found the job locked or its *)
(* deadline past, or was cut off by a restart; another handler or the      *)
(* worker committed before the call; the job failed or stalled) and of     *)
(* overtaken.                                                              *)
TimerFollowsDeadline ==
    \A o \in Orders \ (overtaken \cup deadlineOff) : Quiet(o) =>
        /\ Active(o) /\ order[o].dispute = "NONE" =>
              /\ deadlineJob[o].state \in {"delayed", "active"}
              /\ deadlineJob[o].timer = order[o].deadline
        /\ order[o].status = "PENDING" => deadlineJob[o].state \in {"none", "done"}
        /\ order[o].status = "COMPLETED" => deadlineJob[o].state = "none"

(* Escrow that may be released has a job that will release it.  Exempt are *)
(* the orders of releaseOff (a call on the job failed, found the job       *)
(* locked, or was cut off by a restart; another handler committed before   *)
(* the call; the last attempt failed) and of overtaken.                    *)
ReleaseIsQueued ==
    \A o \in Orders \ (overtaken \cup releaseOff) :
        Releasable(order[o]) /\ Quiet(o) =>
            releaseJob[o].state \in {"delayed", "active"}

-----------------------------------------------------------------------------
(* Liveness.                                                               *)

(* A delivered order nobody disputes is paid out in the end; the client    *)
(* never asks for it, the queue and the recovery on startup see to it.     *)
(* Exempt are the orders of releaseOff and overtaken.                      *)
UndisputedIsReleased ==
    \A o \in Orders :
        order[o].status = "COMPLETED" /\ order[o].dispute = "NONE" ~>
            \/ order[o].released \/ order[o].dispute # "NONE"
            \/ o \in overtaken \cup releaseOff

(* No center sits on an undisputed job for ever: it delivers, or the order *)
(* goes back to the pool, unless its admin keeps extending the deadline.   *)
(* Exempt are the orders of deadlineOff and overtaken.                     *)
Extended(o) == order'[o].deadline > order[o].deadline
JobNotHeldForEver ==
    \A o \in Orders :
        \/ []<><<Extended(o)>>_vars
        \/ Active(o) /\ order[o].dispute = "NONE" ~>
               ~Active(o) \/ o \in overtaken \cup deadlineOff
=============================================================================
