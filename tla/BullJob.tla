------------------------------- MODULE BullJob -------------------------------
(***************************************************************************)
(* One Bull job id in Redis, as the two order queues use it.  Bull is a    *)
(* library outside the repository: the operators say what its calls do to  *)
(* the one job an order can have in a queue (jobId is built from the order *)
(* id), seen from orders-release-queue.service.ts and                      *)
(* orders-deadline-queue.service.ts.                                       *)
(***************************************************************************)
EXTENDS Naturals

(* done: the handler has returned and Bull has not yet moved the job on.   *)
JobStates == {"none", "delayed", "active", "done", "completed", "failed"}

(* timer: time left until the delayed job is due; tries: failed attempts.  *)
Jobs == [state : JobStates, timer : Nat, tries : Nat]

NoJob == [state |-> "none", timer |-> 0, tries |-> 0]

(* queue.add with a jobId that Redis still holds, in any state, does       *)
(* nothing: a completed or failed job that is retained keeps its id taken. *)
AddJob(job, delay) ==
    IF job.state = "none"
    THEN [state |-> "delayed", timer |-> delay, tries |-> 0]
    ELSE job

(* job.remove() throws for a job a worker holds the lock of.               *)
Locked(job) == job.state \in {"active", "done"}
CanRemoveJob(job) == ~Locked(job)

JobDue(job) == job.state = "delayed" /\ job.timer = 0

StartJob(job) == [job EXCEPT !.state = "active"]

FinishJob(job) == [job EXCEPT !.state = "done"]

(* removeOnComplete: a number keeps the job among the last completed ones. *)
CompleteJob(job) == [job EXCEPT !.state = "completed"]

(* A failed attempt is retried until the attempts run out; the backoff is  *)
(* seconds against timers of hours, so the retry is due at once.           *)
FailJob(job, attempts) ==
    IF job.tries + 1 < attempts
    THEN [state |-> "delayed", timer |-> 0, tries |-> job.tries + 1]
    ELSE [job EXCEPT !.state = "failed"]

(* A job whose worker died, or lost its lock, is found stalled and made    *)
(* due again, whatever its handler has done by then.                       *)
RecoverJob(job) ==
    IF Locked(job) THEN [job EXCEPT !.state = "delayed", !.timer = 0] ELSE job

JobTick(job) ==
    IF job.state = "delayed" /\ job.timer > 0
    THEN [job EXCEPT !.timer = @ - 1]
    ELSE job
==============================================================================
