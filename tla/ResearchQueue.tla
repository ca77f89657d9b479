--------------------------- MODULE ResearchQueue ---------------------------
(***************************************************************************)
(* Experiments queued as rows of research_jobs and run by the one worker   *)
(* of the service (research/jobs.py).                                      *)
(*                                                                         *)
(* The row is all that survives the process, which may be stopped at any   *)
(* point.  Every call of the storage may fail, and a write that failed for *)
(* the worker may have been applied all the same.                          *)
(***************************************************************************)
EXTENDS Integers, FiniteSets

CONSTANTS
    QueueLength,    \* bound on the jobs; they are named by the order of created_at
    MaxAttempts     \* MAX_ATTEMPTS

ASSUME QueueAssumption == QueueLength \in Nat /\ MaxAttempts \in Nat \ {0}

JobIds == 1..QueueLength
NoJob == 0

VARIABLES
    row,        \* job -> its row; `stale` if claimed longer ago than STALE_CLAIM_SECONDS
    worker,     \* what the worker is doing, the job it holds and the attempts it read
    starts,     \* job -> how often its handler was started
    completed   \* jobs whose handler has returned a result

vars == <<row, worker, starts, completed>>

Row(status, attempts) == [status |-> status, attempts |-> attempts, stale |-> FALSE]
Worker(at, j, attempts) == [at |-> at, job |-> j, attempts |-> attempts]
Doing(at) == [worker EXCEPT !.at = at]
Idle == Worker("idle", NoJob, 0)

Ended(j) == row[j].status \in {"done", "failed"}

\* Faulty variants: a claim that used the last attempt is left alone; a failed
\* job is taken as one still to do.
StaleWithAttemptsLeft ==
    {j \in JobIds : row[j].status = "running" /\ row[j].stale /\ row[j].attempts < MaxAttempts}
PendingOrFailed == {j \in JobIds : row[j].status \in {"pending", "failed"}}

Stale == {j \in JobIds : row[j].status = "running" /\ row[j].stale}
Pending == {j \in JobIds : row[j].status = "pending"}

Init ==
    /\ row = [j \in JobIds |-> Row("absent", 0)]
    /\ worker = Idle
    /\ starts = [j \in JobIds |-> 0] /\ completed = {}
-----------------------------------------------------------------------------
(* The outside: experiments are queued, time passes, the process stops.    *)

Enqueue(j) ==
    /\ row[j].status = "absent" /\ (j > 1 => row[j - 1].status # "absent")
    /\ row' = [row EXCEPT ![j] = Row("pending", 0)]
    /\ UNCHANGED <<worker, starts, completed>>

\* STALE_CLAIM_SECONDS pass, which a long job may also take.
ClaimAges(j) ==
    /\ row[j].status = "running" /\ ~row[j].stale
    /\ row' = [row EXCEPT ![j].stale = TRUE]
    /\ UNCHANGED <<worker, starts, completed>>

\* The service is stopped, or the job exhausts its memory.
Crash ==
    /\ worker.at # "stopped"
    /\ worker' = Worker("stopped", NoJob, 0)
    /\ UNCHANGED <<row, starts, completed>>

Restart ==
    /\ worker.at = "stopped"
    /\ worker' = Idle
    /\ UNCHANGED <<row, starts, completed>>
-----------------------------------------------------------------------------
(* The worker (_run).                                                      *)

\* A write of the row of j: it is applied or not, and the worker goes on to
\* `answered` if the storage confirms it and to `otherwise` if not.
Write(j, new, answered, otherwise) ==
    \/ row' = [row EXCEPT ![j] = new] /\ worker' \in {answered, otherwise}
    \/ UNCHANGED row /\ worker' = otherwise

Poll ==
    /\ worker.at = "idle"
    /\ worker' = Doing("reclaiming")
    /\ UNCHANGED <<row, starts, completed>>

\* Faulty variant: a reclaimed job starts over.
ReclaimAfresh(some) ==
    /\ worker.at = "reclaiming"
    /\ row' = [j \in JobIds |-> IF j \in some THEN Row("pending", 0) ELSE row[j]]
    /\ worker' = Doing("selecting")
    /\ UNCHANGED <<starts, completed>>

\* _reclaim_stale: those of the stale claims whose write succeeds go back to
\* the queue with the attempts they have used.
Reclaim(some) ==
    /\ worker.at = "reclaiming"
    /\ row' = [j \in JobIds |-> IF j \in some THEN Row("pending", row[j].attempts) ELSE row[j]]
    /\ worker' = Doing("selecting")
    /\ UNCHANGED <<starts, completed>>

\* claim_next reads the oldest pending job.
Select ==
    /\ worker.at = "selecting"
    /\ \/ Pending = {} /\ worker' = Idle
       \/ \E j \in Pending :
             /\ \A k \in Pending : j <= k
             /\ worker' = Worker("claiming", j, row[j].attempts)
    /\ UNCHANGED <<row, starts, completed>>

CannotSelect ==
    /\ worker.at = "selecting"
    /\ worker' = Idle
    /\ UNCHANGED <<row, starts, completed>>

\* claim_next gives a job up that has used its attempts.
GiveUp ==
    /\ worker.at = "claiming" /\ worker.attempts >= MaxAttempts
    /\ Write(worker.job, Row("failed", worker.attempts), Idle, Idle)
    /\ UNCHANGED <<starts, completed>>

\* claim_next counts the attempt before the handler starts.
Claim ==
    /\ worker.at = "claiming" /\ worker.attempts < MaxAttempts
    /\ Write(worker.job, Row("running", worker.attempts + 1), Doing("running"), Idle)
    /\ starts' = IF worker'.at = "running" THEN [starts EXCEPT ![worker.job] = @ + 1] ELSE starts
    /\ UNCHANGED completed

\* The handler returns or raises.  It ends: a job reads a bounded number of
\* frames and waits a bounded time for a quiet feed before each page.
HandlerEnds ==
    /\ worker.at = "running"
    /\ \/ worker' = Doing("finishing") /\ completed' = completed \cup {worker.job}
       \/ worker' = Doing("failing") /\ UNCHANGED completed
    /\ UNCHANGED <<row, starts>>

\* finish; a write that is not confirmed counts as a failure of the job.
Finish ==
    /\ worker.at = "finishing"
    /\ Write(worker.job, Row("done", worker.attempts + 1), Idle, Doing("failing"))
    /\ UNCHANGED <<starts, completed>>

Fail ==
    /\ worker.at = "failing"
    /\ Write(worker.job, Row("failed", worker.attempts + 1), Idle, Idle)
    /\ UNCHANGED <<starts, completed>>

Work ==
    \/ Poll \/ (\E some \in SUBSET Stale : Reclaim(some)) \/ Select \/ CannotSelect
    \/ GiveUp \/ Claim \/ HandlerEnds \/ Finish \/ Fail

Next ==
    \/ \E j \in JobIds : Enqueue(j) \/ ClaimAges(j)
    \/ Crash \/ Restart \/ Work

\* The host restarts the service and the worker keeps polling.  The storage is
\* not down, nor the service stopped, at the same call for ever.
Fairness ==
    /\ WF_vars(Restart) /\ WF_vars(Work)
    /\ \A j \in JobIds : WF_vars(ClaimAges(j))
    /\ SF_vars(Poll) /\ SF_vars(Reclaim(Stale)) /\ SF_vars(Select)
    /\ \A j \in JobIds : SF_vars((GiveUp \/ Claim) /\ row'[j] # row[j])

Spec == Init /\ [][Next]_vars /\ Fairness
-----------------------------------------------------------------------------
(* Properties.                                                             *)

Rows == [status : {"absent", "pending", "running", "done", "failed"},
         attempts : 0..MaxAttempts, stale : BOOLEAN]
Workers == [at : {"stopped", "idle", "reclaiming", "selecting", "claiming", "running",
                  "finishing", "failing"},
            job : JobIds \cup {NoJob}, attempts : 0..MaxAttempts]

\* Every variable keeps its type, and the worker holds a job while it is at one.
TypeOK ==
    /\ row \in [JobIds -> Rows] /\ worker \in Workers
    /\ worker.at \in {"claiming", "running", "finishing", "failing"} => worker.job \in JobIds
    /\ starts \in [JobIds -> Nat] /\ completed \subseteq JobIds

\* However often the process dies in a job or the storage loses an answer, the
\* job's handler is started at most MAX_ATTEMPTS times, and its row knows of
\* every start (claim_next, _reclaim_stale).
StartsBounded ==
    \A j \in JobIds : starts[j] <= row[j].attempts /\ row[j].attempts <= MaxAttempts

\* An ended job is changed by nobody but the worker that ran it, reporting a
\* failure to write its result; and it holds a result only if there was one.
EndedStaysEnded ==
    [][\A j \in JobIds :
          /\ Ended(j) /\ row'[j] # row[j] => worker.at = "failing" /\ worker.job = j
          /\ row'[j].status = "done" => j \in completed]_vars

\* No job stays in the queue: a claim left behind by a dead process, or by an
\* answer that was lost, is reclaimed, and what kills the process is given up.
EveryJobEnds == \A j \in JobIds : row[j].status # "absent" ~> Ended(j)
=============================================================================
