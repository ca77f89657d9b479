--------------------------- MODULE ResearchProofs ---------------------------
(***************************************************************************)
(* What holds of the queue for any number of jobs and attempts, and of a   *)
(* runner and its simulator for every market, strategy, delay and limit:   *)
(* the simulator implements OrderLifecycle, a fill is booked once, and     *)
(* entries are sent on good data only.                                     *)
(*                                                                         *)
(* What the worker of the queue holds in memory and what the row says are  *)
(* written at different times; QueueInv says how they are related at each  *)
(* point.  OrderOk and DeskOk are the inductive invariants of an order and *)
(* of the desk.                                                            *)
(***************************************************************************)
EXTENDS Research, TLAPS
-----------------------------------------------------------------------------
(* The queue.                                                              *)

AtWork == {"claiming", "running", "finishing", "failing"}

\* Nobody but the worker writes the row of the job it is claiming or running.
WorkerKnowsRow ==
    LET r == row[worker.job] IN
    /\ worker.at = "claiming" => r.status = "pending" /\ r.attempts = worker.attempts
    /\ worker.at \in {"running", "finishing", "failing"} =>
          /\ r.status \in {"running", "done"}
          /\ r.status = "done" => worker.at = "failing"
          /\ r.attempts = worker.attempts + 1
    /\ worker.at = "finishing" => worker.job \in completed

\* A result is only recorded of a handler that returned; a job that is not
\* queued yet has not been tried.
RowsAreSound ==
    \A j \in JobIds :
        /\ row[j].status = "done" => j \in completed
        /\ row[j].status = "absent" => row[j].attempts = 0

QueueInv == TypeOK /\ StartsBounded /\ WorkerKnowsRow /\ RowsAreSound

LEMMA NoJobIsNone == NoJob \notin JobIds
BY QueueAssumption DEF NoJob, JobIds

LEMMA QueueStarts == Init => QueueInv
BY QueueAssumption, NoJobIsNone
   DEF Init, QueueInv, TypeOK, Rows, Workers, StartsBounded, WorkerKnowsRow, RowsAreSound, Row,
       Idle, Worker

LEMMA RowType ==
    ASSUME NEW status \in {"pending", "running", "done", "failed"},
           NEW attempts \in 0..MaxAttempts
    PROVE  /\ Row(status, attempts) \in Rows
           /\ Row(status, attempts).status = status
           /\ Row(status, attempts).attempts = attempts
<1> DEFINE r == [status |-> status, attempts |-> attempts, stale |-> FALSE]
<1>1. r.status = status /\ r.attempts = attempts
  OBVIOUS
<1>2. r \in Rows
  BY DEF Rows
<1> QED
  BY <1>1, <1>2 DEF Row

LEMMA WorkerType ==
    /\ Idle \in Workers /\ Idle.at = "idle"
    /\ \A at \in {"stopped", "idle", "reclaiming", "selecting"} \cup AtWork :
          worker \in Workers => /\ Doing(at) \in Workers /\ Doing(at).at = at
                                /\ Doing(at).job = worker.job
                                /\ Doing(at).attempts = worker.attempts
BY QueueAssumption DEF Idle, Worker, Workers, Doing, AtWork

\* A step after which the worker has no job in hand and the rows are as before.
LEMMA HandsFree ==
    ASSUME QueueInv, UNCHANGED <<row, starts, completed>>, worker' \in Workers,
           worker'.at \notin AtWork
    PROVE  QueueInv'
BY DEF QueueInv, TypeOK, StartsBounded, WorkerKnowsRow, RowsAreSound, AtWork

\* A step that writes the row of one job.
LEMMA OneRow ==
    ASSUME QueueInv, NEW j \in JobIds, NEW r \in Rows,
           row' = [row EXCEPT ![j] = r], r.status # "absent",
           starts' \in [JobIds -> Nat], \A i \in JobIds \ {j} : starts'[i] = starts[i],
           starts'[j] <= r.attempts,
           completed' = completed, r.status = "done" => j \in completed,
           worker' \in Workers, worker'.at \in AtWork => worker'.job \in JobIds,
           WorkerKnowsRow'
    PROVE  QueueInv'
<1>1. row \in [JobIds -> Rows]
  BY DEF QueueInv, TypeOK
<1>2. row' \in [JobIds -> Rows] /\ row'[j] = r /\ \A i \in JobIds \ {j} : row'[i] = row[i]
  BY <1>1
<1>3. TypeOK'
  BY <1>2 DEF QueueInv, TypeOK, AtWork
<1>4. r.attempts <= MaxAttempts
  BY QueueAssumption DEF Rows
<1>5. StartsBounded'
  BY <1>2, <1>4 DEF QueueInv, StartsBounded
<1>6. RowsAreSound'
  BY <1>2 DEF QueueInv, RowsAreSound
<1> QED
  BY <1>3, <1>5, <1>6 DEF QueueInv

LEMMA OutsideSteps ==
    ASSUME QueueInv, NEW j \in JobIds, Enqueue(j) \/ ClaimAges(j)
    PROVE  QueueInv'
<1>1. /\ worker \in Workers /\ row \in [JobIds -> Rows] /\ row[j] \in Rows
      /\ starts \in [JobIds -> Nat] /\ starts[j] <= row[j].attempts
      /\ worker.at \in AtWork => worker.job \in JobIds
  BY DEF QueueInv, TypeOK, StartsBounded, AtWork
<1>2. CASE Enqueue(j)
  <2> DEFINE r == Row("pending", 0)
  <2>1. r \in Rows /\ r.status = "pending" /\ r.attempts = 0
    BY RowType, QueueAssumption
  <2>2. row[j].status = "absent" /\ row[j].attempts = 0
    BY <1>2 DEF Enqueue, QueueInv, RowsAreSound
  <2>3. row' = [row EXCEPT ![j] = r] /\ UNCHANGED <<worker, starts, completed>>
    BY <1>2 DEF Enqueue
  <2> HIDE DEF r
  <2>4. WorkerKnowsRow'
    BY <1>1, <2>2, <2>3 DEF QueueInv, WorkerKnowsRow, AtWork
  <2> QED
    BY <1>1, <2>1, <2>2, <2>3, <2>4, OneRow
<1>3. CASE ClaimAges(j)
  <2> DEFINE r == [row[j] EXCEPT !.stale = TRUE]
  <2>1. r \in Rows /\ r.status = "running" /\ row[j].status = "running"
        /\ r.attempts = row[j].attempts
    BY <1>1, <1>3 DEF ClaimAges, Rows
  <2>2. row' = [row EXCEPT ![j] = r] /\ UNCHANGED <<worker, starts, completed>>
    BY <1>3 DEF ClaimAges
  <2> HIDE DEF r
  <2>3. WorkerKnowsRow'
    BY <1>1, <2>1, <2>2 DEF QueueInv, WorkerKnowsRow, AtWork
  <2> QED
    BY <1>1, <2>1, <2>2, <2>3, OneRow
<1> QED
  BY <1>2, <1>3

LEMMA ReclaimStep ==
    ASSUME QueueInv, NEW some \in SUBSET Stale, Reclaim(some)
    PROVE  QueueInv'
<1>1. /\ worker \in Workers /\ row \in [JobIds -> Rows]
      /\ some \subseteq JobIds /\ \A j \in some : row[j].status = "running"
  BY DEF QueueInv, TypeOK, Stale
<1>2. worker' \in Workers /\ worker'.at = "selecting" /\ UNCHANGED <<starts, completed>>
  BY <1>1, WorkerType DEF Reclaim
<1>3. \A j \in JobIds : j \notin some => row'[j] = row[j]
  BY DEF Reclaim
<1>4. ASSUME NEW j \in some
      PROVE  /\ row'[j] \in Rows /\ row'[j].status = "pending"
             /\ row'[j].attempts = row[j].attempts
  <2>1. row[j].attempts \in 0..MaxAttempts
    BY <1>1 DEF Rows
  <2>2. row'[j] = Row("pending", row[j].attempts)
    BY <1>1 DEF Reclaim
  <2> QED
    BY <2>1, <2>2, RowType
<1>5. row' \in [JobIds -> Rows]
  <2>1. DOMAIN row' = JobIds /\ row' = [j \in JobIds |-> row'[j]]
    BY DEF Reclaim
  <2> QED
    BY <1>1, <1>3, <1>4, <2>1
<1>6. TypeOK' /\ WorkerKnowsRow'
  BY <1>2, <1>5 DEF QueueInv, TypeOK, WorkerKnowsRow
<1>7. StartsBounded' /\ RowsAreSound'
  BY <1>2, <1>3, <1>4 DEF QueueInv, StartsBounded, RowsAreSound
<1> QED
  BY <1>6, <1>7 DEF QueueInv

LEMMA SelectStep ==
    ASSUME QueueInv, Select
    PROVE  QueueInv'
<1>1. worker \in Workers /\ row \in [JobIds -> Rows] /\ UNCHANGED <<row, starts, completed>>
  BY DEF QueueInv, TypeOK, Select
<1>2. CASE worker' = Idle
  BY <1>1, <1>2, WorkerType, HandsFree DEF AtWork
<1>3. ASSUME NEW j \in Pending, worker' = Worker("claiming", j, row[j].attempts)
      PROVE  QueueInv'
  <2>1. j \in JobIds /\ row[j] \in Rows /\ row[j].status = "pending"
    BY <1>1 DEF Pending
  <2>2. /\ worker' \in Workers /\ worker'.at = "claiming" /\ worker'.job = j
        /\ worker'.attempts = row[j].attempts
    BY <1>3, <2>1 DEF Worker, Workers, Rows
  <2> QED
    BY <1>1, <2>1, <2>2 DEF QueueInv, TypeOK, StartsBounded, WorkerKnowsRow, RowsAreSound
<1> QED
  BY <1>2, <1>3 DEF Select

\* What the worker does while it holds a job.
LEMMA JobSteps ==
    ASSUME QueueInv, GiveUp \/ Claim \/ HandlerEnds \/ Finish \/ Fail
    PROVE  QueueInv'
<1> DEFINE j == worker.job
           a == worker.attempts
<1>1. /\ worker \in Workers /\ row \in [JobIds -> Rows] /\ starts \in [JobIds -> Nat]
      /\ completed \subseteq JobIds /\ a \in Nat /\ MaxAttempts \in Nat
      /\ worker.at \in AtWork
  BY QueueAssumption DEF QueueInv, TypeOK, Workers, AtWork, GiveUp, Claim, HandlerEnds, Finish, Fail
<1>2. j \in JobIds
  BY <1>1 DEF QueueInv, TypeOK, AtWork
<1>3. row[j] \in Rows /\ starts[j] \in Nat /\ starts[j] <= row[j].attempts
      /\ row[j].attempts \in Nat /\ row[j].attempts <= MaxAttempts
  BY <1>1, <1>2 DEF QueueInv, StartsBounded, Rows
<1>4. \A at \in {"idle", "failing", "running", "finishing"} :
         /\ Doing(at) \in Workers /\ Doing(at).at = at
         /\ Doing(at).job = j /\ Doing(at).attempts = a
  BY <1>1, WorkerType DEF AtWork
<1>5. Idle \in Workers /\ Idle.at = "idle"
  BY WorkerType
<1>6. CASE GiveUp
  <2>1. /\ worker.at = "claiming" /\ row[j].attempts = a /\ a \in 0..MaxAttempts
        /\ worker' = Idle /\ UNCHANGED <<starts, completed>>
    BY <1>1, <1>3, <1>6 DEF GiveUp, Write, QueueInv, WorkerKnowsRow
  <2>2. CASE UNCHANGED row
    BY <1>5, <2>1, <2>2, HandsFree DEF AtWork
  <2>3. CASE row' = [row EXCEPT ![j] = Row("failed", a)]
    <3> DEFINE r == Row("failed", a)
    <3>1. r \in Rows /\ r.status = "failed" /\ r.attempts = a
      BY <2>1, RowType
    <3>2. row' = [row EXCEPT ![j] = r]
      BY <2>3
    <3> HIDE DEF r
    <3>3. WorkerKnowsRow'
      BY <1>5, <2>1 DEF WorkerKnowsRow
    <3> QED
      BY <1>1, <1>2, <1>3, <1>5, <2>1, <3>1, <3>2, <3>3, OneRow DEF AtWork
  <2> QED
    BY <1>6, <2>2, <2>3 DEF GiveUp, Write
<1>7. CASE Claim
  <2>1. /\ worker.at = "claiming" /\ row[j].attempts = a /\ a + 1 \in 0..MaxAttempts
        /\ UNCHANGED completed /\ worker' \in {Doing("running"), Idle}
    BY <1>1, <1>3, <1>7 DEF Claim, Write, QueueInv, WorkerKnowsRow
  <2>2. CASE UNCHANGED row /\ worker' = Idle
    <3>1. UNCHANGED starts
      BY <1>5, <1>7, <2>2 DEF Claim
    <3> QED
      BY <1>5, <2>1, <2>2, <3>1, HandsFree DEF AtWork
  <2>3. CASE row' = [row EXCEPT ![j] = Row("running", a + 1)]
    <3> DEFINE r == Row("running", a + 1)
    <3>1. r \in Rows /\ r.status = "running" /\ r.attempts = a + 1
      BY <2>1, RowType
    <3>2. row' = [row EXCEPT ![j] = r]
      BY <2>3
    <3> HIDE DEF r
    <3>3. /\ starts' \in [JobIds -> Nat] /\ \A i \in JobIds \ {j} : starts'[i] = starts[i]
          /\ starts'[j] <= a + 1
      BY <1>1, <1>2, <1>3, <1>7, <2>1 DEF Claim
    <3>4. worker' \in Workers /\ (worker'.at \in AtWork => worker'.job \in JobIds)
      BY <1>2, <1>4, <1>5, <2>1 DEF AtWork
    <3>5. row'[j] = r
      BY <1>1, <1>2, <3>2
    <3>6. WorkerKnowsRow'
      BY <1>4, <1>5, <2>1, <3>1, <3>5 DEF WorkerKnowsRow
    <3> QED
      BY <1>2, <2>1, <3>1, <3>2, <3>3, <3>4, <3>6, OneRow
  <2> QED
    BY <1>7, <2>2, <2>3 DEF Claim, Write
<1>8. CASE HandlerEnds
  <2>1. /\ worker.at = "running" /\ UNCHANGED <<row, starts>>
        /\ worker' \in {Doing("finishing"), Doing("failing")}
        /\ completed \subseteq completed' /\ completed' \subseteq JobIds
        /\ worker' = Doing("finishing") => j \in completed'
    BY <1>1, <1>2, <1>4, <1>8 DEF HandlerEnds
  <2>2. /\ row[j].status = "running" /\ row[j].attempts = a + 1
    BY <2>1 DEF QueueInv, WorkerKnowsRow
  <2>3. TypeOK'
    BY <1>2, <1>4, <2>1 DEF QueueInv, TypeOK
  <2>4. WorkerKnowsRow'
    BY <1>4, <2>1, <2>2 DEF WorkerKnowsRow
  <2>5. StartsBounded' /\ RowsAreSound'
    BY <2>1 DEF QueueInv, StartsBounded, RowsAreSound
  <2> QED
    BY <2>3, <2>4, <2>5 DEF QueueInv
<1>9. CASE Finish \/ Fail
  <2>1. PICK status \in {"done", "failed"} :
           /\ Write(j, Row(status, a + 1), Idle, IF status = "done" THEN Doing("failing") ELSE Idle)
           /\ worker.at = IF status = "done" THEN "finishing" ELSE "failing"
    BY <1>9 DEF Finish, Fail
  <2>2. /\ row[j].attempts = a + 1 /\ row[j].status \in {"running", "done"}
        /\ status = "done" => j \in completed
        /\ UNCHANGED <<starts, completed>>
    BY <1>9, <2>1 DEF Finish, Fail, QueueInv, WorkerKnowsRow
  <2>3. a + 1 \in 0..MaxAttempts
    BY <1>1, <1>3, <2>2
  <2>4. worker' = Idle \/ (worker' = Doing("failing") /\ status = "done")
    BY <2>1 DEF Write
  <2>5. worker' \in Workers /\ (worker'.at \in AtWork => worker'.job = j)
    BY <1>4, <1>5, <2>4 DEF AtWork
  <2>6. CASE UNCHANGED row
    <3>1. WorkerKnowsRow'
      BY <1>4, <1>5, <2>2, <2>4, <2>6, <2>1 DEF WorkerKnowsRow, QueueInv
    <3>2. TypeOK'
      BY <1>2, <2>2, <2>5, <2>6 DEF QueueInv, TypeOK, AtWork
    <3> QED
      BY <2>2, <2>6, <3>1, <3>2 DEF QueueInv, StartsBounded, RowsAreSound
  <2>7. CASE row' = [row EXCEPT ![j] = Row(status, a + 1)]
    <3> DEFINE r == Row(status, a + 1)
    <3>1. r \in Rows /\ r.status = status /\ r.attempts = a + 1
      BY <2>3, RowType
    <3>2. row' = [row EXCEPT ![j] = r]
      BY <2>7
    <3> HIDE DEF r
    <3>3. row'[j] = r
      BY <1>1, <1>2, <3>2
    <3>4. WorkerKnowsRow'
      BY <1>4, <1>5, <2>4, <3>1, <3>3 DEF WorkerKnowsRow
    <3> QED
      BY <1>1, <1>2, <1>3, <2>2, <2>5, <3>1, <3>2, <3>4, OneRow
  <2> QED
    BY <2>1, <2>6, <2>7 DEF Write
<1> QED
  BY <1>6, <1>7, <1>8, <1>9

\* No step of the specification breaks the invariant.
LEMMA QueueGoesOn ==
    ASSUME QueueInv, Next
    PROVE  QueueInv'
<1>1. worker \in Workers
  BY DEF QueueInv, TypeOK
<1>2. CASE Crash
  <2>1. worker' \in Workers /\ worker'.at = "stopped" /\ UNCHANGED <<row, starts, completed>>
    BY <1>2, QueueAssumption DEF Crash, Worker, Workers
  <2> QED
    BY <2>1, HandsFree DEF AtWork
<1>3. CASE Restart \/ CannotSelect
  BY <1>3, WorkerType, HandsFree DEF Restart, CannotSelect, AtWork
<1>4. CASE Poll
  BY <1>1, <1>4, WorkerType, HandsFree DEF Poll, AtWork
<1> QED
  BY <1>2, <1>3, <1>4, OutsideSteps, ReclaimStep, SelectStep, JobSteps DEF Next, Work

\* The rows, the worker's memory and the starts stay in step, for any number of
\* jobs, attempts, crashes and lost answers.
THEOREM QueueKeeps == ResearchSpec => []QueueInv
<1>1. QueueInv /\ UNCHANGED vars => QueueInv'
  BY DEF vars, QueueInv, TypeOK, StartsBounded, WorkerKnowsRow, RowsAreSound
<1>2. [ResearchNext]_<<part, vars, runnerVars>> => [Next]_vars
  BY DEF ResearchNext
<1>3. QueueInv /\ [ResearchNext]_<<part, vars, runnerVars>> => QueueInv'
  BY <1>1, <1>2, QueueGoesOn
<1>4. ResearchInit => QueueInv
  BY QueueStarts DEF ResearchInit
<1> QED
  BY <1>3, <1>4, PTL DEF ResearchSpec

\* Every variable keeps its type.
THEOREM TypeCorrect == ResearchSpec => []TypeOK
<1>1. QueueInv => TypeOK
  BY DEF QueueInv
<1> QED
  BY <1>1, QueueKeeps, PTL

\* A job's handler is started at most MAX_ATTEMPTS times (claim_next).
THEOREM StartsAreBounded == ResearchSpec => []StartsBounded
<1>1. QueueInv => StartsBounded
  BY DEF QueueInv
<1> QED
  BY <1>1, QueueKeeps, PTL

\* A step changes an ended job only to report the failure of its own worker.
LEMMA EndedStep ==
    ASSUME QueueInv, Next, NEW j \in JobIds
    PROVE  /\ Ended(j) /\ row'[j] # row[j] => worker.at = "failing" /\ worker.job = j
           /\ row'[j].status = "done" => j \in completed
<1> DEFINE k == worker.job
<1>1. /\ row \in [JobIds -> Rows] /\ worker \in Workers /\ MaxAttempts \in Nat
      /\ row[j].status = "done" => j \in completed
  BY QueueAssumption DEF QueueInv, TypeOK, RowsAreSound
<1>2. CASE UNCHANGED row
  BY <1>1, <1>2
<1>3. ASSUME NEW i \in JobIds, Enqueue(i) \/ ClaimAges(i)
      PROVE  ~Ended(i) /\ (i # j => row'[j] = row[j]) /\ row'[i].status # "done"
  <2>1. CASE Enqueue(i)
    <3>1. Row("pending", 0).status = "pending"
      BY DEF Row
    <3> QED
      BY <1>1, <2>1, <3>1 DEF Enqueue, Ended
  <2>2. CASE ClaimAges(i)
    <3>1. row'[i] = [row[i] EXCEPT !.stale = TRUE] /\ row[i] \in Rows /\ row[i].status = "running"
      BY <1>1, <2>2 DEF ClaimAges
    <3>2. row'[i].status = "running"
      BY <3>1 DEF Rows
    <3> QED
      BY <1>1, <2>2, <3>1, <3>2 DEF ClaimAges, Ended
  <2> QED
    BY <1>3, <2>1, <2>2
<1>4. ASSUME NEW some \in SUBSET Stale, Reclaim(some)
      PROVE  row'[j] = row[j] \/ (~Ended(j) /\ row'[j].status # "done")
  BY <1>1, <1>4 DEF Reclaim, Stale, Ended, Row
<1>5. ASSUME NEW status \in {"running", "done", "failed"}, NEW attempts,
             row' = [row EXCEPT ![k] = Row(status, attempts)],
             status = "done" => k \in completed,
             row[k].status \in {"done", "failed"} => worker.at = "failing"
      PROVE  /\ Ended(j) /\ row'[j] # row[j] => worker.at = "failing" /\ k = j
             /\ row'[j].status = "done" => j \in completed
  <2>1. CASE j # k
    BY <1>1, <1>5, <2>1
  <2>2. CASE j = k
    <3>1. row'[j].status = status
      BY <1>1, <1>5, <2>2 DEF Row
    <3> QED
      BY <1>5, <2>2, <3>1 DEF Ended
  <2> QED
    BY <2>1, <2>2
<1>6. CASE GiveUp \/ Claim
  <2>1. row[k].status = "pending"
    BY <1>6 DEF GiveUp, Claim, QueueInv, WorkerKnowsRow
  <2>2. UNCHANGED row \/ \E status \in {"running", "failed"}, attempts \in Int :
            row' = [row EXCEPT ![k] = Row(status, attempts)]
    BY <1>1, <1>6 DEF GiveUp, Claim, Write, Workers
  <2> QED
    BY <1>2, <1>5, <2>1, <2>2
<1>7. CASE Finish \/ Fail
  <2>1. /\ row[k].status = "failed" \/ row[k].status = "done" => worker.at = "failing"
        /\ worker.at = "finishing" => k \in completed
    BY <1>7 DEF Finish, Fail, QueueInv, WorkerKnowsRow
  <2>2. UNCHANGED row \/ \E status \in {"done", "failed"}, attempts \in Int :
            /\ row' = [row EXCEPT ![k] = Row(status, attempts)]
            /\ status = "done" => worker.at = "finishing"
    BY <1>1, <1>7 DEF Finish, Fail, Write, Workers
  <2> QED
    BY <1>2, <1>5, <2>1, <2>2
<1>8. CASE Crash \/ Restart \/ Poll \/ Select \/ CannotSelect \/ HandlerEnds
  BY <1>2, <1>8 DEF Crash, Restart, Poll, Select, CannotSelect, HandlerEnds
<1>9. CASE \E i \in JobIds : Enqueue(i) \/ ClaimAges(i)
  BY <1>1, <1>3, <1>9
<1>10. CASE \E some \in SUBSET Stale : Reclaim(some)
  BY <1>1, <1>4, <1>10
<1> QED
  BY <1>6, <1>7, <1>8, <1>9, <1>10 DEF Next, Work

\* An ended job is only ever overwritten by its own worker, and a result is only
\* recorded of a handler that returned one (finish, fail).
THEOREM EndedHolds == ResearchSpec => EndedStaysEnded
<1>1. QueueInv /\ [Next]_vars =>
         [\A j \in JobIds :
             /\ Ended(j) /\ row'[j] # row[j] => worker.at = "failing" /\ worker.job = j
             /\ row'[j].status = "done" => j \in completed]_vars
  BY EndedStep
<1>2. [ResearchNext]_<<part, vars, runnerVars>> => [Next]_vars
  BY DEF ResearchNext
<1> QED
  BY <1>1, <1>2, QueueKeeps, PTL DEF EndedStaysEnded, ResearchSpec
-----------------------------------------------------------------------------
(* Orders, desks and feeds.                                                *)

Kinds == {"limit", "market"}
OrderStates == {"pending", "open", "partial", "filled", "cancelled", "rejected"}
OrderType ==
    [tag : {"entry", "exit", "quote"}, side : Trading!Sides, kind : Kinds, price : Int, qty : Nat,
     postOnly : BOOLEAN, decidedAt : Nat, ttl : Int, state : OrderStates, taken : Nat, made : Nat,
     cost : Int, fees : Int, times : Seq(Nat), ahead : Nat, cancelAskedAt : Int, closedAt : Int]
BookType == [bids : Seq(Trading!Level2), asks : Seq(Trading!Level2), exch : Nat, recv : Nat]
TradeType == [price : Nat, size : Nat, side : Trading!Sides, exch : Nat]

\* What the state of an order says of its fills and of its end: only a limit
\* order rests, one at rest has something left, and only a market order ends
\* in part.
OrderOk(o) ==
    /\ o \in OrderType
    /\ Trading!FilledQty(o) <= o.qty
    /\ o.times = <<>> <=> Trading!FilledQty(o) = 0
    /\ o.postOnly => o.kind = "limit" /\ o.taken = 0
    /\ CASE o.state = "pending"   -> Trading!FilledQty(o) = 0 /\ o.closedAt = Trading!Never /\ o.qty # 0
         [] o.state = "rejected"  -> Trading!FilledQty(o) = 0
         [] o.state = "filled"    -> Trading!FilledQty(o) = o.qty
         [] o.state = "cancelled" -> /\ o.closedAt # Trading!Never
                                     /\ o.kind = "limit" => Trading!FilledQty(o) < o.qty
         [] OTHER -> IF o.kind = "limit" THEN Trading!FilledQty(o) < o.qty /\ o.closedAt = Trading!Never
                     ELSE o.closedAt # Trading!Never /\ o.state = "partial"
-----------------------------------------------------------------------------
(* What one event makes of one order.                                      *)

LEMMA SmallerNat ==
  ASSUME NEW a \in Nat, NEW b \in Nat
  PROVE  Trading!Smaller(a, b) \in Nat /\ Trading!Smaller(a, b) <= a /\ Trading!Smaller(a, b) <= b
  BY DEF Trading!Smaller

LEMMA LevelTyped ==
  ASSUME NEW levels \in Seq(Trading!Level2), NEW i \in {1, 2}
  PROVE  Trading!Level(levels, i).price \in Nat /\ Trading!Level(levels, i).size \in Nat
<1>1. CASE i <= Len(levels)
  <2>1. levels[i] \in Trading!Level2
    BY <1>1
  <2> QED BY <1>1, <2>1 DEF Trading!Level, Trading!Level2
<1>2. CASE ~(i <= Len(levels))
  BY <1>2 DEF Trading!Level
<1> QED BY <1>1, <1>2

LEMMA SizeAtNat ==
  ASSUME NEW levels \in Seq(Trading!Level2), NEW price
  PROVE  Trading!SizeAt(levels, price) \in Nat
  BY LevelTyped DEF Trading!SizeAt

LEMMA OrderFields ==
  ASSUME NEW o \in OrderType
  PROVE  /\ o.qty \in Nat /\ o.taken \in Nat /\ o.made \in Nat /\ o.decidedAt \in Nat
         /\ o.price \in Int /\ o.cost \in Int /\ o.fees \in Int /\ o.ttl \in Int
         /\ o.cancelAskedAt \in Int /\ o.closedAt \in Int /\ o.ahead \in Nat
         /\ o.times \in Seq(Nat) /\ o.kind \in Kinds /\ o.state \in OrderStates
         /\ o.postOnly \in BOOLEAN /\ o.side \in Trading!Sides
         /\ Trading!FilledQty(o) \in Nat /\ Trading!Remaining(o) \in Int
<1>1. /\ o.qty \in Nat /\ o.taken \in Nat /\ o.made \in Nat /\ o.decidedAt \in Nat
      /\ o.price \in Int /\ o.cost \in Int /\ o.fees \in Int /\ o.ttl \in Int
  BY DEF OrderType
<1>2. /\ o.cancelAskedAt \in Int /\ o.closedAt \in Int /\ o.ahead \in Nat
      /\ o.times \in Seq(Nat) /\ o.kind \in Kinds /\ o.state \in OrderStates
      /\ o.postOnly \in BOOLEAN /\ o.side \in Trading!Sides
  BY DEF OrderType
<1>3. Trading!FilledQty(o) \in Nat /\ Trading!Remaining(o) \in Int
  BY <1>1 DEF Trading!FilledQty, Trading!Remaining
<1> QED BY <1>1, <1>2, <1>3

LEMMA TimeAdded ==
  ASSUME NEW times \in Seq(Nat), NEW at \in Nat
  PROVE  Append(times, at) \in Seq(Nat) /\ Append(times, at) # <<>>
<1>1. Append(times, at) \in Seq(Nat) /\ Len(Append(times, at)) = Len(times) + 1
  OBVIOUS
<1>2. Len(times) \in Nat
  OBVIOUS
<1> QED BY <1>1, <1>2

\* A fill leaves what the order is, and adds to what it has filled.
FillState(o, qty) == IF o.state = "open" /\ Trading!Remaining(o) > qty THEN "partial" ELSE o.state

Filling(o, f, taken, made, state) ==
    /\ f \in OrderType
    /\ f.tag = o.tag /\ f.kind = o.kind /\ f.qty = o.qty /\ f.postOnly = o.postOnly
    /\ f.cancelAskedAt = o.cancelAskedAt /\ f.closedAt = o.closedAt
    /\ f.taken = taken /\ f.made = made /\ f.state = state /\ f.times # <<>>

TakenFrom(o, price, qty, at) == Trading!Fill(o, price, qty, FALSE, at)
MadeOf(o, price, qty, at) == Trading!Fill(o, price, qty, TRUE, at)

LEMMA TakerFill ==
  ASSUME NEW o \in OrderType, NEW price \in Int, NEW qty \in Nat \ {0}, NEW at \in Nat
  PROVE  Filling(o, TakenFrom(o, price, qty, at), o.taken + qty, o.made, FillState(o, qty))
<1> DEFINE f == TakenFrom(o, price, qty, at)
           sum == o.taken + qty
           cost == o.cost + price * qty
           fees == o.fees + price * qty * TakerFee
           times == Append(o.times, at)
           state == FillState(o, qty)
<1>1. sum \in Nat
  BY OrderFields
<1>2. cost \in Int /\ fees \in Int
  <2>1. o.cost \in Int /\ o.fees \in Int /\ TakerFee \in Int
    BY OrderFields, ExecutionAssumption
  <2>2. price * qty \in Int
    OBVIOUS
  <2> QED BY <2>1, <2>2
<1>3. times \in Seq(Nat) /\ times # <<>>
  BY OrderFields, TimeAdded
<1>4. state \in OrderStates
  BY OrderFields DEF OrderStates, FillState
<1>5. f = [o EXCEPT !.taken = sum, !.cost = cost, !.fees = fees, !.times = times, !.state = state]
  BY DEF TakenFrom, MadeOf, Trading!Fill, OrderType, FillState
<1> HIDE DEF f, sum, cost, fees, times, state
<1>6. f \in OrderType
  BY <1>1, <1>2, <1>3, <1>4, <1>5, Zenon DEF OrderType
<1>7. /\ f.tag = o.tag /\ f.kind = o.kind /\ f.qty = o.qty /\ f.postOnly = o.postOnly
      /\ f.cancelAskedAt = o.cancelAskedAt /\ f.closedAt = o.closedAt
      /\ f.taken = sum /\ f.made = o.made /\ f.state = state /\ f.times = times
  BY <1>5 DEF OrderType
<1>8. Filling(o, f, sum, o.made, state)
  BY <1>3, <1>6, <1>7 DEF Filling
<1> QED BY <1>8 DEF f, sum, state

LEMMA MakerFilled ==
  ASSUME NEW o \in OrderType, NEW price \in Int, NEW qty \in Nat \ {0}, NEW at \in Nat
  PROVE  Filling(o, MadeOf(o, price, qty, at), o.taken, o.made + qty, FillState(o, qty))
<1> DEFINE f == MadeOf(o, price, qty, at)
           sum == o.made + qty
           cost == o.cost + price * qty
           fees == o.fees + price * qty * MakerFee
           times == Append(o.times, at)
           state == FillState(o, qty)
<1>1. sum \in Nat
  BY OrderFields
<1>2. cost \in Int /\ fees \in Int
  <2>1. o.cost \in Int /\ o.fees \in Int /\ MakerFee \in Int
    BY OrderFields, ExecutionAssumption
  <2>2. price * qty \in Int
    OBVIOUS
  <2> QED BY <2>1, <2>2
<1>3. times \in Seq(Nat) /\ times # <<>>
  BY OrderFields, TimeAdded
<1>4. state \in OrderStates
  BY OrderFields DEF OrderStates, FillState
<1>5. f = [o EXCEPT !.made = sum, !.cost = cost, !.fees = fees, !.times = times, !.state = state]
  BY DEF TakenFrom, MadeOf, Trading!Fill, OrderType, FillState
<1> HIDE DEF f, sum, cost, fees, times, state
<1>6. f \in OrderType
  BY <1>1, <1>2, <1>3, <1>4, <1>5, Zenon DEF OrderType
<1>7. /\ f.tag = o.tag /\ f.kind = o.kind /\ f.qty = o.qty /\ f.postOnly = o.postOnly
      /\ f.cancelAskedAt = o.cancelAskedAt /\ f.closedAt = o.closedAt
      /\ f.made = sum /\ f.taken = o.taken /\ f.state = state /\ f.times = times
  BY <1>5 DEF OrderType
<1>8. Filling(o, f, o.taken, sum, state)
  BY <1>3, <1>6, <1>7 DEF Filling
<1> QED BY <1>8 DEF f, sum, state

\* What one phase of an event may do to an order: LifeOf moves on, or stays.
Forward(o, p) ==
    /\ p.qty = o.qty /\ p.postOnly = o.postOnly /\ p.kind = o.kind /\ p.tag = o.tag
    /\ o.taken <= p.taken /\ o.made <= p.made
    /\ o.state # "pending" => p.taken = o.taken
    /\ p.state = "pending" => o.state = "pending"
    /\ p.state = "rejected" => o.state \in {"pending", "rejected"}
    /\ o.state \in {"filled", "cancelled", "rejected"} => p.state = o.state
    /\ o.state = "partial" /\ o.kind = "market" => p.state = "partial"
    /\ o.closedAt # Trading!Never => p.taken = o.taken /\ p.made = o.made /\ p.closedAt = o.closedAt

\* Within an event nothing is pulled that was not asked to cancel before it.
Ripens(o, p) ==
    /\ OrderOk(p) /\ Forward(o, p) /\ p.cancelAskedAt = o.cancelAskedAt
    /\ p.state = "cancelled" /\ p.kind = "limit" =>
          o.state = "cancelled" \/ o.cancelAskedAt # Trading!Never

LEMMA RipensStays == ASSUME NEW o, OrderOk(o) PROVE Ripens(o, o)
  BY DEF Ripens, Forward, OrderOk, OrderType

LEMMA RipensTwice ==
  ASSUME NEW o, NEW p, NEW q, OrderOk(o), Ripens(o, p), Ripens(p, q)
  PROVE  Ripens(o, q)
<1>1. \A r \in {o, p, q} : r.taken \in Nat /\ r.made \in Nat
  BY DEF Ripens, OrderOk, OrderType
<1>2. Forward(o, q)
  BY <1>1 DEF Ripens, Forward
<1>3. q.state = "cancelled" /\ q.kind = "limit" =>
          o.state = "cancelled" \/ o.cancelAskedAt # Trading!Never
  BY DEF Ripens, Forward
<1> QED BY <1>2, <1>3 DEF Ripens

Closing(o, c, state, at) ==
    /\ c \in OrderType
    /\ c.tag = o.tag /\ c.kind = o.kind /\ c.qty = o.qty /\ c.postOnly = o.postOnly
    /\ c.taken = o.taken /\ c.made = o.made /\ c.times = o.times
    /\ c.cancelAskedAt = o.cancelAskedAt /\ c.state = state /\ c.closedAt = at

LEMMA CloseFields ==
  ASSUME NEW o \in OrderType, NEW state \in OrderStates, NEW at \in Nat
  PROVE  Closing(o, Trading!Closed(o, state, at), state, at)
<1> DEFINE c == Trading!Closed(o, state, at)
<1> at \in Int
  OBVIOUS
<1>1. c \in OrderType
  BY Zenon DEF Trading!Closed, OrderType
<1>2. /\ c.tag = o.tag /\ c.kind = o.kind /\ c.qty = o.qty /\ c.postOnly = o.postOnly
      /\ c.taken = o.taken /\ c.made = o.made /\ c.times = o.times
  BY DEF Trading!Closed, OrderType
<1>3. c.cancelAskedAt = o.cancelAskedAt /\ c.state = state /\ c.closedAt = at
  BY DEF Trading!Closed, OrderType
<1> QED BY <1>1, <1>2, <1>3 DEF Closing

LEMMA ArrivalNat ==
  ASSUME NEW o \in OrderType
  PROVE  Trading!ArrivesAt(o) \in Nat
  BY OrderFields, ExecutionAssumption DEF Trading!ArrivesAt

LEMMA RejectedRipens ==
  ASSUME NEW o, OrderOk(o), o.state = "pending"
  PROVE  Ripens(o, Trading!Rejected(o))
<1> DEFINE r == Trading!Rejected(o)
<1>1. o \in OrderType /\ "rejected" \in OrderStates
  BY DEF OrderOk, OrderStates
<1>2. /\ r \in OrderType
      /\ r.tag = o.tag /\ r.kind = o.kind /\ r.qty = o.qty /\ r.postOnly = o.postOnly
      /\ r.taken = o.taken /\ r.made = o.made /\ r.times = o.times
      /\ r.cancelAskedAt = o.cancelAskedAt /\ r.state = "rejected"
  <2>1. r = Trading!Closed(o, "rejected", Trading!ArrivesAt(o)) /\ Trading!ArrivesAt(o) \in Nat
    BY <1>1, ArrivalNat DEF Trading!Rejected
  <2> HIDE DEF r
  <2>2. Closing(o, r, "rejected", Trading!ArrivesAt(o))
    BY <1>1, <2>1, CloseFields
  <2> QED BY <2>2 DEF Closing
<1> HIDE DEF r
<1>a. o.taken \in Nat /\ o.made \in Nat
  BY <1>1, OrderFields
<1>3. Trading!FilledQty(o) = 0 /\ Trading!FilledQty(r) = 0 /\ o.closedAt = Trading!Never
  BY <1>2 DEF OrderOk, Trading!FilledQty
<1>4. OrderOk(r)
  BY <1>2, <1>3 DEF OrderOk
<1>5. Forward(o, r)
  BY <1>a, <1>2, <1>3 DEF Forward
<1>6. r.state # "cancelled"
  BY <1>2
<1> HIDE DEF r
<1>7. Ripens(o, r)
  BY <1>2, <1>4, <1>5, <1>6 DEF Ripens
<1> QED BY <1>7 DEF r

\* An order between two levels of its walk through the book.
Walks(o, t) ==
    /\ t \in OrderType
    /\ t.tag = o.tag /\ t.kind = o.kind /\ t.qty = o.qty /\ t.postOnly = o.postOnly
    /\ t.made = o.made /\ t.taken >= o.taken
    /\ t.cancelAskedAt = o.cancelAskedAt /\ t.closedAt = o.closedAt /\ t.state = "pending"
    /\ Trading!FilledQty(t) <= t.qty
    /\ t.times = <<>> <=> Trading!FilledQty(t) = 0

LEMMA LevelWalks ==
  ASSUME NEW o \in OrderType, NEW t, NEW level, Walks(o, t), level.price \in Nat, level.size \in Nat
  PROVE  Walks(o, Trading!TookLevel(t, level))
<1> DEFINE share == level.size \div Participation
           qty == Trading!Smaller(Trading!Remaining(t), share)
           f == Trading!Fill(t, level.price, qty, FALSE, Trading!ArrivesAt(t))
<1>1. t \in OrderType /\ Trading!FilledQty(t) <= t.qty
  BY DEF Walks
<1>2. share \in Nat
  BY ExecutionAssumption
<1>3. Trading!Remaining(t) \in Nat
  BY <1>1, OrderFields DEF Trading!Remaining
<1>4. qty \in Nat /\ qty <= Trading!Remaining(t)
  BY <1>2, <1>3, SmallerNat
<1>5. CASE qty = 0 \/ ~Trading!WithinLimit(t, level.price)
  BY <1>5 DEF Trading!TookLevel
<1>6. CASE ~(qty = 0 \/ ~Trading!WithinLimit(t, level.price))
  <2>1. qty \in Nat \ {0} /\ Trading!TookLevel(t, level) = f
    BY <1>4, <1>6 DEF Trading!TookLevel
  <2> HIDE DEF qty
  <2>2. /\ f \in OrderType
        /\ f.tag = t.tag /\ f.kind = t.kind /\ f.qty = t.qty /\ f.postOnly = t.postOnly
        /\ f.taken = t.taken + qty /\ f.made = t.made
        /\ f.times # <<>> /\ f.cancelAskedAt = t.cancelAskedAt /\ f.closedAt = t.closedAt
        /\ f.state = t.state
    <3>1. t.state = "pending" /\ Trading!ArrivesAt(t) \in Nat /\ level.price \in Int
      BY <1>1, ArrivalNat DEF Walks
    <3> DEFINE price == level.price
               at == Trading!ArrivesAt(t)
    <3>2. f = TakenFrom(t, price, qty, at) /\ price \in Int /\ at \in Nat
      BY <3>1 DEF TakenFrom
    <3>3. FillState(t, qty) = t.state
      BY <3>1 DEF FillState
    <3> HIDE DEF f, price, at
    <3>4. t \in OrderType /\ qty \in Nat \ {0}
      BY <1>1, <2>1
    <3>5. Filling(t, f, t.taken + qty, t.made, FillState(t, qty))
      BY <3>2, <3>4, TakerFill
    <3> QED BY <3>3, <3>5 DEF Filling
  <2> HIDE DEF f
  <2>3. Trading!FilledQty(f) = Trading!FilledQty(t) + qty
    BY <1>1, <2>1, <2>2, OrderFields DEF Trading!FilledQty
  <2>4. Trading!FilledQty(f) <= f.qty /\ Trading!FilledQty(f) # 0
    <3>1. Trading!FilledQty(t) \in Nat /\ t.qty \in Nat /\ f.qty = t.qty
      BY <1>1, <2>2, OrderFields
    <3>2. qty <= t.qty - Trading!FilledQty(t)
      BY <1>4 DEF Trading!Remaining
    <3> QED BY <2>1, <2>3, <3>1, <3>2
  <2>5. f.taken >= o.taken
    <3>1. t.taken \in Nat /\ o.taken \in Nat /\ t.taken >= o.taken
      BY <1>1, OrderFields DEF Walks
    <3> QED BY <2>1, <2>2, <3>1
  <2> QED BY <2>1, <2>2, <2>4, <2>5 DEF Walks
<1> QED BY <1>5, <1>6

LEMMA WalkedWalks ==
  ASSUME NEW o, OrderOk(o), o.state = "pending", NEW levels \in Seq(Trading!Level2)
  PROVE  Walks(o, Trading!Walked(o, levels))
<1> DEFINE first == Trading!Level(levels, 1)
           second == Trading!Level(levels, 2)
           t == Trading!TookLevel(o, first)
<1>1. first.price \in Nat /\ first.size \in Nat /\ second.price \in Nat /\ second.size \in Nat
  BY LevelTyped
<1>2. o \in OrderType /\ Walks(o, o)
  BY OrderFields DEF OrderOk, Walks
<1> HIDE DEF first, second
<1>3. Walks(o, t)
  BY <1>1, <1>2, LevelWalks
<1> HIDE DEF t
<1>4. Walks(o, Trading!TookLevel(t, second))
  BY <1>1, <1>2, <1>3, LevelWalks
<1>5. Trading!Walked(o, levels) = Trading!TookLevel(t, second)
  BY DEF Trading!Walked, t, first, second
<1> QED BY <1>4, <1>5

LEMMA SidesTyped ==
  ASSUME NEW book \in BookType, NEW side
  PROVE  Trading!Opposite(side, book) \in Seq(Trading!Level2) /\ Trading!OwnSide(side, book) \in Seq(Trading!Level2)
  BY DEF BookType, Trading!Opposite, Trading!OwnSide

\* An order that takes what there is ends, unless it may wait for the rest.
LEMMA TookRipens ==
  ASSUME NEW o, OrderOk(o), o.state = "pending", ~o.postOnly, NEW book \in BookType
  PROVE  LET t == Trading!Took(o, book)
         IN  \/ Ripens(o, t) /\ (o.kind = "market" \/ Trading!Remaining(t) = 0)
             \/ o.kind # "market" /\ Walks(o, t) /\ Trading!Remaining(t) # 0
<1> DEFINE t == Trading!Walked(o, Trading!Opposite(o.side, book))
           at == Trading!ArrivesAt(o)
<1>1. o \in OrderType /\ Walks(o, t) /\ at \in Nat
  BY SidesTyped, WalkedWalks, ArrivalNat DEF OrderOk
<1> HIDE DEF t, at
<1>2. /\ t \in OrderType /\ o.taken \in Nat /\ o.made \in Nat /\ t.taken \in Nat /\ t.made \in Nat /\ t.qty \in Nat
      /\ o.closedAt = Trading!Never
  BY <1>1, OrderFields DEF Walks, OrderOk
<1>3. ASSUME NEW state \in {"filled", "cancelled", "partial"},
             state = "filled" => Trading!FilledQty(t) = t.qty,
             state # "filled" => o.kind = "market"
      PROVE  Ripens(o, Trading!Closed(t, state, at))
  <2> DEFINE c == Trading!Closed(t, state, at)
  <2>1. /\ c \in OrderType
        /\ c.tag = t.tag /\ c.kind = t.kind /\ c.qty = t.qty /\ c.postOnly = t.postOnly
        /\ c.taken = t.taken /\ c.made = t.made /\ c.times = t.times
        /\ c.cancelAskedAt = t.cancelAskedAt /\ c.state = state /\ c.closedAt = at
    <3>1. state \in OrderStates
      BY <1>3 DEF OrderStates
    <3>2. Closing(t, c, state, at)
      BY <1>1, <1>2, <3>1, CloseFields
    <3> QED BY <3>2 DEF Closing
  <2> HIDE DEF c
  <2>2. Trading!FilledQty(c) = Trading!FilledQty(t)
    BY <2>1 DEF Trading!FilledQty
  <2>3. at # Trading!Never /\ o.kind = c.kind /\ ~c.postOnly
    BY <1>1, <2>1 DEF Walks, Trading!Never
  <2>4. OrderOk(c)
    BY <1>1, <1>3, <2>1, <2>2, <2>3 DEF OrderOk, Walks
  <2>5. Forward(o, c)
    BY <1>1, <1>2, <1>3, <2>1 DEF Forward, Walks
  <2>6. c.cancelAskedAt = o.cancelAskedAt
    BY <1>1, <2>1 DEF Walks
  <2>7. ~(c.state = "cancelled" /\ c.kind = "limit")
    BY <1>3, <2>1, <2>3
  <2> QED BY <2>4, <2>5, <2>6, <2>7 DEF Ripens, c
<1>4. Trading!Remaining(t) = 0 <=> Trading!FilledQty(t) = t.qty
  BY <1>2 DEF Trading!Remaining, Trading!FilledQty
<1>5. CASE Trading!Remaining(t) = 0
  <2>1. Trading!Took(o, book) = Trading!Closed(t, "filled", at)
    BY <1>5 DEF Trading!Took, t, at
  <2>2. Ripens(o, Trading!Closed(t, "filled", at))
    BY <1>3, <1>4, <1>5
  <2>3. Trading!Remaining(Trading!Closed(t, "filled", at)) = 0
    BY <1>2, <1>5 DEF Trading!Closed, Trading!Remaining, Trading!FilledQty, OrderType
  <2> QED BY <2>1, <2>2, <2>3
<1>6. CASE Trading!Remaining(t) # 0 /\ o.kind = "market"
  <2> DEFINE state == IF Trading!FilledQty(t) = 0 THEN "cancelled" ELSE "partial"
  <2>1. Trading!Took(o, book) = Trading!Closed(t, state, at)
    BY <1>1, <1>6 DEF Trading!Took, Walks, t, at
  <2>2. state \in {"filled", "cancelled", "partial"} /\ state # "filled"
    OBVIOUS
  <2> HIDE DEF state
  <2>3. Ripens(o, Trading!Closed(t, state, at))
    BY <1>3, <1>6, <2>2
  <2> QED BY <1>6, <2>1, <2>3
<1>7. CASE Trading!Remaining(t) # 0 /\ o.kind # "market"
  <2>1. Trading!Took(o, book) = t
    BY <1>7 DEF Trading!Took, t, at
  <2> QED BY <1>1, <1>7, <2>1
<1> QED BY <1>5, <1>6, <1>7

LEMMA RestedRipens ==
  ASSUME NEW o, OrderOk(o), o.state = "pending", o.kind = "limit", NEW t, Walks(o, t),
         o.postOnly => t.taken = o.taken, Trading!Remaining(t) # 0, NEW book \in BookType
  PROVE  Ripens(o, Trading!Rested(t, book))
<1> DEFINE r == Trading!Rested(t, book)
           size == Trading!SizeAt(Trading!OwnSide(t.side, book), t.price)
           ahead == (size * QueueFactor) \div 100
<1>1. o \in OrderType /\ t \in OrderType
  BY DEF OrderOk, Walks
<1>2. ahead \in Nat
  <2>1. size \in Nat
    BY SidesTyped, SizeAtNat
  <2>2. QueueFactor \in Nat
    BY ExecutionAssumption
  <2> HIDE DEF size
  <2>3. size * QueueFactor \in Nat
    BY <2>1, <2>2
  <2> DEFINE n == size * QueueFactor
  <2> HIDE DEF n
  <2>4. n \in Nat => n \div 100 \in Nat
    OBVIOUS
  <2> QED BY <2>3, <2>4 DEF n
<1>3. r = [t EXCEPT !.state = "open", !.ahead = ahead]
  BY DEF Trading!Rested
<1> HIDE DEF r, ahead
<1>4. r \in OrderType
  <2>1. "open" \in OrderStates
    BY DEF OrderStates
  <2> QED BY <1>1, <1>2, <1>3, <2>1, Zenon DEF OrderType
<1>5. /\ r.tag = t.tag /\ r.kind = t.kind /\ r.qty = t.qty /\ r.postOnly = t.postOnly
      /\ r.taken = t.taken /\ r.made = t.made /\ r.times = t.times
      /\ r.cancelAskedAt = t.cancelAskedAt /\ r.state = "open" /\ r.closedAt = t.closedAt
  BY <1>1, <1>3 DEF OrderType
<1>6. o.taken \in Nat /\ o.made \in Nat /\ t.taken \in Nat /\ t.made \in Nat /\ t.qty \in Nat
  BY <1>1, OrderFields
<1>7. Trading!FilledQty(r) = Trading!FilledQty(t) /\ Trading!FilledQty(t) < t.qty
  BY <1>5, <1>6 DEF Trading!FilledQty, Trading!Remaining, Walks
<1>8. OrderOk(r)
  <2>1. r.postOnly => r.kind = "limit" /\ r.taken = 0
    BY <1>5, <1>6 DEF OrderOk, Walks
  <2> QED BY <1>4, <1>5, <1>6, <1>7, <2>1 DEF OrderOk, Walks
<1>9. Forward(o, r)
  BY <1>5, <1>6 DEF Forward, Walks, OrderOk
<1> QED BY <1>5, <1>8, <1>9 DEF Ripens, Walks, r

\* What arrives ends, or rests as a limit order.
LEMMA LandedRipens ==
  ASSUME NEW o, OrderOk(o), NEW now, NEW book \in BookType
  PROVE  Ripens(o, Trading!Landed(o, now, book))
<1>1. CASE Trading!Landed(o, now, book) = o
  BY <1>1, RipensStays
<1>2. CASE Trading!Landed(o, now, book) # o
  <2> DEFINE t == IF Trading!Marketable(o, book) THEN Trading!Took(o, book) ELSE o
             a == Trading!Arrived(o, book)
  <2>1. o.state = "pending" /\ Trading!Landed(o, now, book) = a /\ o \in OrderType /\ o.kind \in Kinds
    BY <1>2, OrderFields DEF Trading!Landed, OrderOk
  <2>2. CASE ~Trading!Usable(book) \/ (o.kind # "market" /\ Trading!Marketable(o, book) /\ o.postOnly)
    <3>1. a = Trading!Rejected(o)
      BY <2>2 DEF Trading!Arrived
    <3> QED BY <2>1, <3>1, RejectedRipens
  <2>3. CASE Trading!Usable(book) /\ o.kind = "market"
    <3>1. a = Trading!Took(o, book) /\ ~o.postOnly
      BY <2>3 DEF Trading!Arrived, OrderOk
    <3>2. Ripens(o, Trading!Took(o, book))
      BY <2>1, <2>3, <3>1, TookRipens
    <3> QED BY <2>1, <3>1, <3>2
  <2>4. CASE Trading!Usable(book) /\ o.kind = "limit" /\ ~(Trading!Marketable(o, book) /\ o.postOnly)
    <3>1. \/ Ripens(o, t) /\ Trading!Remaining(t) = 0
          \/ Walks(o, t) /\ Trading!Remaining(t) # 0 /\ (o.postOnly => t.taken = o.taken)
      <4>1. CASE Trading!Marketable(o, book)
        BY <2>1, <2>4, <4>1, TookRipens
      <4>2. CASE ~Trading!Marketable(o, book)
        <5>1. Walks(o, o)
          BY <2>1, OrderFields DEF OrderOk, Walks
        <5> QED BY <4>2, <5>1, RipensStays
      <4> QED BY <4>1, <4>2
    <3>2. a = IF Trading!Remaining(t) = 0 THEN t ELSE Trading!Rested(t, book)
      BY <2>4 DEF Trading!Arrived
    <3> HIDE DEF t, a
    <3>3. CASE Ripens(o, t) /\ Trading!Remaining(t) = 0
      BY <2>1, <3>2, <3>3
    <3>4. CASE Walks(o, t) /\ Trading!Remaining(t) # 0 /\ (o.postOnly => t.taken = o.taken)
      BY <2>1, <2>4, <3>2, <3>4, RestedRipens
    <3> QED BY <3>1, <3>3, <3>4
  <2> QED BY <2>1, <2>2, <2>3, <2>4 DEF Kinds
<1> QED BY <1>1, <1>2

\* A cancel lands on what still rests; only what was asked to cancel is pulled.
LEMMA PulledRipens ==
  ASSUME NEW o, OrderOk(o), NEW now \in Nat
  PROVE  Ripens(o, Trading!Pulled(o, now))
<1> DEFINE p == Trading!Pulled(o, now)
<1>1. CASE p = o
  BY <1>1, RipensStays
<1>2. CASE p # o
  <2>1. /\ Trading!InBook(o) /\ o.cancelAskedAt # Trading!Never /\ p = Trading!Closed(o, "cancelled", now)
        /\ o \in OrderType
    BY <1>2 DEF Trading!Pulled, OrderOk
  <2>2. /\ o.state \in {"open", "partial"} /\ o.closedAt = Trading!Never
        /\ o.kind = "limit" /\ Trading!FilledQty(o) < o.qty
    BY <2>1 DEF Trading!InBook, OrderOk, OrderType, Kinds
  <2> HIDE DEF p
  <2>3. /\ p \in OrderType
        /\ p.tag = o.tag /\ p.kind = o.kind /\ p.qty = o.qty /\ p.postOnly = o.postOnly
        /\ p.taken = o.taken /\ p.made = o.made /\ p.times = o.times
        /\ p.cancelAskedAt = o.cancelAskedAt /\ p.state = "cancelled" /\ p.closedAt = now
    <3>1. "cancelled" \in OrderStates
      BY DEF OrderStates
    <3>2. Closing(o, p, "cancelled", now)
      BY <2>1, <3>1, CloseFields
    <3> QED BY <3>2 DEF Closing
  <2>4. Trading!FilledQty(p) = Trading!FilledQty(o)
    BY <2>3 DEF Trading!FilledQty
  <2>5. OrderOk(p)
    <3>1. now # Trading!Never
      BY DEF Trading!Never
    <3> QED BY <2>2, <2>3, <2>4, <3>1 DEF OrderOk
  <2>6. o.taken \in Nat /\ o.made \in Nat
    BY <2>1, OrderFields
  <2>7. Forward(o, p)
    BY <2>2, <2>3, <2>6 DEF Forward
  <2> QED BY <2>1, <2>3, <2>5, <2>7 DEF Ripens, p
<1> QED BY <1>1, <1>2

\* A change of the place in the queue is no step of the order's life.
LEMMA PlaceRipens ==
  ASSUME NEW o, OrderOk(o), NEW ahead \in Nat
  PROVE  LET q == [o EXCEPT !.ahead = ahead]
         IN  Ripens(o, q) /\ Trading!InBook(q) = Trading!InBook(o) /\ Trading!Remaining(q) = Trading!Remaining(o)
<1> DEFINE q == [o EXCEPT !.ahead = ahead]
<1>1. o \in OrderType
  BY DEF OrderOk
<1>2. q \in OrderType
  BY <1>1, Zenon DEF OrderType
<1>3. /\ q.tag = o.tag /\ q.kind = o.kind /\ q.qty = o.qty /\ q.postOnly = o.postOnly
      /\ q.taken = o.taken /\ q.made = o.made /\ q.times = o.times
      /\ q.cancelAskedAt = o.cancelAskedAt /\ q.state = o.state /\ q.closedAt = o.closedAt
  BY <1>1 DEF OrderType
<1> HIDE DEF q
<1>4. Trading!FilledQty(q) = Trading!FilledQty(o) /\ Trading!Remaining(q) = Trading!Remaining(o)
  BY <1>3 DEF Trading!FilledQty, Trading!Remaining
<1>5. Trading!InBook(q) = Trading!InBook(o)
  BY <1>3 DEF Trading!InBook
<1>6. OrderOk(q)
  BY <1>2, <1>3, <1>4 DEF OrderOk
<1>7. Forward(o, q)
  BY <1>1, <1>3, OrderFields DEF Forward
<1>8. Ripens(o, q)
  BY <1>3, <1>6, <1>7 DEF Ripens
<1> QED BY <1>4, <1>5, <1>8 DEF q

LEMMA RequeuedRipens ==
  ASSUME NEW o, OrderOk(o), NEW old \in BookType, NEW book \in BookType
  PROVE  Ripens(o, Trading!Requeued(o, old, book))
<1> DEFINE before == Trading!SizeAt(Trading!OwnSide(o.side, old), o.price)
           after == Trading!SizeAt(Trading!OwnSide(o.side, book), o.price)
           ahead == (o.ahead * after) \div before
<1>1. before \in Nat /\ after \in Nat /\ o.ahead \in Nat
  BY SidesTyped, SizeAtNat, OrderFields DEF OrderOk
<1>2. CASE Trading!Requeued(o, old, book) = o
  BY <1>2, RipensStays
<1>3. CASE Trading!Requeued(o, old, book) # o
  <2>1. after < before /\ Trading!Requeued(o, old, book) = [o EXCEPT !.ahead = ahead]
    BY <1>3 DEF Trading!Requeued, OrderOk, OrderType
  <2> HIDE DEF before, after
  <2> DEFINE n == o.ahead * after
  <2>2. n \in Nat /\ before \in Nat \ {0}
    BY <1>1, <2>1
  <2> HIDE DEF n
  <2>3. n \div before \in Nat
    BY <2>2
  <2>4. ahead \in Nat
    BY <2>3 DEF n
  <2> HIDE DEF ahead
  <2>5. Ripens(o, [o EXCEPT !.ahead = ahead])
    BY <2>4, PlaceRipens
  <2> QED BY <2>1, <2>5
<1> QED BY <1>2, <1>3

LEMMA MakerRipens ==
  ASSUME NEW o, OrderOk(o), Trading!InBook(o), NEW qty \in Nat \ {0}, qty <= Trading!Remaining(o), NEW at \in Nat
  PROVE  Ripens(o, Trading!MakerFill(o, qty, at))
<1> DEFINE price == o.price
           f == MadeOf(o, price, qty, at)
           m == Trading!MakerFill(o, qty, at)
<1>1. /\ o \in OrderType /\ o.state \in {"open", "partial"} /\ o.closedAt = Trading!Never
      /\ o.kind = "limit" /\ price \in Int
  BY OrderFields DEF Trading!InBook, OrderOk, OrderType, Kinds
<1>2. m = IF Trading!Remaining(f) = 0 THEN Trading!Closed(f, "filled", at) ELSE f
  BY DEF Trading!MakerFill, MadeOf
<1> HIDE DEF f, m, price
<1>3. Filling(o, f, o.taken, o.made + qty, FillState(o, qty))
  BY <1>1, MakerFilled DEF f
<1>4. o.taken \in Nat /\ o.made \in Nat /\ o.qty \in Nat
  BY <1>1, OrderFields
<1>5. /\ Trading!FilledQty(f) = Trading!FilledQty(o) + qty
      /\ Trading!FilledQty(f) <= o.qty /\ Trading!FilledQty(f) # 0
      /\ Trading!Remaining(f) = Trading!Remaining(o) - qty
  BY <1>3, <1>4 DEF Filling, Trading!FilledQty, Trading!Remaining
<1>6. CASE Trading!Remaining(f) = 0
  <2>1. m = Trading!Closed(f, "filled", at) /\ f \in OrderType
    BY <1>2, <1>3, <1>6 DEF Filling
  <2>2. /\ m \in OrderType
        /\ m.tag = f.tag /\ m.kind = f.kind /\ m.qty = f.qty /\ m.postOnly = f.postOnly
        /\ m.taken = f.taken /\ m.made = f.made /\ m.times = f.times
        /\ m.cancelAskedAt = f.cancelAskedAt /\ m.state = "filled" /\ m.closedAt = at
    <3>1. "filled" \in OrderStates
      BY DEF OrderStates
    <3>2. Closing(f, m, "filled", at)
      BY <2>1, <3>1, CloseFields
    <3> QED BY <3>2 DEF Closing
  <2>3. Trading!FilledQty(m) = Trading!FilledQty(f) /\ Trading!FilledQty(f) = o.qty
    BY <1>3, <1>4, <1>5, <1>6, <2>2 DEF Trading!FilledQty, Trading!Remaining, Filling
  <2>4. OrderOk(m)
    BY <1>1, <1>3, <1>5, <2>2, <2>3 DEF OrderOk, Filling
  <2>5. Forward(o, m)
    BY <1>1, <1>3, <1>4, <2>2 DEF Forward, Filling
  <2>6. m.cancelAskedAt = o.cancelAskedAt /\ m.state # "cancelled"
    BY <1>3, <2>2 DEF Filling
  <2> QED BY <2>4, <2>5, <2>6 DEF Ripens, m
<1>7. CASE Trading!Remaining(f) # 0
  <2>1. m = f
    BY <1>2, <1>7
  <2>2. Trading!FilledQty(f) < o.qty /\ f.state = "partial"
    BY <1>1, <1>3, <1>4, <1>5, <1>7 DEF FillState, Filling, Trading!FilledQty, Trading!Remaining
  <2>3. OrderOk(f)
    BY <1>1, <1>3, <1>5, <2>2 DEF OrderOk, Filling
  <2>4. Forward(o, f)
    BY <1>1, <1>3, <1>4, <2>2 DEF Forward, Filling
  <2>5. f.cancelAskedAt = o.cancelAskedAt /\ f.state # "cancelled"
    BY <1>3, <2>2 DEF Filling
  <2>6. Ripens(o, m)
    BY <2>1, <2>3, <2>4, <2>5 DEF Ripens
  <2> QED BY <2>6 DEF m
<1> QED BY <1>6, <1>7 DEF m

LEMMA MatchedRipens ==
  ASSUME NEW o, OrderOk(o), NEW trade \in TradeType
  PROVE  Ripens(o, Trading!Matched(o, trade))
<1> DEFINE eaten == Trading!Smaller(o.ahead, trade.size)
           qty == Trading!Smaller(Trading!Remaining(o), trade.size - eaten)
           q == [o EXCEPT !.ahead = @ - eaten]
           m == Trading!Matched(o, trade)
<1>1. CASE ~Trading!InBook(o) \/ Trading!Remaining(o) = 0 \/ trade.side = o.side
  BY <1>1, RipensStays DEF Trading!Matched
<1>2. CASE Trading!InBook(o) /\ Trading!Remaining(o) # 0 /\ trade.side # o.side
  <2>1. o \in OrderType /\ o.ahead \in Nat /\ trade.size \in Nat /\ trade.exch \in Nat
    BY OrderFields DEF OrderOk, TradeType
  <2>2. Trading!Remaining(o) \in Nat \ {0}
    BY <1>2, <2>1, OrderFields DEF OrderOk, Trading!Remaining, Trading!FilledQty
  <2>3. eaten \in Nat /\ eaten <= o.ahead /\ eaten <= trade.size
    BY <2>1, SmallerNat
  <2>4. /\ m = IF Trading!Through(o, trade) THEN Trading!MakerFill(o, Trading!Remaining(o), trade.exch)
               ELSE IF trade.price # o.price THEN o
               ELSE IF qty = 0 THEN q ELSE Trading!MakerFill(q, qty, trade.exch)
    BY <1>2 DEF Trading!Matched
  <2> HIDE DEF eaten, m
  <2>5. qty \in Nat /\ qty <= Trading!Remaining(o)
    <3>1. trade.size - eaten \in Nat
      BY <2>1, <2>3
    <3> QED BY <2>2, <3>1, SmallerNat
  <2> HIDE DEF qty
  <2>6. Ripens(o, q) /\ Trading!InBook(q) /\ Trading!Remaining(q) = Trading!Remaining(o)
    <3>1. o.ahead - eaten \in Nat
      BY <2>1, <2>3
    <3>2. q = [o EXCEPT !.ahead = o.ahead - eaten]
      BY <2>1
    <3> DEFINE ahead == o.ahead - eaten
    <3> HIDE DEF ahead
    <3>3. q = [o EXCEPT !.ahead = ahead] /\ ahead \in Nat
      BY <3>1, <3>2 DEF ahead
    <3> QED BY <1>2, <3>3, PlaceRipens
  <2>7. OrderOk(q)
    BY <2>6 DEF Ripens
  <2> HIDE DEF q
  <2>8. Ripens(o, Trading!MakerFill(o, Trading!Remaining(o), trade.exch))
    <3> DEFINE left == Trading!Remaining(o)
    <3>1. left \in Nat \ {0} /\ left <= Trading!Remaining(o)
      BY <2>2
    <3> HIDE DEF left
    <3>2. Ripens(o, Trading!MakerFill(o, left, trade.exch))
      BY <1>2, <2>1, <3>1, MakerRipens
    <3> QED BY <3>2 DEF left
  <2>9. qty # 0 => Ripens(o, Trading!MakerFill(q, qty, trade.exch))
    <3>1. qty # 0 => Ripens(q, Trading!MakerFill(q, qty, trade.exch))
      BY <2>1, <2>5, <2>6, <2>7, MakerRipens
    <3> QED BY <2>6, <3>1, RipensTwice
  <2> QED BY <2>4, <2>6, <2>8, <2>9, RipensStays DEF m
<1> QED BY <1>1, <1>2

\* An order is asked to cancel while it lives, and only one that could rest.
Asks(o, p) ==
    /\ OrderOk(p)
    /\ p.qty = o.qty /\ p.postOnly = o.postOnly /\ p.kind = o.kind /\ p.tag = o.tag
    /\ p.taken = o.taken /\ p.made = o.made /\ p.state = o.state /\ p.closedAt = o.closedAt
    /\ p.times = o.times
    /\ o.cancelAskedAt # Trading!Never => p.cancelAskedAt # Trading!Never
    /\ p.cancelAskedAt # o.cancelAskedAt => o.kind = "limit" /\ ~Trading!Terminal(o)

LEMMA AsksNot == ASSUME NEW o, OrderOk(o) PROVE Asks(o, o)
  BY DEF Asks

LEMMA AsksTwice ==
  ASSUME NEW o, NEW p, NEW q, Asks(o, p), Asks(p, q)
  PROVE  Asks(o, q)
  BY DEF Asks, Trading!Terminal

LEMMA CancelledAsks ==
  ASSUME NEW o, OrderOk(o), o.kind = "limit", NEW at \in Nat
  PROVE  Asks(o, Trading!Cancelled(o, at))
<1> DEFINE p == Trading!Cancelled(o, at)
<1>1. CASE p = o
  BY <1>1, AsksNot
<1>2. CASE p # o
  <2>1. /\ o \in OrderType /\ ~Trading!Terminal(o) /\ p = [o EXCEPT !.cancelAskedAt = at]
    BY <1>2 DEF Trading!Cancelled, OrderOk
  <2>2. at \in Int /\ at # Trading!Never
    BY DEF Trading!Never
  <2> HIDE DEF p
  <2>3. p \in OrderType
    BY <2>1, <2>2, Zenon DEF OrderType
  <2>4. /\ p.tag = o.tag /\ p.kind = o.kind /\ p.qty = o.qty /\ p.postOnly = o.postOnly
        /\ p.taken = o.taken /\ p.made = o.made /\ p.times = o.times
        /\ p.cancelAskedAt = at /\ p.state = o.state /\ p.closedAt = o.closedAt
    BY <2>1 DEF OrderType
  <2>5. Trading!FilledQty(p) = Trading!FilledQty(o)
    BY <2>4 DEF Trading!FilledQty
  <2>6. OrderOk(p)
    BY <2>3, <2>4, <2>5 DEF OrderOk
  <2> QED BY <2>1, <2>2, <2>4, <2>6 DEF Asks, p
<1> QED BY <1>1, <1>2

LEMMA ExpiredAsks ==
  ASSUME NEW o, OrderOk(o), NEW now \in Nat
  PROVE  Asks(o, Trading!Expired(o, now))
<1>1. CASE Trading!Expired(o, now) = o
  BY <1>1, AsksNot
<1>2. CASE Trading!Expired(o, now) # o
  <2>1. Trading!InBook(o) /\ Trading!Expired(o, now) = Trading!Cancelled(o, now)
    BY <1>2 DEF Trading!Expired
  <2>2. o.kind = "limit"
    BY <2>1 DEF Trading!InBook, OrderOk, OrderType, Kinds
  <2> QED BY <2>1, <2>2, CancelledAsks
<1> QED BY <1>1, <1>2

\* What one event makes of an order.
MovesOn(o, p) == \E r : Ripens(o, r) /\ Asks(r, p)

LEMMA SawBookMoves ==
  ASSUME NEW o, OrderOk(o), NEW old \in BookType, NEW book \in BookType
  PROVE  MovesOn(o, Trading!SawBook(o, old, book))
<1> DEFINE now == book.exch
           l == Trading!Landed(o, now, book)
           p == Trading!Pulled(l, now)
           r == Trading!Requeued(p, old, book)
<1>1. now \in Nat
  BY DEF BookType
<1>2. Trading!SawBook(o, old, book) = Trading!Expired(r, now)
  BY DEF Trading!SawBook, Trading!Advanced
<1> HIDE DEF now
<1>3. Ripens(o, l) /\ OrderOk(l)
  BY LandedRipens DEF Ripens
<1> HIDE DEF l
<1>4. Ripens(l, p) /\ OrderOk(p)
  BY <1>1, <1>3, PulledRipens DEF Ripens
<1> HIDE DEF p
<1>5. Ripens(p, r) /\ OrderOk(r)
  BY <1>4, RequeuedRipens DEF Ripens
<1> HIDE DEF r
<1>6. Ripens(o, r)
  BY <1>3, <1>4, <1>5, RipensTwice
<1>7. Asks(r, Trading!Expired(r, now))
  BY <1>1, <1>5, ExpiredAsks
<1> QED BY <1>2, <1>6, <1>7 DEF MovesOn

LEMMA SawTradeMoves ==
  ASSUME NEW o, OrderOk(o), NEW book \in BookType, NEW trade \in TradeType
  PROVE  MovesOn(o, Trading!SawTrade(o, book, trade))
<1> DEFINE now == trade.exch
           l == Trading!Landed(o, now, book)
           p == Trading!Pulled(l, now)
           r == Trading!Matched(p, trade)
<1>1. now \in Nat
  BY DEF TradeType
<1>2. Trading!SawTrade(o, book, trade) = Trading!Expired(r, now)
  BY DEF Trading!SawTrade, Trading!Advanced
<1> HIDE DEF now
<1>3. Ripens(o, l) /\ OrderOk(l)
  BY LandedRipens DEF Ripens
<1> HIDE DEF l
<1>4. Ripens(l, p) /\ OrderOk(p)
  BY <1>1, <1>3, PulledRipens DEF Ripens
<1> HIDE DEF p
<1>5. Ripens(p, r) /\ OrderOk(r)
  BY <1>4, MatchedRipens DEF Ripens
<1> HIDE DEF r
<1>6. Ripens(o, r)
  BY <1>3, <1>4, <1>5, RipensTwice
<1>7. Asks(r, Trading!Expired(r, now))
  BY <1>1, <1>5, ExpiredAsks
<1> QED BY <1>2, <1>6, <1>7 DEF MovesOn

LEMMA MovesAndAsks ==
  ASSUME NEW o, NEW p, NEW q, MovesOn(o, p), Asks(p, q)
  PROVE  MovesOn(o, q)
<1>1. PICK r : Ripens(o, r) /\ Asks(r, p)
  BY DEF MovesOn
<1>2. Asks(r, q)
  BY <1>1, AsksTwice
<1> QED BY <1>1, <1>2 DEF MovesOn

\* What OrderLifecycle sees of a step of an order.
LEMMA LifeMoves ==
  ASSUME NEW o, NEW p, OrderOk(o), MovesOn(o, p)
  PROVE  Trading!LifeOf(p) = Trading!LifeOf(o)
            \/ Trading!Lifecycle!Moves(Trading!LifeOf(o), Trading!LifeOf(p))
<1> DEFINE a == Trading!LifeOf(o)
           b == Trading!LifeOf(p)
<1>1. PICK r : Ripens(o, r) /\ Asks(r, p)
  BY DEF MovesOn
<1>2. o \in OrderType /\ r \in OrderType /\ p \in OrderType /\ OrderOk(p)
  BY <1>1 DEF Ripens, Asks, OrderOk
<1>3. /\ o.taken \in Nat /\ o.made \in Nat /\ o.qty \in Nat
      /\ p.taken \in Nat /\ p.made \in Nat /\ p.qty \in Nat
      /\ o.kind \in Kinds /\ o.state \in OrderStates /\ p.state \in OrderStates
  BY <1>2, OrderFields
<1>4. /\ p.qty = o.qty /\ p.postOnly = o.postOnly /\ p.kind = o.kind
      /\ o.taken <= p.taken /\ o.made <= p.made
      /\ (o.state # "pending" => p.taken = o.taken)
      /\ (o.postOnly => p.taken = o.taken)
  BY <1>1, <1>2, <1>3 DEF Ripens, Asks, Forward, OrderOk
<1>5. /\ a = [stage |-> Trading!Stage(o), qty |-> o.qty, taken |-> o.taken, made |-> o.made,
              asked |-> o.cancelAskedAt # Trading!Never, postOnly |-> o.postOnly, market |-> o.kind = "market"]
      /\ b = [stage |-> Trading!Stage(p), qty |-> p.qty, taken |-> p.taken, made |-> p.made,
              asked |-> p.cancelAskedAt # Trading!Never, postOnly |-> p.postOnly, market |-> p.kind = "market"]
  BY DEF Trading!LifeOf
<1>6. o.cancelAskedAt # Trading!Never => p.cancelAskedAt # Trading!Never
  BY <1>1 DEF Ripens, Asks
<1>7. CASE Trading!Stage(o) \notin {"sent", "resting"}
  <2>1. o.state \in {"filled", "cancelled", "rejected"} \/ (o.state = "partial" /\ o.kind = "market")
    BY <1>2, <1>3, <1>7 DEF Trading!Stage, OrderOk, OrderStates, Kinds
  <2>2. p.state = o.state /\ p.cancelAskedAt = o.cancelAskedAt
    BY <1>1, <2>1 DEF Ripens, Asks, Forward, Trading!Terminal
  <2>3. p.taken = o.taken /\ p.made = o.made
    BY <1>1, <1>2, <1>3, <1>4, <2>1, <2>2 DEF Ripens, Asks, Forward, OrderOk, Trading!FilledQty
  <2>4. Trading!Stage(p) = Trading!Stage(o)
    BY <1>1, <1>2, <1>4, <2>1, <2>2 DEF Trading!Stage, Ripens, Asks, Forward, OrderOk
  <2> QED BY <1>4, <1>5, <2>2, <2>3, <2>4
<1>8. CASE Trading!Stage(o) \in {"sent", "resting"}
  <2> HIDE DEF a, b
  <2>1. /\ a.stage = Trading!Stage(o) /\ a.qty = o.qty /\ a.taken = o.taken /\ a.made = o.made
        /\ b.stage = Trading!Stage(p) /\ b.qty = p.qty /\ b.taken = p.taken /\ b.made = p.made
        /\ a.postOnly = o.postOnly /\ b.postOnly = p.postOnly
    BY <1>5
  <2>2. (a.asked <=> o.cancelAskedAt # Trading!Never) /\ (b.asked <=> p.cancelAskedAt # Trading!Never)
    BY <1>5, Zenon
  <2>3. (b.market <=> p.kind = "market") /\ b.market = a.market
    BY <1>4, <1>5, Zenon
  <2>4. Trading!Lifecycle!Kept(a, b) /\ (a.asked => b.asked)
    BY <1>4, <1>6, <2>1, <2>2, <2>3 DEF Trading!Lifecycle!Kept
  <2>5. Trading!FilledQty(p) = p.taken + p.made /\ Trading!FilledQty(p) <= p.qty
    BY <1>2 DEF OrderOk, Trading!FilledQty
  <2>6. /\ b.made >= a.made /\ b.taken >= a.taken /\ b.taken + b.made <= b.qty
        /\ a.stage = "resting" \/ b.postOnly => b.taken = a.taken
    <3>1. a.stage = "resting" => o.state # "pending"
      BY <2>1 DEF Trading!Stage
    <3> QED BY <1>3, <1>4, <2>1, <2>5, <3>1
  <2>7. \/ b.stage \in {a.stage, "resting"} /\ b.taken + b.made < b.qty
        \/ b.stage = "done" /\ b.taken + b.made = b.qty
        \/ b.stage = "done" /\ b.market
        \/ b.stage = "pulled" /\ b.taken + b.made < b.qty /\ a.asked
        \/ b.stage = "refused" /\ a.stage = "sent" /\ b.taken + b.made = 0
    <3>1. CASE p.state = "pending"
      <4>1. o.state = "pending" /\ Trading!FilledQty(p) < p.qty
        BY <1>1, <1>2, <1>3, <3>1 DEF Ripens, Asks, Forward, OrderOk
      <4> QED BY <2>1, <2>5, <3>1, <4>1 DEF Trading!Stage
    <3>2. CASE p.state = "rejected"
      <4>1. o.state = "pending" /\ Trading!FilledQty(p) = 0
        BY <1>1, <1>2, <1>8, <3>2 DEF Ripens, Asks, Forward, OrderOk, Trading!Stage
      <4> QED BY <2>1, <2>5, <3>2, <4>1 DEF Trading!Stage
    <3>3. CASE p.state = "filled"
      <4>1. Trading!FilledQty(p) = p.qty
        BY <1>2, <3>3 DEF OrderOk
      <4> QED BY <2>1, <2>5, <3>3, <4>1 DEF Trading!Stage
    <3>4. CASE p.state = "cancelled" /\ p.kind # "market"
      <4>1. p.kind = "limit" /\ Trading!FilledQty(p) < p.qty
        BY <1>2, <1>3, <1>4, <3>4 DEF OrderOk, Kinds
      <4>2. o.state = "cancelled" \/ o.cancelAskedAt # Trading!Never
        BY <1>1, <3>4, <4>1 DEF Ripens, Asks
      <4>3. o.state # "cancelled"
        BY <1>4, <1>8, <3>4 DEF Trading!Stage
      <4>4. b.stage = "pulled"
        BY <2>1, <3>4 DEF Trading!Stage
      <4> QED BY <2>1, <2>2, <2>5, <4>1, <4>2, <4>3, <4>4
    <3>5. CASE p.state \in {"open", "partial", "cancelled"} /\ p.kind = "market"
      <4>1. p.closedAt # Trading!Never
        BY <1>2, <3>5 DEF OrderOk
      <4> QED BY <2>1, <2>3, <3>5, <4>1 DEF Trading!Stage
    <3>6. CASE p.state \in {"open", "partial"} /\ p.kind # "market"
      <4>1. Trading!FilledQty(p) < p.qty
        BY <1>2, <1>3, <1>4, <3>6 DEF OrderOk, Kinds
      <4> QED BY <2>1, <2>5, <3>6, <4>1 DEF Trading!Stage
    <3> QED BY <1>3, <3>1, <3>2, <3>3, <3>4, <3>5, <3>6 DEF OrderStates
  <2> QED BY <1>8, <2>1, <2>4, <2>6, <2>7 DEF Trading!Lifecycle!Moves, Trading!Lifecycle!Filled, a, b
<1> QED BY <1>7, <1>8
-----------------------------------------------------------------------------
(* What a desk is: every order it names is one of its own, and what has    *)
(* opened or closed a position is named no more.                           *)

IsDesk(d) ==
    d = [orders |-> d.orders, entry |-> d.entry, exit |-> d.exit, quotes |-> d.quotes,
         position |-> d.position, journal |-> d.journal, realised |-> d.realised, peak |-> d.peak,
         drawdown |-> d.drawdown, sweep |-> d.sweep]
QuoteType == [tag : Trading!Sides, order : Nat]
RoundTrip == [entry : Nat, exit : Nat, net : Int]

OrdersOk(d) == d.orders \in Seq(OrderType) /\ \A i \in 1..Len(d.orders) : OrderOk(d.orders[i])
Named(d) == d.entry \in 0..Len(d.orders) /\ d.exit \in 0..Len(d.orders)
QuotesOk(d) ==
    /\ d.quotes \in Seq(QuoteType)
    /\ \A n \in 1..Len(d.quotes) :
          d.quotes[n].order \in 1..Len(d.orders) /\ d.orders[d.quotes[n].order].kind = "limit"
    /\ \A m, n \in 1..Len(d.quotes) : m # n => d.quotes[m].tag # d.quotes[n].tag
PositionOk(d) ==
    ~Trading!IsFlat(d) =>
        /\ d.position.side \in Trading!Sides /\ d.position.qty \in Nat \ {0}
        /\ d.position.cost \in Int /\ d.position.fees \in Int
        /\ d.position.order \in 1..Len(d.orders)
JournalOk(d) ==
    /\ d.journal \in Seq(RoundTrip)
    /\ \A m \in 1..Len(d.journal) :
          d.journal[m].entry \in 1..Len(d.orders) /\ d.journal[m].exit \in 0..Len(d.orders)
DeskOk(d) == IsDesk(d) /\ OrdersOk(d) /\ Named(d) /\ QuotesOk(d) /\ PositionOk(d) /\ JournalOk(d)

\* The orders that have opened a position.
Booked(d, i) ==
    \/ ~Trading!IsFlat(d) /\ i = d.position.order
    \/ \E m \in 1..Len(d.journal) : i = d.journal[m].entry
OpensOnce(d) ==
    /\ \A m, n \in 1..Len(d.journal) : m # n => d.journal[m].entry # d.journal[n].entry
    /\ ~Trading!IsFlat(d) => \A m \in 1..Len(d.journal) : d.journal[m].entry # d.position.order
    /\ d.entry # 0 => ~Booked(d, d.entry)
    /\ \A n \in 1..Len(d.quotes) : d.quotes[n].order # d.entry /\ ~Booked(d, d.quotes[n].order)
    /\ \A m, n \in 1..Len(d.quotes) : m # n => d.quotes[m].order # d.quotes[n].order
ClosesOnce(d) ==
    /\ \A m, n \in 1..Len(d.journal) : m # n => d.journal[m].exit # d.journal[n].exit
    /\ d.exit # 0 => \A m \in 1..Len(d.journal) : d.journal[m].exit # d.exit

\* What is known of the feed, and what the last event says of its quality.
FeedOk(f) ==
    /\ f.book \in BookType /\ f.seen \in BookType
    /\ f.lastEvent \in Nat /\ f.goodSince \in Nat /\ f.badAt \in Nat \cup {Trading!Never}
    /\ f.goodSince <= f.lastEvent
    /\ f.badAt # Trading!Never => f.goodSince = f.badAt
    /\ f.badAt # Trading!Never /\ f.quality = "ok" => f.lastEvent - f.badAt >= Rewarm

RunnerInv ==
    /\ strategy \in Trading!StrategyNames /\ clock \in Nat /\ feed.lastEvent <= clock
    /\ FeedOk(feed) /\ DeskOk(desk) /\ OpensOnce(desk) /\ ClosesOnce(desk)
    /\ \A m \in 1..Len(desk.journal) : desk.journal[m].exit = 0 => clock = MaxTime

\* While the run goes on no position has been closed by a mark.
NoMarks(d) == \A m \in 1..Len(d.journal) : d.journal[m].exit # 0
GoodDesk(d) == DeskOk(d) /\ OpensOnce(d) /\ ClosesOnce(d) /\ NoMarks(d)

\* A step that fills and sends nothing: orders are at most asked to cancel.
OnlyAsks(d, e) ==
    /\ Len(e.orders) = Len(d.orders)
    /\ \A i \in 1..Len(d.orders) : Asks(d.orders[i], e.orders[i])

LEMMA OrdersStay ==
  ASSUME NEW d, NEW e, OrdersOk(d), e.orders = d.orders
  PROVE  OnlyAsks(d, e)
  BY AsksNot DEF OrdersOk, OnlyAsks

LEMMA OnlyAsksTwice ==
  ASSUME NEW d, NEW e, NEW f, OnlyAsks(d, e), OnlyAsks(e, f)
  PROVE  OnlyAsks(d, f)
  BY AsksTwice DEF OnlyAsks

Opens(d, e, i) ==
    /\ IsDesk(e) /\ e.orders = d.orders /\ e.entry = d.entry /\ e.exit = d.exit
    /\ e.quotes = d.quotes /\ e.journal = d.journal
    /\ e.position.side \in Trading!Sides /\ e.position.qty \in Nat \ {0}
    /\ e.position.cost \in Int /\ e.position.fees \in Int /\ e.position.order = i
    /\ ~Trading!IsFlat(e)

LEMMA OpenedOpens ==
  ASSUME NEW d, DeskOk(d), NEW i \in 1..Len(d.orders), d.orders[i].times # <<>>
  PROVE  Opens(d, Trading!Opened(d, i), i)
<1> DEFINE o == d.orders[i]
           first == CHOOSE at \in Trading!Range(o.times) : \A b \in Trading!Range(o.times) : b <= at
           p == [side |-> o.side, qty |-> Trading!FilledQty(o), cost |-> o.cost, fees |-> o.fees,
                 order |-> i, openedAt |-> first]
           e == Trading!Opened(d, i)
<1>1. OrderOk(o) /\ o \in OrderType
  BY DEF DeskOk, OrdersOk, OrderOk
<1>2. /\ o.side \in Trading!Sides /\ Trading!FilledQty(o) \in Nat \ {0} /\ o.cost \in Int /\ o.fees \in Int
  <2>1. Trading!FilledQty(o) # 0
    BY <1>1 DEF OrderOk
  <2> QED BY <1>1, <2>1, OrderFields
<1>3. e = [d EXCEPT !.position = p]
  BY DEF Trading!Opened
<1> HIDE DEF o, first
<1>4. /\ p.side \in Trading!Sides /\ p.qty \in Nat \ {0} /\ p.cost \in Int /\ p.fees \in Int /\ p.order = i
      /\ p # Trading!None
  BY <1>2 DEF Trading!None, Trading!Sides
<1> HIDE DEF p, e
<1>5. /\ e.orders = d.orders /\ e.entry = d.entry /\ e.exit = d.exit
      /\ e.quotes = d.quotes /\ e.journal = d.journal /\ e.position = p
  BY <1>3 DEF DeskOk, IsDesk
<1>6. IsDesk(e)
  BY <1>3 DEF DeskOk, IsDesk
<1>7. Opens(d, e, i)
  BY <1>4, <1>5, <1>6 DEF Opens, Trading!IsFlat
<1> QED BY <1>7 DEF e

LEMMA EntrySettledGood ==
  ASSUME NEW d, GoodDesk(d)
  PROVE  GoodDesk(Trading!EntrySettled(d)) /\ OnlyAsks(d, Trading!EntrySettled(d))
<1> DEFINE e == Trading!EntrySettled(d)
<1>1. CASE e = d
  BY <1>1, OrdersStay DEF GoodDesk, DeskOk
<1>2. CASE e # d
  <2> DEFINE i == d.entry
             w == Trading!Opened(d, i)
  <2>1. Trading!HasFills(d, i) /\ Trading!IsFlat(d) /\ e = [w EXCEPT !.entry = 0]
    BY <1>2 DEF Trading!EntrySettled
  <2>2. i \in 1..Len(d.orders) /\ d.orders[i].times # <<>> /\ DeskOk(d)
    BY <2>1 DEF Trading!HasFills, GoodDesk, DeskOk, Named
  <2> HIDE DEF e, w
  <2>3. Opens(d, w, i)
    BY <2>2, OpenedOpens DEF w
  <2>4. /\ e.orders = d.orders /\ e.entry = 0 /\ e.exit = d.exit /\ e.quotes = d.quotes
        /\ e.journal = d.journal /\ e.position = w.position /\ IsDesk(e)
    BY <2>1, <2>3 DEF Opens, IsDesk
  <2>5. DeskOk(e)
    <3>1. OrdersOk(e) /\ QuotesOk(e) /\ JournalOk(e)
      BY <2>2, <2>4 DEF DeskOk, OrdersOk, QuotesOk, JournalOk
    <3>2. Named(e)
      BY <2>2, <2>4 DEF DeskOk, Named, OrdersOk
    <3>3. PositionOk(e)
      BY <2>2, <2>3, <2>4 DEF PositionOk, Opens
    <3> QED BY <2>4, <3>1, <3>2, <3>3 DEF DeskOk
  <2>6. OpensOnce(e)
    <3>1. ~Trading!IsFlat(e) /\ e.position.order = i
      BY <2>3, <2>4 DEF Opens, Trading!IsFlat
    <3>2. i # 0 /\ ~Booked(d, i)
      BY <2>2 DEF GoodDesk, OpensOnce
    <3>3. \A k : Booked(e, k) => k = i \/ Booked(d, k)
      BY <2>4, <3>1 DEF Booked
    <3>4. \A m \in 1..Len(e.journal) : e.journal[m].entry # i
      BY <2>4, <3>2 DEF Booked
    <3>5. \A n \in 1..Len(e.quotes) : e.quotes[n].order # i /\ ~Booked(d, e.quotes[n].order) /\ e.quotes[n].order # 0
      BY <2>2, <2>4 DEF GoodDesk, OpensOnce, DeskOk, QuotesOk
    <3>6. \A n \in 1..Len(e.quotes) : e.quotes[n].order # e.entry /\ ~Booked(e, e.quotes[n].order)
      BY <2>4, <3>3, <3>5
    <3>7. \A m, n \in 1..Len(e.quotes) : m # n => e.quotes[m].order # e.quotes[n].order
      BY <2>4 DEF GoodDesk, OpensOnce
    <3>8. \A m, n \in 1..Len(e.journal) : m # n => e.journal[m].entry # e.journal[n].entry
      BY <2>4 DEF GoodDesk, OpensOnce
    <3> QED BY <2>4, <3>1, <3>4, <3>6, <3>7, <3>8 DEF OpensOnce
  <2>7. ClosesOnce(e) /\ NoMarks(e)
    BY <2>4 DEF GoodDesk, ClosesOnce, NoMarks
  <2>8. OnlyAsks(d, e)
    BY <2>2, <2>4, OrdersStay DEF DeskOk
  <2> QED BY <2>5, <2>6, <2>7, <2>8 DEF GoodDesk, e
<1> QED BY <1>1, <1>2

Without(s, r, n) ==
    \A k \in 1..Len(r) : \E m \in (1..Len(s)) \ {n} : r[k] = s[m] /\ m = IF k < n THEN k ELSE k + 1

LEMMA RemovedAt ==
  ASSUME NEW S, NEW s \in Seq(S), NEW n \in 1..Len(s)
  PROVE  Trading!RemoveAt(s, n) \in Seq(S) /\ Without(s, Trading!RemoveAt(s, n), n)
<1> DEFINE a == SubSeq(s, 1, n - 1)
           b == SubSeq(s, n + 1, Len(s))
           r == a \o b
<1>1. n \in Nat /\ Len(s) \in Nat /\ n >= 1 /\ n <= Len(s)
  OBVIOUS
<1>2. a \in Seq(S) /\ Len(a) = n - 1 /\ \A k \in 1..(n - 1) : a[k] = s[k]
  BY <1>1
<1>3. b \in Seq(S) /\ Len(b) = Len(s) - n /\ \A k \in 1..(Len(s) - n) : b[k] = s[k + n]
  BY <1>1
<1> HIDE DEF a, b
<1>4. r \in Seq(S) /\ Len(r) = Len(s) - 1
  <2>0. a \in Seq(S) /\ b \in Seq(S)
    BY <1>2, <1>3
  <2>1. r \in Seq(S) /\ Len(r) = Len(a) + Len(b)
    BY <2>0
  <2> HIDE DEF r
  <2> QED BY <1>1, <1>2, <1>3, <2>1
<1>5. ASSUME NEW k \in 1..Len(r)
      PROVE  \E m \in (1..Len(s)) \ {n} : r[k] = s[m] /\ m = IF k < n THEN k ELSE k + 1
  <2>1. CASE k < n
    <3>1. r[k] = a[k] /\ a[k] = s[k]
      BY <1>1, <1>2, <1>3, <1>4, <2>1
    <3> QED BY <1>1, <1>4, <2>1, <3>1
  <2>2. CASE ~(k < n)
    <3>1. r[k] = b[k - (n - 1)] /\ b[k - (n - 1)] = s[(k - (n - 1)) + n] /\ (k - (n - 1)) + n = k + 1
      BY <1>1, <1>2, <1>3, <1>4, <2>2
    <3> QED BY <1>1, <1>4, <2>2, <3>1
  <2> QED BY <2>1, <2>2
<1>6. Without(s, r, n)
  BY <1>5 DEF Without
<1> QED BY <1>4, <1>6 DEF Trading!RemoveAt, a, b

LEMMA PointwiseSeq ==
  ASSUME NEW S, NEW s, NEW n \in Nat, s \in [1..n -> S]
  PROVE  s \in Seq(S) /\ Len(s) = n
  OBVIOUS

LEMMA OthersPulledAsks ==
  ASSUME NEW d, IsDesk(d), OrdersOk(d), QuotesOk(d), NEW n \in 1..Len(d.quotes),
         d.orders[d.quotes[n].order].times # <<>>
  PROVE  LET e == Trading!OthersPulled(d, n)
         IN  /\ IsDesk(e) /\ OrdersOk(e) /\ OnlyAsks(d, e)
             /\ e.quotes = Trading!RemoveAt(d.quotes, n)
             /\ e.entry = d.entry /\ e.exit = d.exit /\ e.position = d.position /\ e.journal = d.journal
<1> DEFINE times == d.orders[d.quotes[n].order].times
           at == Trading!Last(times)
           asked == [i \in DOMAIN d.orders |->
               IF \E m \in DOMAIN d.quotes \ {n} : d.quotes[m].order = i
               THEN Trading!Cancelled(d.orders[i], at) ELSE d.orders[i]]
           rest == Trading!RemoveAt(d.quotes, n)
           e == Trading!OthersPulled(d, n)
<1>1. at \in Nat
  <2>1. times \in Seq(Nat) /\ times # <<>>
    <3>1. d.quotes[n].order \in 1..Len(d.orders)
      BY DEF QuotesOk
    <3>2. d.orders[d.quotes[n].order] \in OrderType
      BY <3>1 DEF OrdersOk
    <3> QED BY <3>2, OrderFields
  <2> HIDE DEF times
  <2>2. Len(times) \in 1..Len(times)
    BY <2>1
  <2> QED BY <2>1, <2>2 DEF Trading!Last
<1>2. e = [d EXCEPT !.orders = asked, !.quotes = rest]
  BY DEF Trading!OthersPulled, IsDesk
<1> HIDE DEF at, rest, e
<1>3. DOMAIN d.orders = 1..Len(d.orders) /\ DOMAIN d.quotes = 1..Len(d.quotes) /\ Len(d.orders) \in Nat
  BY DEF OrdersOk, QuotesOk
<1>4. ASSUME NEW i \in 1..Len(d.orders)
      PROVE  Asks(d.orders[i], asked[i])
  <2>1. OrderOk(d.orders[i])
    BY DEF OrdersOk
  <2>2. CASE \E m \in DOMAIN d.quotes \ {n} : d.quotes[m].order = i
    <3>1. d.orders[i].kind = "limit"
      BY <1>3, <2>2 DEF QuotesOk
    <3>2. asked[i] = Trading!Cancelled(d.orders[i], at)
      BY <1>3, <2>2
    <3> QED BY <1>1, <2>1, <3>1, <3>2, CancelledAsks
  <2>3. CASE ~\E m \in DOMAIN d.quotes \ {n} : d.quotes[m].order = i
    <3>1. asked[i] = d.orders[i]
      BY <1>3, <2>3
    <3> QED BY <2>1, <3>1, AsksNot
  <2> QED BY <2>2, <2>3
<1>5. DOMAIN asked = 1..Len(d.orders) /\ asked = [i \in 1..Len(d.orders) |-> asked[i]]
  BY <1>3
<1> HIDE DEF asked
<1>6. \A i \in 1..Len(d.orders) : OrderOk(asked[i]) /\ asked[i] \in OrderType
  BY <1>4 DEF Asks, OrderOk
<1>7. asked \in [1..Len(d.orders) -> OrderType]
  BY <1>5, <1>6
<1>8. asked \in Seq(OrderType) /\ Len(asked) = Len(d.orders)
  BY <1>3, <1>7, PointwiseSeq
<1>9. /\ e.orders = asked /\ e.quotes = rest /\ IsDesk(e)
      /\ e.entry = d.entry /\ e.exit = d.exit /\ e.position = d.position /\ e.journal = d.journal
  BY <1>2 DEF IsDesk
<1>10. OrdersOk(e) /\ OnlyAsks(d, e)
  BY <1>4, <1>6, <1>8, <1>9 DEF OrdersOk, OnlyAsks
<1> QED BY <1>9, <1>10 DEF e, rest

LEMMA QuoteSettledGood ==
  ASSUME NEW d, GoodDesk(d), NEW n \in {1, 2}
  PROVE  GoodDesk(Trading!QuoteSettled(d, n)) /\ OnlyAsks(d, Trading!QuoteSettled(d, n))
<1> DEFINE e == Trading!QuoteSettled(d, n)
<1>1. CASE e = d
  BY <1>1, OrdersStay DEF GoodDesk, DeskOk
<1>2. CASE e # d
  <2> DEFINE i == d.quotes[n].order
             w == Trading!Opened(d, i)
  <2>1. n \in DOMAIN d.quotes /\ Trading!HasFills(d, i) /\ Trading!IsFlat(d) /\ e = Trading!OthersPulled(w, n)
    BY <1>2 DEF Trading!QuoteSettled
  <2>2. DeskOk(d) /\ n \in 1..Len(d.quotes) /\ d.quotes \in Seq(QuoteType)
    <3>1. DeskOk(d) /\ d.quotes \in Seq(QuoteType)
      BY DEF GoodDesk, DeskOk, QuotesOk
    <3> QED BY <2>1, <3>1
  <2>3. i \in 1..Len(d.orders) /\ d.orders[i].times # <<>>
    BY <2>1, <2>2 DEF Trading!HasFills, DeskOk, QuotesOk
  <2> HIDE DEF w
  <2>4. Opens(d, w, i)
    BY <2>2, <2>3, OpenedOpens DEF w
  <2>5. OrdersOk(w) /\ QuotesOk(w)
    BY <2>2, <2>4 DEF DeskOk, OrdersOk, QuotesOk, Opens
  <2> HIDE DEF e
  <2>6. /\ IsDesk(e) /\ OrdersOk(e) /\ OnlyAsks(w, e) /\ e.quotes = Trading!RemoveAt(d.quotes, n)
        /\ e.entry = d.entry /\ e.exit = d.exit /\ e.position = w.position /\ e.journal = d.journal
    <3>1. w.orders[w.quotes[n].order].times # <<>> /\ n \in 1..Len(w.quotes) /\ IsDesk(w)
      BY <2>2, <2>3, <2>4 DEF Opens
    <3> QED BY <2>1, <2>4, <2>5, <3>1, OthersPulledAsks DEF Opens
  <2>7. Len(e.orders) = Len(d.orders) /\ OnlyAsks(d, e)
    BY <2>4, <2>6 DEF Opens, OnlyAsks
  <2>8. /\ e.quotes \in Seq(QuoteType)
        /\ \A k \in 1..Len(e.quotes) :
             \E m \in (1..Len(d.quotes)) \ {n} : e.quotes[k] = d.quotes[m] /\ m = IF k < n THEN k ELSE k + 1
    <3>1. Without(d.quotes, e.quotes, n) /\ e.quotes \in Seq(QuoteType)
      BY <2>2, <2>6, RemovedAt
    <3> QED BY <3>1 DEF Without
  <2>9. DeskOk(e)
    <3>1. Named(e) /\ JournalOk(e)
      BY <2>2, <2>6, <2>7 DEF DeskOk, Named, JournalOk
    <3>2. QuotesOk(e)
      <4> SUFFICES ASSUME NEW k \in 1..Len(e.quotes)
                   PROVE  /\ e.quotes[k].order \in 1..Len(e.orders)
                          /\ e.orders[e.quotes[k].order].kind = "limit"
        <5>1. ASSUME NEW m \in 1..Len(e.quotes), NEW l \in 1..Len(e.quotes), m # l
              PROVE  e.quotes[m].tag # e.quotes[l].tag
          <6>1. PICK p \in (1..Len(d.quotes)) \ {n} : e.quotes[m] = d.quotes[p] /\ p = IF m < n THEN m ELSE m + 1
            BY <2>8
          <6>2. PICK q \in (1..Len(d.quotes)) \ {n} : e.quotes[l] = d.quotes[q] /\ q = IF l < n THEN l ELSE l + 1
            BY <2>8
          <6>3. p # q
            BY <2>2, <2>8, <5>1, <6>1, <6>2
          <6> QED BY <2>2, <6>1, <6>2, <6>3 DEF DeskOk, QuotesOk
        <5> QED BY <2>8, <5>1 DEF QuotesOk
      <4>1. PICK m \in 1..Len(d.quotes) : e.quotes[k] = d.quotes[m]
        BY <2>8
      <4>2. d.quotes[m].order \in 1..Len(d.orders) /\ d.orders[d.quotes[m].order].kind = "limit"
        BY <2>2 DEF DeskOk, QuotesOk
      <4>3. e.orders[d.quotes[m].order].kind = d.orders[d.quotes[m].order].kind
        BY <2>7, <4>2 DEF OnlyAsks, Asks
      <4> QED BY <2>7, <4>1, <4>2, <4>3
    <3>3. PositionOk(e)
      BY <2>3, <2>4, <2>6, <2>7 DEF PositionOk, Opens
    <3> QED BY <2>6, <3>1, <3>2, <3>3 DEF DeskOk
  <2>10. OpensOnce(e)
    <3>1. ~Trading!IsFlat(e) /\ e.position.order = i
      BY <2>4, <2>6 DEF Opens, Trading!IsFlat
    <3>2. i # d.entry /\ ~Booked(d, i)
      BY <2>2 DEF GoodDesk, OpensOnce
    <3>3. \A k : Booked(e, k) => k = i \/ Booked(d, k)
      BY <2>6, <3>1 DEF Booked
    <3>4. \A m \in 1..Len(e.journal) : e.journal[m].entry # i
      BY <2>6, <3>2 DEF Booked
    <3>5. \A m \in (1..Len(d.quotes)) \ {n} :
             d.quotes[m].order # i /\ ~Booked(d, d.quotes[m].order) /\ d.quotes[m].order # d.entry
      BY <2>2 DEF GoodDesk, OpensOnce
    <3>6. \A k \in 1..Len(e.quotes) : e.quotes[k].order # e.entry /\ ~Booked(e, e.quotes[k].order)
      BY <2>6, <2>8, <3>3, <3>5
    <3>7. ASSUME NEW k \in 1..Len(e.quotes), NEW l \in 1..Len(e.quotes), k # l
          PROVE  e.quotes[k].order # e.quotes[l].order
      <4>1. PICK m \in (1..Len(d.quotes)) \ {n} : e.quotes[k] = d.quotes[m] /\ m = IF k < n THEN k ELSE k + 1
        BY <2>8
      <4>2. PICK p \in (1..Len(d.quotes)) \ {n} : e.quotes[l] = d.quotes[p] /\ p = IF l < n THEN l ELSE l + 1
        BY <2>8
      <4>3. m # p
        BY <2>2, <2>8, <3>7, <4>1, <4>2
      <4> QED BY <4>1, <4>2, <4>3 DEF GoodDesk, OpensOnce
    <3>8. \A m, k \in 1..Len(e.journal) : m # k => e.journal[m].entry # e.journal[k].entry
      BY <2>6 DEF GoodDesk, OpensOnce
    <3>9. e.entry # 0 => ~Booked(e, e.entry)
      BY <2>6, <3>2, <3>3 DEF GoodDesk, OpensOnce
    <3> QED BY <3>1, <3>4, <3>6, <3>7, <3>8, <3>9 DEF OpensOnce
  <2>11. ClosesOnce(e) /\ NoMarks(e)
    BY <2>6 DEF GoodDesk, ClosesOnce, NoMarks
  <2> QED BY <2>7, <2>9, <2>10, <2>11 DEF GoodDesk, e
<1> QED BY <1>1, <1>2

LEMMA NetTyped ==
  ASSUME NEW p, p.qty \in Nat \ {0}, p.cost \in Int, p.fees \in Int,
         NEW o \in OrderType, Trading!FilledQty(o) # 0
  PROVE  Trading!Net(p, o) \in Int
<1> DEFINE filled == Trading!FilledQty(o)
           qty == Trading!Smaller(p.qty, filled)
           got == o.cost * Scale * qty
           paid == p.cost * Scale * qty
           gain == got \div filled - paid \div p.qty
<1>1. filled \in Nat \ {0} /\ o.cost \in Int /\ o.fees \in Int
  BY OrderFields
<1> HIDE DEF filled
<1>2. qty \in Nat /\ Scale \in Int
  <2>1. p.qty \in Nat /\ filled \in Nat
    BY <1>1
  <2>2. qty \in Nat
    BY <2>1, SmallerNat
  <2> QED BY <2>2, TradingAssumption
<1> HIDE DEF qty
<1>3. o.cost * Scale \in Int /\ p.cost * Scale \in Int
  BY <1>1, <1>2
<1>4. got \in Int /\ paid \in Int
  BY <1>2, <1>3
<1> HIDE DEF got, paid
<1>5. gain \in Int
  <2>1. got \div filled \in Int
    BY <1>1, <1>4
  <2>2. paid \div p.qty \in Int
    BY <1>4
  <2> QED BY <2>1, <2>2
<1>6. Trading!Net(p, o) = (IF p.side = "buy" THEN gain ELSE -gain) - p.fees - o.fees
  BY DEF Trading!Net, gain, got, paid, qty, filled
<1> HIDE DEF gain
<1> QED BY <1>1, <1>5, <1>6

Closes(d, e, i) ==
    /\ IsDesk(e) /\ e.orders = d.orders /\ e.entry = d.entry /\ e.quotes = d.quotes
    /\ e.exit = 0 /\ Trading!IsFlat(e)
    /\ e.journal \in Seq(RoundTrip) /\ Len(e.journal) = Len(d.journal) + 1
    /\ \A m \in 1..Len(d.journal) : e.journal[m] = d.journal[m]
    /\ e.journal[Len(e.journal)].entry = d.position.order
    /\ e.journal[Len(e.journal)].exit = i

LEMMA ClosedByCloses ==
  ASSUME NEW d, DeskOk(d), ~Trading!IsFlat(d), NEW o \in OrderType, Trading!FilledQty(o) # 0,
         NEW i \in 0..Len(d.orders)
  PROVE  Closes(d, Trading!ClosedBy(d, o, i), i)
<1> DEFINE net == Trading!Net(d.position, o)
           sum == d.realised + net
           top == Trading!Higher(d.peak, sum)
           low == Trading!Higher(d.drawdown, top - sum)
           trip == [entry |-> d.position.order, exit |-> i, net |-> net]
           journal == Append(d.journal, trip)
           e == Trading!ClosedBy(d, o, i)
<1>1. net \in Int /\ d.position.order \in Nat /\ i \in Nat
  BY NetTyped DEF DeskOk, PositionOk, OrdersOk
<1>2. e = [d EXCEPT !.position = Trading!None, !.exit = 0, !.journal = journal,
                    !.realised = sum, !.peak = top, !.drawdown = low]
  BY DEF Trading!ClosedBy, DeskOk, IsDesk
<1> HIDE DEF net, sum, top, low, e
<1>3. trip \in RoundTrip /\ trip.entry = d.position.order /\ trip.exit = i
  BY <1>1 DEF RoundTrip
<1> HIDE DEF trip
<1>4. /\ journal \in Seq(RoundTrip) /\ Len(journal) = Len(d.journal) + 1
      /\ journal[Len(journal)] = trip /\ \A m \in 1..Len(d.journal) : journal[m] = d.journal[m]
  <2>1. d.journal \in Seq(RoundTrip)
    BY DEF DeskOk, JournalOk
  <2> QED BY <1>3, <2>1
<1> HIDE DEF journal
<1>5. /\ e.orders = d.orders /\ e.entry = d.entry /\ e.quotes = d.quotes
      /\ e.exit = 0 /\ e.position = Trading!None /\ e.journal = journal /\ IsDesk(e)
  BY <1>2 DEF DeskOk, IsDesk
<1>6. Closes(d, e, i)
  BY <1>3, <1>4, <1>5 DEF Closes, Trading!IsFlat
<1> QED BY <1>6 DEF e

\* Closing moves the order that opened the position into the journal.
LEMMA ClosesKeeps ==
  ASSUME NEW d, NEW e, NEW i \in 0..Len(d.orders), DeskOk(d), OpensOnce(d), ~Trading!IsFlat(d), Closes(d, e, i)
  PROVE  DeskOk(e) /\ OpensOnce(e) /\ OnlyAsks(d, e)
<1>1. Len(d.journal) \in Nat /\ Len(e.journal) = Len(d.journal) + 1
  BY DEF DeskOk, JournalOk, Closes
<1>2. \A m \in 1..Len(e.journal) : m \in 1..Len(d.journal) \/ m = Len(e.journal)
  BY <1>1
<1>3. DeskOk(e)
  <2>1. OrdersOk(e) /\ QuotesOk(e) /\ Named(e) /\ PositionOk(e)
    BY DEF Closes, DeskOk, OrdersOk, QuotesOk, Named, PositionOk
  <2>2. JournalOk(e)
    BY <1>2 DEF Closes, DeskOk, JournalOk, PositionOk
  <2> QED BY <2>1, <2>2 DEF DeskOk, Closes
<1>4. \A k : Booked(e, k) => Booked(d, k)
  BY <1>2 DEF Booked, Closes
<1>5. ASSUME NEW m \in 1..Len(e.journal), NEW n \in 1..Len(e.journal), m # n
      PROVE  e.journal[m].entry # e.journal[n].entry
  <2>1. CASE m \in 1..Len(d.journal) /\ n \in 1..Len(d.journal)
    <3>1. d.journal[m].entry # d.journal[n].entry
      BY <1>5, <2>1 DEF OpensOnce
    <3> QED BY <2>1, <3>1 DEF Closes
  <2>2. CASE m = Len(e.journal) /\ n \in 1..Len(d.journal)
    BY <2>2 DEF OpensOnce, Closes
  <2>3. CASE n = Len(e.journal) /\ m \in 1..Len(d.journal)
    BY <2>3 DEF OpensOnce, Closes
  <2> QED BY <1>2, <1>5, <2>1, <2>2, <2>3
<1>6. OpensOnce(e)
  <2>1. e.entry # 0 => ~Booked(e, e.entry)
    BY <1>4 DEF OpensOnce, Closes
  <2>2. \A n \in 1..Len(e.quotes) : e.quotes[n].order # e.entry /\ ~Booked(e, e.quotes[n].order)
    BY <1>4 DEF OpensOnce, Closes
  <2>3. \A m, n \in 1..Len(e.quotes) : m # n => e.quotes[m].order # e.quotes[n].order
    BY DEF OpensOnce, Closes
  <2> QED BY <1>5, <2>1, <2>2, <2>3 DEF OpensOnce, Closes
<1> QED BY <1>3, <1>6, OrdersStay DEF Closes, DeskOk

\* An exit that is not in the journal yet closes once more.
LEMMA ClosesOnceMore ==
  ASSUME NEW d, NEW e, NEW i \in 0..Len(d.orders), DeskOk(d), ClosesOnce(d), Closes(d, e, i),
         \A m \in 1..Len(d.journal) : d.journal[m].exit # i
  PROVE  ClosesOnce(e)
<1>1. Len(d.journal) \in Nat /\ Len(e.journal) = Len(d.journal) + 1
  BY DEF DeskOk, JournalOk, Closes
<1>2. \A m \in 1..Len(e.journal) : m \in 1..Len(d.journal) \/ m = Len(e.journal)
  BY <1>1
<1>3. ASSUME NEW m \in 1..Len(e.journal), NEW n \in 1..Len(e.journal), m # n
      PROVE  e.journal[m].exit # e.journal[n].exit
  <2>1. CASE m \in 1..Len(d.journal) /\ n \in 1..Len(d.journal)
    <3>1. d.journal[m].exit # d.journal[n].exit
      BY <1>3, <2>1 DEF ClosesOnce
    <3> QED BY <2>1, <3>1 DEF Closes
  <2>2. CASE m = Len(e.journal) /\ n \in 1..Len(d.journal)
    BY <2>2 DEF ClosesOnce, Closes
  <2>3. CASE n = Len(e.journal) /\ m \in 1..Len(d.journal)
    BY <2>3 DEF ClosesOnce, Closes
  <2> QED BY <1>2, <1>3, <2>1, <2>2, <2>3
<1> QED BY <1>3 DEF ClosesOnce, Closes

LEMMA ExitSettledGood ==
  ASSUME NEW d, GoodDesk(d)
  PROVE  GoodDesk(Trading!ExitSettled(d)) /\ OnlyAsks(d, Trading!ExitSettled(d))
<1> DEFINE e == Trading!ExitSettled(d)
<1>1. CASE e = d
  BY <1>1, OrdersStay DEF GoodDesk, DeskOk
<1>2. CASE e # d
  <2> DEFINE i == d.exit
             o == d.orders[i]
  <2>1. Trading!HasFills(d, i) /\ ~Trading!IsFlat(d) /\ e = Trading!ClosedBy(d, o, i)
    BY <1>2 DEF Trading!ExitSettled
  <2>2. DeskOk(d) /\ i \in 1..Len(d.orders) /\ i \in 0..Len(d.orders) /\ i # 0
    BY <2>1 DEF Trading!HasFills, GoodDesk, DeskOk, Named
  <2>3. o \in OrderType /\ Trading!FilledQty(o) # 0
    BY <2>1, <2>2 DEF Trading!HasFills, DeskOk, OrdersOk, OrderOk
  <2> HIDE DEF e, o
  <2>4. Closes(d, e, i)
    BY <2>1, <2>2, <2>3, ClosedByCloses
  <2>5. DeskOk(e) /\ OpensOnce(e) /\ OnlyAsks(d, e)
    BY <2>1, <2>2, <2>4, ClosesKeeps DEF GoodDesk
  <2>6. ClosesOnce(e)
    BY <2>2, <2>4, ClosesOnceMore DEF GoodDesk, ClosesOnce
  <2>7. NoMarks(e)
    BY <2>2, <2>4 DEF GoodDesk, NoMarks, Closes, DeskOk, JournalOk
  <2> QED BY <2>5, <2>6, <2>7 DEF GoodDesk, e
<1> QED BY <1>1, <1>2

LEMMA SettledGood ==
  ASSUME NEW d, GoodDesk(d)
  PROVE  GoodDesk(Trading!Settled(d)) /\ OnlyAsks(d, Trading!Settled(d))
<1> DEFINE a == Trading!EntrySettled(d)
           b == Trading!QuoteSettled(a, 1)
           c == Trading!QuoteSettled(b, 2)
           e == Trading!ExitSettled(c)
<1>1. Trading!Settled(d) = e
  BY DEF Trading!Settled, Trading!QuotesSettled
<1>2. GoodDesk(a) /\ OnlyAsks(d, a)
  BY EntrySettledGood
<1> HIDE DEF a
<1>3. GoodDesk(b) /\ OnlyAsks(a, b)
  BY <1>2, QuoteSettledGood
<1> HIDE DEF b
<1>4. GoodDesk(c) /\ OnlyAsks(b, c)
  BY <1>3, QuoteSettledGood
<1> HIDE DEF c
<1>5. GoodDesk(e) /\ OnlyAsks(c, e)
  BY <1>4, ExitSettledGood
<1> HIDE DEF e
<1>6. OnlyAsks(d, c)
  BY <1>2, <1>3, <1>4, OnlyAsksTwice
<1> QED BY <1>1, <1>5, <1>6, OnlyAsksTwice
-----------------------------------------------------------------------------
(* What a strategy sends.                                                  *)

Fresh(o) ==
    /\ OrderOk(o) /\ o.taken = 0 /\ o.made = 0 /\ o.cancelAskedAt = Trading!Never
    /\ o.state \in {"pending", "rejected"}

LEMMA FreshIsSent ==
  ASSUME NEW o, Fresh(o)
  PROVE  Trading!Lifecycle!Sent(Trading!LifeOf(o))
<1> DEFINE a == Trading!LifeOf(o)
<1>1. a = [stage |-> Trading!Stage(o), qty |-> o.qty, taken |-> o.taken, made |-> o.made,
           asked |-> o.cancelAskedAt # Trading!Never, postOnly |-> o.postOnly, market |-> o.kind = "market"]
  BY DEF Trading!LifeOf
<1> HIDE DEF a
<1>2. a.taken = 0 /\ a.made = 0 /\ a.stage = Trading!Stage(o)
  BY <1>1 DEF Fresh
<1>3. ~a.asked
  <2>1. a.asked = (o.cancelAskedAt # Trading!Never)
    BY <1>1
  <2> QED BY <2>1 DEF Fresh
<1>4. a.stage \in {"sent", "refused"}
  BY <1>2 DEF Fresh, Trading!Stage
<1>5. Trading!Lifecycle!Sent(a)
  BY <1>2, <1>3, <1>4 DEF Trading!Lifecycle!Sent
<1> QED BY <1>5 DEF a

Unsent(o) ==
    /\ o \in OrderType /\ o.state = "pending" /\ o.taken = 0 /\ o.made = 0 /\ o.times = <<>>
    /\ o.cancelAskedAt = Trading!Never /\ o.closedAt = Trading!Never
    /\ o.postOnly => o.kind = "limit"

LEMMA SubmittedFresh ==
  ASSUME NEW o, Unsent(o), NEW book
  PROVE  /\ Fresh(Trading!Submitted(o, book))
         /\ Trading!Submitted(o, book).tag = o.tag /\ Trading!Submitted(o, book).kind = o.kind
<1> DEFINE s == Trading!Submitted(o, book)
<1>1. o \in OrderType /\ Trading!FilledQty(o) = 0 /\ o.qty \in Nat
  BY OrderFields DEF Unsent, Trading!FilledQty
<1>2. (s = o /\ o.qty # 0) \/ s = Trading!Rejected(o)
  BY DEF Trading!Submitted
<1> HIDE DEF s
<1>3. CASE s = o /\ o.qty # 0
  <2>1. OrderOk(o)
    BY <1>1, <1>3 DEF OrderOk, Unsent
  <2> QED BY <1>3, <2>1 DEF Fresh, Unsent, s
<1>4. CASE s = Trading!Rejected(o)
  <2>1. Closing(o, s, "rejected", Trading!ArrivesAt(o))
    <3>1. s = Trading!Closed(o, "rejected", Trading!ArrivesAt(o)) /\ "rejected" \in OrderStates
      BY <1>4 DEF Trading!Rejected, OrderStates
    <3> QED BY <1>1, <3>1, CloseFields, ArrivalNat
  <2>2. Trading!FilledQty(s) = 0
    BY <1>1, <2>1 DEF Trading!FilledQty, Closing
  <2>3. OrderOk(s)
    BY <1>1, <2>1, <2>2 DEF OrderOk, Closing, Unsent
  <2>4. Fresh(s) /\ s.tag = o.tag /\ s.kind = o.kind
    BY <2>1, <2>3 DEF Fresh, Closing, Unsent
  <2> QED BY <2>4 DEF s
<1> QED BY <1>2, <1>3, <1>4

LEMMA LimitsTyped ==
  Qty \in Nat /\ PassiveTtl \in Int /\ Trading!Never \in Int /\ Trading!NoPrice \in Int
  BY TradingAssumption DEF Trading!Never, Trading!NoPrice

LimitOrder(tag, side, price, t) == Trading!Order(tag, side, "limit", price, Qty, TRUE, t, PassiveTtl)
MarketOrder(tag, side, qty, t) ==
    Trading!Order(tag, side, "market", Trading!NoPrice, qty, FALSE, t, Trading!Never)

LEMMA LimitUnsent ==
  ASSUME NEW tag \in {"entry", "exit", "quote"}, NEW side \in Trading!Sides, NEW price \in Int, NEW t \in Nat
  PROVE  Unsent(LimitOrder(tag, side, price, t)) /\ LimitOrder(tag, side, price, t).tag = tag /\ LimitOrder(tag, side, price, t).kind = "limit"
<1> DEFINE o == LimitOrder(tag, side, price, t)
<1>1. /\ o.tag = tag /\ o.kind = "limit" /\ o.taken = 0 /\ o.made = 0
      /\ o.state = "pending" /\ o.times = <<>>
      /\ o.cancelAskedAt = Trading!Never /\ o.closedAt = Trading!Never
  BY DEF LimitOrder, Trading!Order
<1>2. o.postOnly = TRUE
  BY Zenon DEF LimitOrder, Trading!Order
<1>3. o \in OrderType
  <2>1. /\ "pending" \in OrderStates /\ "limit" \in Kinds /\ TRUE \in BOOLEAN /\ <<>> \in Seq(Nat) /\ 0 \in Nat /\ 0 \in Int
        /\ Trading!Never \in Int /\ price \in Int /\ Qty \in Nat /\ PassiveTtl \in Int
    BY LimitsTyped DEF OrderStates, Kinds
  <2> QED BY <2>1, Zenon DEF LimitOrder, Trading!Order, OrderType
<1> HIDE DEF o
<1>4. Unsent(o) /\ o.tag = tag /\ o.kind = "limit"
  BY <1>1, <1>2, <1>3 DEF Unsent
<1> QED BY <1>4 DEF o

LEMMA MarketUnsent ==
  ASSUME NEW tag \in {"entry", "exit", "quote"}, NEW side \in Trading!Sides, NEW qty \in Nat, NEW t \in Nat
  PROVE  Unsent(MarketOrder(tag, side, qty, t)) /\ MarketOrder(tag, side, qty, t).tag = tag /\ MarketOrder(tag, side, qty, t).kind = "market"
<1> DEFINE o == MarketOrder(tag, side, qty, t)
<1>1. /\ o.tag = tag /\ o.kind = "market" /\ o.taken = 0 /\ o.made = 0
      /\ o.state = "pending" /\ o.times = <<>>
      /\ o.cancelAskedAt = Trading!Never /\ o.closedAt = Trading!Never
  BY DEF MarketOrder, Trading!Order
<1>2. o.postOnly = FALSE
  BY Zenon DEF MarketOrder, Trading!Order
<1>3. o \in OrderType
  <2>1. /\ "pending" \in OrderStates /\ "market" \in Kinds /\ FALSE \in BOOLEAN /\ <<>> \in Seq(Nat) /\ 0 \in Nat /\ 0 \in Int
        /\ Trading!Never \in Int /\ Trading!NoPrice \in Int /\ qty \in Nat /\ Trading!Never \in Int
    BY LimitsTyped DEF OrderStates, Kinds
  <2> QED BY <2>1, Zenon DEF MarketOrder, Trading!Order, OrderType
<1> HIDE DEF o
<1>4. Unsent(o) /\ o.tag = tag /\ o.kind = "market"
  BY <1>1, <1>2, <1>3 DEF Unsent
<1> QED BY <1>4 DEF o

\* Old orders stay as they are, and what is sent on a bad feed is an exit.
Grows(d, e, f) ==
    /\ Len(e.orders) >= Len(d.orders)
    /\ \A i \in 1..Len(d.orders) : e.orders[i] = d.orders[i]
    /\ \A i \in 1..Len(e.orders) :
          i > Len(d.orders) => Fresh(e.orders[i]) /\ (e.orders[i].tag # "exit" => f.quality = "ok")

LEMMA GrowsNot ==
  ASSUME NEW d, NEW e, NEW f, OrdersOk(d), e.orders = d.orders
  PROVE  Grows(d, e, f)
  BY DEF Grows, OrdersOk

LEMMA GrowsTwice ==
  ASSUME NEW d, NEW e, NEW g, NEW f, OrdersOk(d), OrdersOk(e), OrdersOk(g), Grows(d, e, f), Grows(e, g, f)
  PROVE  Grows(d, g, f)
<1>1. Len(d.orders) \in Nat /\ Len(e.orders) \in Nat /\ Len(g.orders) \in Nat
  BY DEF OrdersOk
<1>2. ASSUME NEW i \in 1..Len(g.orders), i > Len(d.orders)
      PROVE  Fresh(g.orders[i]) /\ (g.orders[i].tag # "exit" => f.quality = "ok")
  BY <1>1, <1>2 DEF Grows
<1> QED BY <1>1, <1>2 DEF Grows

Adds(d, e, o) ==
    IsDesk(e) /\ e.orders = Append(d.orders, o) /\ e.position = d.position /\ e.journal = d.journal

LEMMA AddsKeeps ==
  ASSUME NEW d, NEW e, NEW o, NEW f, DeskOk(d), Fresh(o), Adds(d, e, o), o.tag # "exit" => f.quality = "ok"
  PROVE  /\ Len(e.orders) = Len(d.orders) + 1 /\ e.orders[Len(d.orders) + 1] = o
         /\ \A i \in 1..Len(d.orders) : e.orders[i] = d.orders[i]
         /\ Len(d.orders) \in Nat
         /\ OrdersOk(e) /\ PositionOk(e) /\ JournalOk(e) /\ Grows(d, e, f)
         /\ \A k : Booked(e, k) <=> Booked(d, k)
         /\ ~Booked(e, Len(e.orders))
<1>1. d.orders \in Seq(OrderType) /\ o \in OrderType
  BY DEF DeskOk, OrdersOk, Fresh, OrderOk
<1>2. /\ e.orders \in Seq(OrderType) /\ Len(e.orders) = Len(d.orders) + 1 /\ Len(d.orders) \in Nat
      /\ e.orders[Len(d.orders) + 1] = o
      /\ \A i \in 1..Len(d.orders) : e.orders[i] = d.orders[i]
  BY <1>1 DEF Adds
<1>3. \A i \in 1..Len(e.orders) : i \in 1..Len(d.orders) \/ i = Len(d.orders) + 1
  BY <1>2
<1>4. OrdersOk(e)
  BY <1>2, <1>3 DEF DeskOk, OrdersOk, Fresh
<1>5. PositionOk(e) /\ JournalOk(e)
  BY <1>2 DEF DeskOk, PositionOk, JournalOk, Adds, Trading!IsFlat
<1>6. Grows(d, e, f)
  BY <1>2, <1>3 DEF Grows
<1>7. \A k : Booked(e, k) <=> Booked(d, k)
  BY DEF Booked, Adds, Trading!IsFlat
<1>8. ~Booked(d, Len(d.orders) + 1)
  BY <1>2 DEF Booked, DeskOk, PositionOk, JournalOk
<1> QED BY <1>2, <1>4, <1>5, <1>6, <1>7, <1>8

LEMMA QuotesStay ==
  ASSUME NEW d, NEW e, QuotesOk(d), e.quotes = d.quotes, Len(d.orders) \in Nat,
         Len(e.orders) = Len(d.orders) + 1, \A i \in 1..Len(d.orders) : e.orders[i] = d.orders[i]
  PROVE  QuotesOk(e)
<1>1. ASSUME NEW n \in 1..Len(d.quotes)
      PROVE  d.quotes[n].order \in 1..Len(e.orders) /\ e.orders[d.quotes[n].order].kind = "limit"
  <2>1. d.quotes[n].order \in 1..Len(d.orders) /\ d.orders[d.quotes[n].order].kind = "limit"
    BY DEF QuotesOk
  <2> QED BY <2>1
<1> QED BY <1>1 DEF QuotesOk

LEMMA EntryAdded ==
  ASSUME NEW d, NEW e, NEW o, NEW f, GoodDesk(d), Fresh(o), Adds(d, e, o), o.tag # "exit" => f.quality = "ok",
         e.entry = Len(d.orders) + 1, e.exit = d.exit, e.quotes = d.quotes
  PROVE  GoodDesk(e) /\ Grows(d, e, f)
<1>1. DeskOk(d)
  BY DEF GoodDesk
<1>2. /\ Len(e.orders) = Len(d.orders) + 1 /\ e.orders[Len(d.orders) + 1] = o
      /\ \A i \in 1..Len(d.orders) : e.orders[i] = d.orders[i]
      /\ Len(d.orders) \in Nat
      /\ OrdersOk(e) /\ PositionOk(e) /\ JournalOk(e) /\ Grows(d, e, f)
      /\ \A k : Booked(e, k) <=> Booked(d, k)
      /\ ~Booked(e, Len(e.orders))
  BY <1>1, AddsKeeps
<1>3. Named(e)
  BY <1>1, <1>2 DEF DeskOk, Named
<1>4. QuotesOk(e)
  BY <1>1, <1>2, QuotesStay DEF DeskOk
<1>5. \A n \in 1..Len(e.quotes) : e.quotes[n].order # e.entry
  BY <1>1, <1>2 DEF DeskOk, QuotesOk
<1>6. OpensOnce(e)
  BY <1>2, <1>5 DEF GoodDesk, OpensOnce, Adds, Trading!IsFlat
<1>7. ClosesOnce(e) /\ NoMarks(e)
  BY DEF GoodDesk, ClosesOnce, NoMarks, Adds
<1> QED BY <1>2, <1>3, <1>4, <1>6, <1>7 DEF GoodDesk, DeskOk, Adds

LEMMA ExitAdded ==
  ASSUME NEW d, NEW e, NEW o, NEW f, GoodDesk(d), Fresh(o), Adds(d, e, o), o.tag # "exit" => f.quality = "ok",
         e.exit = Len(d.orders) + 1, e.entry = d.entry, e.quotes = d.quotes
  PROVE  GoodDesk(e) /\ Grows(d, e, f)
<1>1. DeskOk(d)
  BY DEF GoodDesk
<1>2. /\ Len(e.orders) = Len(d.orders) + 1 /\ e.orders[Len(d.orders) + 1] = o
      /\ \A i \in 1..Len(d.orders) : e.orders[i] = d.orders[i]
      /\ Len(d.orders) \in Nat
      /\ OrdersOk(e) /\ PositionOk(e) /\ JournalOk(e) /\ Grows(d, e, f)
      /\ \A k : Booked(e, k) <=> Booked(d, k)
      /\ ~Booked(e, Len(e.orders))
  BY <1>1, AddsKeeps
<1>3. Named(e)
  BY <1>1, <1>2 DEF DeskOk, Named
<1>4. QuotesOk(e)
  BY <1>1, <1>2, QuotesStay DEF DeskOk
<1>5. OpensOnce(e)
  BY <1>2 DEF GoodDesk, OpensOnce, Adds, Trading!IsFlat
<1>6. ClosesOnce(e) /\ NoMarks(e)
  BY <1>1, <1>2 DEF GoodDesk, ClosesOnce, NoMarks, Adds, DeskOk, JournalOk
<1> QED BY <1>2, <1>3, <1>4, <1>5, <1>6 DEF GoodDesk, DeskOk, Adds

\* A quote takes the place of the one that had its name, or a place of its own.
SetAt(q, r, tag, i) ==
    /\ r \in Seq(QuoteType)
    /\ \A n \in 1..Len(r) :
          \/ r[n].order = i /\ r[n].tag = tag
          \/ n \in 1..Len(q) /\ r[n] = q[n] /\ q[n].tag # tag
    /\ \A m, n \in 1..Len(r) : m # n => r[m].tag # r[n].tag

LEMMA QuoteSet ==
  ASSUME NEW q \in Seq(QuoteType), NEW tag \in Trading!Sides, NEW i \in Nat,
         \A m, n \in 1..Len(q) : m # n => q[m].tag # q[n].tag
  PROVE  SetAt(q, Trading!SetQuote(q, tag, i), tag, i)
<1> DEFINE new == [tag |-> tag, order |-> i]
           r == Trading!SetQuote(q, tag, i)
<1>1. new \in QuoteType /\ new.tag = tag /\ new.order = i
  BY DEF QuoteType
<1>2. DOMAIN q = 1..Len(q) /\ Len(q) \in Nat /\ \A n \in 1..Len(q) : q[n] \in QuoteType
  OBVIOUS
<1>3. CASE \E s \in Trading!Range(q) : s.tag = tag
  <2>1. r = [n \in 1..Len(q) |-> IF q[n].tag = tag THEN new ELSE q[n]]
    BY <1>2, <1>3 DEF Trading!SetQuote
  <2> HIDE DEF r, new
  <2>2. r \in [1..Len(q) -> QuoteType]
    BY <1>1, <1>2, <2>1
  <2>3. r \in Seq(QuoteType) /\ Len(r) = Len(q)
    BY <1>2, <2>2, PointwiseSeq
  <2>4. \A n \in 1..Len(r) : r[n] = IF q[n].tag = tag THEN new ELSE q[n]
    BY <2>1, <2>3
  <2>5. \A n \in 1..Len(r) : r[n].tag = q[n].tag
    BY <1>1, <2>4
  <2>6. SetAt(q, r, tag, i)
    BY <1>1, <2>3, <2>4, <2>5 DEF SetAt
  <2> QED BY <2>6 DEF r
<1>4. CASE ~\E s \in Trading!Range(q) : s.tag = tag
  <2>1. \A n \in 1..Len(q) : q[n].tag # tag
    BY <1>2, <1>4 DEF Trading!Range
  <2>2. r = Append(q, new)
    BY <1>4 DEF Trading!SetQuote
  <2> HIDE DEF r, new
  <2>3. /\ r \in Seq(QuoteType) /\ Len(r) = Len(q) + 1 /\ r[Len(q) + 1] = new
        /\ \A n \in 1..Len(q) : r[n] = q[n]
    BY <1>1, <2>2
  <2>4. \A n \in 1..Len(r) : n \in 1..Len(q) \/ n = Len(q) + 1
    BY <1>2, <2>3
  <2>5. \A m, n \in 1..Len(r) : m # n => r[m].tag # r[n].tag
    BY <1>1, <2>1, <2>3, <2>4
  <2>6. SetAt(q, r, tag, i)
    BY <1>1, <2>1, <2>3, <2>4, <2>5 DEF SetAt
  <2> QED BY <2>6 DEF r
<1> QED BY <1>3, <1>4

LEMMA QuoteAdded ==
  ASSUME NEW d, NEW e, NEW o, NEW f, GoodDesk(d), Fresh(o), Adds(d, e, o), o.tag # "exit" => f.quality = "ok",
         o.kind = "limit", NEW tag \in Trading!Sides,
         e.quotes = Trading!SetQuote(d.quotes, tag, Len(d.orders) + 1), e.exit = d.exit, e.entry = d.entry
  PROVE  GoodDesk(e) /\ Grows(d, e, f)
<1> DEFINE new == Len(d.orders) + 1
<1>1. DeskOk(d)
  BY DEF GoodDesk
<1>2. /\ Len(e.orders) = Len(d.orders) + 1 /\ e.orders[Len(d.orders) + 1] = o
      /\ \A i \in 1..Len(d.orders) : e.orders[i] = d.orders[i]
      /\ Len(d.orders) \in Nat
      /\ OrdersOk(e) /\ PositionOk(e) /\ JournalOk(e) /\ Grows(d, e, f)
      /\ \A k : Booked(e, k) <=> Booked(d, k)
      /\ ~Booked(e, Len(e.orders))
  BY <1>1, AddsKeeps
<1>3. Named(e)
  BY <1>1, <1>2 DEF DeskOk, Named
<1>4. new \in Nat /\ d.quotes \in Seq(QuoteType) /\ \A m, n \in 1..Len(d.quotes) : m # n => d.quotes[m].tag # d.quotes[n].tag
  <2>1. new \in Nat
    BY <1>2
  <2>2. QuotesOk(d)
    BY <1>1 DEF DeskOk
  <2> QED BY <2>1, <2>2 DEF QuotesOk
<1> HIDE DEF new
<1>5. SetAt(d.quotes, e.quotes, tag, new)
  BY <1>4, QuoteSet DEF new
<1>6. \A n \in 1..Len(d.quotes) :
         /\ d.quotes[n].order \in 1..Len(d.orders) /\ d.orders[d.quotes[n].order].kind = "limit"
         /\ d.quotes[n].order # d.entry /\ ~Booked(d, d.quotes[n].order)
  BY <1>1 DEF DeskOk, QuotesOk, GoodDesk, OpensOnce
<1>7. ASSUME NEW n \in 1..Len(e.quotes)
      PROVE  /\ e.quotes[n].order \in 1..Len(e.orders) /\ e.orders[e.quotes[n].order].kind = "limit"
             /\ e.quotes[n].order # e.entry /\ ~Booked(e, e.quotes[n].order)
  <2>1. CASE e.quotes[n].order = new
    BY <1>1, <1>2, <2>1 DEF new, DeskOk, Named
  <2>2. CASE n \in 1..Len(d.quotes) /\ e.quotes[n] = d.quotes[n]
    <3> DEFINE i == d.quotes[n].order
    <3>1. i \in 1..Len(d.orders) /\ d.orders[i].kind = "limit" /\ i # d.entry /\ ~Booked(d, i)
      BY <1>6, <2>2
    <3>2. e.quotes[n].order = i
      BY <2>2
    <3> HIDE DEF i
    <3>3. i \in 1..Len(e.orders) /\ e.orders[i] = d.orders[i]
      BY <1>2, <3>1
    <3>4. ~Booked(e, i)
      BY <1>2, <3>1
    <3> QED BY <3>1, <3>2, <3>3, <3>4
  <2> QED BY <1>5, <2>1, <2>2 DEF SetAt
<1>8. QuotesOk(e)
  BY <1>5, <1>7 DEF SetAt, QuotesOk
<1>9. ASSUME NEW m \in 1..Len(e.quotes), NEW n \in 1..Len(e.quotes), m # n
      PROVE  e.quotes[m].order # e.quotes[n].order
  <2>1. e.quotes[m].tag # e.quotes[n].tag
    BY <1>5, <1>9 DEF SetAt
  <2>2. CASE m \in 1..Len(d.quotes) /\ e.quotes[m] = d.quotes[m] /\ n \in 1..Len(d.quotes) /\ e.quotes[n] = d.quotes[n]
    BY <1>9, <2>2 DEF GoodDesk, OpensOnce
  <2>3. CASE e.quotes[m].order = new /\ e.quotes[m].tag = tag /\ n \in 1..Len(d.quotes) /\ e.quotes[n] = d.quotes[n]
    BY <1>2, <1>6, <2>3 DEF new
  <2>4. CASE e.quotes[n].order = new /\ e.quotes[n].tag = tag /\ m \in 1..Len(d.quotes) /\ e.quotes[m] = d.quotes[m]
    BY <1>2, <1>6, <2>4 DEF new
  <2> QED BY <1>5, <2>1, <2>2, <2>3, <2>4 DEF SetAt
<1>10. OpensOnce(e)
  <2>1. e.entry # 0 => ~Booked(e, e.entry)
    BY <1>2 DEF GoodDesk, OpensOnce
  <2>2. \A m, n \in 1..Len(e.journal) : m # n => e.journal[m].entry # e.journal[n].entry
    BY DEF GoodDesk, OpensOnce, Adds
  <2>3. ~Trading!IsFlat(e) => \A m \in 1..Len(e.journal) : e.journal[m].entry # e.position.order
    BY DEF GoodDesk, OpensOnce, Adds, Trading!IsFlat
  <2> QED BY <1>7, <1>9, <2>1, <2>2, <2>3 DEF OpensOnce
<1>11. ClosesOnce(e) /\ NoMarks(e)
  BY DEF GoodDesk, ClosesOnce, NoMarks, Adds
<1> QED BY <1>2, <1>3, <1>8, <1>10, <1>11 DEF GoodDesk, DeskOk, Adds

LEMMA TouchNat ==
  ASSUME NEW f, f.seen \in BookType, Trading!Usable(f.seen), NEW side
  PROVE  Trading!Touch(side, f) \in Nat
<1> DEFINE levels == Trading!OwnSide(side, f.seen)
<1>1. levels \in Seq(Trading!Level2) /\ levels # <<>>
  BY DEF BookType, Trading!OwnSide, Trading!Usable
<1> HIDE DEF levels
<1>2. levels[1] \in Trading!Level2
  BY <1>1
<1> QED BY <1>2 DEF Trading!Touch, Trading!Level2, levels

LEMMA SendAdds ==
  ASSUME NEW d, DeskOk(d), NEW o, NEW f, NEW e,
         \/ \E i : e = [Trading!Send(d, o, f) EXCEPT !.entry = i]
         \/ \E i : e = [Trading!Send(d, o, f) EXCEPT !.exit = i]
         \/ \E q : e = [Trading!Send(d, o, f) EXCEPT !.quotes = q]
  PROVE  Adds(d, e, Trading!Submitted(o, f.book))
<1> DEFINE s == Trading!Submitted(o, f.book)
<1>1. Trading!Send(d, o, f) = [d EXCEPT !.orders = Append(d.orders, s)]
  BY DEF Trading!Send, DeskOk, IsDesk
<1>2. IsDesk(d)
  BY DEF DeskOk
<1> HIDE DEF s
<1>3. Adds(d, e, s)
  BY <1>1, <1>2 DEF Adds, IsDesk
<1> QED BY <1>3 DEF s

LEMMA EnterGood ==
  ASSUME NEW d, GoodDesk(d), NEW f, f.seen \in BookType, Trading!Usable(f.seen),
         NEW side \in Trading!Sides, NEW passive, NEW t \in Nat
  PROVE  GoodDesk(Trading!Enter(d, f, side, passive, t)) /\ Grows(d, Trading!Enter(d, f, side, passive, t), f)
<1> DEFINE limit == LimitOrder("entry", side, Trading!Touch(side, f), t)
           market == MarketOrder("entry", side, Qty, t)
           order == IF passive THEN limit ELSE market
           s == Trading!Submitted(order, f.book)
           e == Trading!Enter(d, f, side, passive, t)
<1>1. DeskOk(d) /\ OrdersOk(d)
  BY DEF GoodDesk, DeskOk
<1>2. CASE e = d
  BY <1>1, <1>2, GrowsNot
<1>3. CASE e # d
  <2>1. f.quality = "ok" /\ e = [Trading!Send(d, order, f) EXCEPT !.entry = Len(d.orders) + 1]
    BY <1>3 DEF Trading!Enter, LimitOrder, MarketOrder
  <2>2. Fresh(s) /\ s.tag = "entry"
    <3>1. Trading!Touch(side, f) \in Int /\ "entry" \in {"entry", "exit", "quote"}
      BY TouchNat
    <3>2. Unsent(limit) /\ limit.tag = "entry"
      BY <3>1, LimitUnsent
    <3>3. Unsent(market) /\ market.tag = "entry"
      BY <3>1, LimitsTyped, MarketUnsent
    <3> HIDE DEF limit, market
    <3>4. Unsent(order) /\ order.tag = "entry"
      BY <3>2, <3>3
    <3> HIDE DEF order
    <3> QED BY <3>4, SubmittedFresh
  <2> HIDE DEF e, s, order
  <2>3. Adds(d, e, s)
    BY <1>1, <2>1, SendAdds DEF s
  <2>4. e.entry = Len(d.orders) + 1 /\ e.exit = d.exit /\ e.quotes = d.quotes
    BY <1>1, <2>1 DEF Trading!Send, DeskOk, IsDesk
  <2>5. GoodDesk(e) /\ Grows(d, e, f)
    BY <2>1, <2>2, <2>3, <2>4, EntryAdded
  <2> QED BY <2>5 DEF e
<1> QED BY <1>2, <1>3

LEMMA ExitGood ==
  ASSUME NEW d, GoodDesk(d), ~Trading!IsFlat(d), NEW f, NEW t \in Nat
  PROVE  GoodDesk(Trading!Exit(d, f, t)) /\ Grows(d, Trading!Exit(d, f, t), f)
<1> DEFINE side == IF d.position.side = "buy" THEN "sell" ELSE "buy"
           qty == d.position.qty
           order == MarketOrder("exit", side, qty, t)
           s == Trading!Submitted(order, f.book)
           e == Trading!Exit(d, f, t)
<1>1. DeskOk(d) /\ OrdersOk(d) /\ qty \in Nat /\ side \in Trading!Sides
  BY DEF GoodDesk, DeskOk, PositionOk, Trading!Sides
<1>2. CASE e = d
  BY <1>1, <1>2, GrowsNot
<1>3. CASE e # d
  <2>1. e = [Trading!Send(d, order, f) EXCEPT !.exit = Len(d.orders) + 1]
    BY <1>3 DEF Trading!Exit, MarketOrder
  <2> HIDE DEF e, qty, side
  <2>2. Fresh(s) /\ s.tag = "exit"
    <3>1. Unsent(order) /\ order.tag = "exit"
      BY <1>1, MarketUnsent
    <3> HIDE DEF order
    <3> QED BY <3>1, SubmittedFresh
  <2> HIDE DEF s, order
  <2>3. Adds(d, e, s)
    BY <1>1, <2>1, SendAdds DEF s
  <2>4. e.exit = Len(d.orders) + 1 /\ e.entry = d.entry /\ e.quotes = d.quotes
    BY <1>1, <2>1 DEF Trading!Send, DeskOk, IsDesk
  <2>5. GoodDesk(e) /\ Grows(d, e, f)
    BY <2>1, <2>2, <2>3, <2>4, ExitAdded
  <2> QED BY <2>5 DEF e
<1> QED BY <1>2, <1>3

LEMMA QuoteGood ==
  ASSUME NEW d, GoodDesk(d), NEW f, f.seen \in BookType, Trading!Usable(f.seen),
         NEW side \in Trading!Sides, NEW t \in Nat
  PROVE  GoodDesk(Trading!Quote(d, f, side, t)) /\ Grows(d, Trading!Quote(d, f, side, t), f)
<1> DEFINE away == IF Trading!IsFlat(d) THEN 0 ELSE 1
           price == IF side = "buy" THEN Trading!Touch(side, f) - away ELSE Trading!Touch(side, f) + away
           order == LimitOrder("quote", side, price, t)
           s == Trading!Submitted(order, f.book)
           e == Trading!Quote(d, f, side, t)
<1>1. DeskOk(d) /\ OrdersOk(d)
  BY DEF GoodDesk, DeskOk
<1>2. CASE e = d
  BY <1>1, <1>2, GrowsNot
<1>3. CASE e # d
  <2>1. /\ f.quality = "ok"
        /\ e = [Trading!Send(d, order, f) EXCEPT !.quotes = Trading!SetQuote(d.quotes, side, Len(d.orders) + 1)]
    <3>1. IsDesk(d)
      BY <1>1 DEF DeskOk
    <3> QED BY <1>3, <3>1 DEF Trading!Quote, Trading!Send, IsDesk, LimitOrder
  <2>2. price \in Int
    BY TouchNat
  <2> HIDE DEF e, price
  <2>3. Fresh(s) /\ s.tag = "quote" /\ s.kind = "limit"
    <3>1. Unsent(order) /\ order.tag = "quote" /\ order.kind = "limit"
      BY <2>2, LimitUnsent
    <3> HIDE DEF order
    <3> QED BY <3>1, SubmittedFresh
  <2> HIDE DEF s, order
  <2>4. Adds(d, e, s)
    BY <1>1, <2>1, SendAdds DEF s
  <2>5. e.quotes = Trading!SetQuote(d.quotes, side, Len(d.orders) + 1) /\ e.exit = d.exit /\ e.entry = d.entry
    BY <1>1, <2>1 DEF Trading!Send, DeskOk, IsDesk
  <2>6. GoodDesk(e) /\ Grows(d, e, f)
    BY <2>1, <2>3, <2>4, <2>5, QuoteAdded
  <2> QED BY <2>6 DEF e
<1> QED BY <1>2, <1>3

LEMMA SweepSet ==
  ASSUME NEW d, GoodDesk(d), NEW f, NEW sweep
  PROVE  LET e == [d EXCEPT !.sweep = sweep]
         IN  GoodDesk(e) /\ Grows(d, e, f) /\ e.position = d.position /\ e.orders = d.orders
<1> DEFINE e == [d EXCEPT !.sweep = sweep]
<1>1. DeskOk(d)
  BY DEF GoodDesk
<1>2. /\ IsDesk(e) /\ e.orders = d.orders /\ e.entry = d.entry /\ e.exit = d.exit /\ e.quotes = d.quotes
      /\ e.position = d.position /\ e.journal = d.journal
  BY <1>1 DEF DeskOk, IsDesk
<1> HIDE DEF e
<1>3. OrdersOk(e) /\ Named(e) /\ QuotesOk(e) /\ PositionOk(e) /\ JournalOk(e)
  BY <1>1, <1>2 DEF DeskOk, OrdersOk, Named, QuotesOk, PositionOk, JournalOk, Trading!IsFlat
<1>4. \A k : Booked(e, k) <=> Booked(d, k)
  BY <1>2 DEF Booked, Trading!IsFlat
<1>5. OpensOnce(e) /\ ClosesOnce(e) /\ NoMarks(e)
  BY <1>2, <1>4 DEF GoodDesk, OpensOnce, ClosesOnce, NoMarks, Trading!IsFlat
<1>6. Grows(d, e, f)
  BY <1>1, <1>2, GrowsNot DEF DeskOk
<1> QED BY <1>2, <1>3, <1>5, <1>6 DEF GoodDesk, DeskOk, e

\* What a strategy makes of the desk it is asked about.
Answers(d, e, f) == GoodDesk(e) /\ Grows(d, e, f)

LEMMA AnswersNot ==
  ASSUME NEW d, GoodDesk(d), NEW f
  PROVE  Answers(d, d, f)
  BY GrowsNot DEF Answers, GoodDesk, DeskOk

LEMMA AnswersTwice ==
  ASSUME NEW d, NEW e, NEW g, NEW f, GoodDesk(d), Answers(d, e, f), Answers(e, g, f)
  PROVE  Answers(d, g, f)
  BY GrowsTwice DEF Answers, GoodDesk, DeskOk

LEMMA ImpulseAnswers ==
  ASSUME NEW d, GoodDesk(d), NEW f, f.seen \in BookType, NEW v, v.side \in Trading!Sides, NEW t \in Nat, NEW x
  PROVE  Answers(d, Trading!OrderFlowImpulse(d, f, v, t, x), f)
<1>1. ~Trading!IsFlat(d) => Answers(d, Trading!Exit(d, f, t), f)
  BY ExitGood DEF Answers
<1>2. Trading!Warm(f) => Answers(d, Trading!Enter(d, f, v.side, v.passive, t), f)
  <2> DEFINE side == v.side
             passive == v.passive
  <2> HIDE DEF side, passive
  <2>1. side \in Trading!Sides
    BY DEF side
  <2>2. Trading!Warm(f) => Answers(d, Trading!Enter(d, f, side, passive, t), f)
    BY <2>1, EnterGood DEF Answers, Trading!Warm
  <2> QED BY <2>2 DEF side, passive
<1> QED BY <1>1, <1>2, AnswersNot DEF Trading!OrderFlowImpulse

LEMMA CaptureAnswers ==
  ASSUME NEW d, GoodDesk(d), NEW f, f.seen \in BookType, NEW v, NEW t \in Nat, NEW x
  PROVE  Answers(d, Trading!SpreadCapture(d, f, v, t, x), f)
<1> DEFINE q == Trading!Quote(d, f, "buy", t)
           r == Trading!Quote(q, f, "sell", t)
<1>1. ~Trading!IsFlat(d) => Answers(d, Trading!Exit(d, f, t), f)
  BY ExitGood DEF Answers
<1>2. CASE Trading!Warm(f)
  <2>1. "buy" \in Trading!Sides /\ "sell" \in Trading!Sides /\ Trading!Usable(f.seen)
    BY <1>2 DEF Trading!Sides, Trading!Warm
  <2>2. Answers(d, q, f)
    BY <2>1, QuoteGood DEF Answers
  <2>3. GoodDesk(q)
    BY <2>2 DEF Answers
  <2> HIDE DEF q
  <2>4. Answers(q, r, f)
    BY <2>1, <2>3, QuoteGood DEF Answers
  <2> HIDE DEF r
  <2>5. Answers(d, r, f)
    BY <2>2, <2>4, AnswersTwice
  <2> QED BY <1>1, <1>2, <2>5, AnswersNot DEF Trading!SpreadCapture, q, r
<1>3. CASE ~Trading!Warm(f)
  BY <1>3, AnswersNot DEF Trading!SpreadCapture
<1> QED BY <1>2, <1>3

LEMMA ReversionAnswers ==
  ASSUME NEW d, GoodDesk(d), NEW f, f.seen \in BookType, NEW v, NEW t \in Nat, NEW x
  PROVE  Answers(d, Trading!SweepReversion(d, f, v, t, x), f)
<1> DEFINE side == IF d.sweep.side = "sell" THEN "buy" ELSE "sell"
           over == [d EXCEPT !.sweep = Trading!None]
           began == [d EXCEPT !.sweep = Trading!Sweep(v, f, t)]
           follows == [d EXCEPT !.sweep.extreme = Trading!Mid2(f.seen)]
           fades == Trading!Enter(over, f, side, v.passive, t)
<1>1. ~Trading!IsFlat(d) => Answers(d, Trading!Exit(d, f, t), f)
  BY ExitGood DEF Answers
<1>2. Answers(d, over, f) /\ GoodDesk(over) /\ Answers(d, began, f)
  BY SweepSet DEF Answers
<1>3. Answers(d, follows, f)
  <2> DEFINE sweep == [d.sweep EXCEPT !.extreme = Trading!Mid2(f.seen)]
  <2>1. follows = [d EXCEPT !.sweep = sweep]
    BY DEF GoodDesk, DeskOk, IsDesk
  <2> HIDE DEF sweep, follows
  <2> QED BY <2>1, SweepSet DEF Answers
<1>4. Trading!Warm(f) => Answers(d, fades, f)
  <2>1. side \in Trading!Sides
    BY DEF Trading!Sides
  <2> DEFINE passive == v.passive
  <2> HIDE DEF side, over, passive
  <2>2. Trading!Warm(f) => Answers(over, Trading!Enter(over, f, side, passive, t), f)
    BY <1>2, <2>1, EnterGood DEF Answers, Trading!Warm
  <2> QED BY <1>2, <2>2, AnswersTwice DEF passive
<1> HIDE DEF over, began, follows, fades
<1>5. \/ Trading!SweepReversion(d, f, v, t, x) \in {d, over, began, follows}
      \/ ~Trading!IsFlat(d) /\ Trading!SweepReversion(d, f, v, t, x) = Trading!Exit(d, f, t)
      \/ Trading!Warm(f) /\ Trading!SweepReversion(d, f, v, t, x) = fades
  BY DEF Trading!SweepReversion, over, began, follows, fades
<1> QED BY <1>1, <1>2, <1>3, <1>4, <1>5, AnswersNot

LEMMA DecidedAnswers ==
  ASSUME NEW d, GoodDesk(d), NEW f, f.seen \in BookType, NEW v, v.side \in Trading!Sides, NEW t \in Nat, NEW x,
         strategy \in Trading!StrategyNames
  PROVE  Answers(d, Trading!Decided(d, f, v, t, x), f)
<1>1. CASE strategy = "order_flow_impulse"
  BY <1>1, ImpulseAnswers DEF Trading!Decided
<1>2. CASE strategy = "spread_capture"
  BY <1>2, CaptureAnswers DEF Trading!Decided
<1>3. CASE strategy = "sweep_reversion"
  BY <1>3, ReversionAnswers DEF Trading!Decided
<1> QED BY <1>1, <1>2, <1>3 DEF Trading!StrategyNames
-----------------------------------------------------------------------------
(* One event of the market.                                                *)

Reordered(d, e, orders) ==
    /\ IsDesk(e) /\ e.orders = orders /\ e.entry = d.entry /\ e.exit = d.exit /\ e.quotes = d.quotes
    /\ e.position = d.position /\ e.journal = d.journal

LEMMA Reordering ==
  ASSUME NEW d, IsDesk(d), NEW orders
  PROVE  Reordered(d, [d EXCEPT !.orders = orders], orders)
  BY DEF IsDesk, Reordered

LEMMA OrdersMove ==
  ASSUME NEW d, GoodDesk(d), NEW orders, orders = [i \in 1..Len(d.orders) |-> orders[i]],
         \A i \in 1..Len(d.orders) : MovesOn(d.orders[i], orders[i])
  PROVE  LET e == [d EXCEPT !.orders = orders]
         IN  GoodDesk(e) /\ e.orders = orders /\ Len(e.orders) = Len(d.orders)
<1> DEFINE e == [d EXCEPT !.orders = orders]
<1>1. DeskOk(d) /\ Len(d.orders) \in Nat
  BY DEF GoodDesk, DeskOk, OrdersOk
<1>2. \A i \in 1..Len(d.orders) :
         OrderOk(orders[i]) /\ orders[i] \in OrderType /\ orders[i].kind = d.orders[i].kind
  <2> SUFFICES ASSUME NEW i \in 1..Len(d.orders)
               PROVE  OrderOk(orders[i]) /\ orders[i] \in OrderType /\ orders[i].kind = d.orders[i].kind
    OBVIOUS
  <2>1. MovesOn(d.orders[i], orders[i])
    OBVIOUS
  <2> QED BY <2>1 DEF MovesOn, Ripens, Forward, Asks, OrderOk
<1>3. orders \in [1..Len(d.orders) -> OrderType]
  BY <1>2
<1>4. orders \in Seq(OrderType) /\ Len(orders) = Len(d.orders)
  BY <1>1, <1>3, PointwiseSeq
<1>5. /\ IsDesk(e) /\ e.orders = orders /\ e.entry = d.entry /\ e.exit = d.exit /\ e.quotes = d.quotes
      /\ e.position = d.position /\ e.journal = d.journal
  BY <1>1, Reordering DEF DeskOk, Reordered
<1> HIDE DEF e
<1>6. OrdersOk(e)
  BY <1>2, <1>4, <1>5 DEF OrdersOk
<1>7. Named(e) /\ PositionOk(e) /\ JournalOk(e)
  BY <1>1, <1>4, <1>5 DEF DeskOk, Named, PositionOk, JournalOk, Trading!IsFlat
<1>8. QuotesOk(e)
  <2>1. ASSUME NEW n \in 1..Len(d.quotes)
        PROVE  d.quotes[n].order \in 1..Len(d.orders) /\ orders[d.quotes[n].order].kind = "limit"
    <3>1. d.quotes[n].order \in 1..Len(d.orders) /\ d.orders[d.quotes[n].order].kind = "limit"
      BY <1>1 DEF DeskOk, QuotesOk
    <3> QED BY <1>2, <3>1
  <2>2. /\ d.quotes \in Seq(QuoteType)
        /\ \A m, n \in 1..Len(d.quotes) : m # n => d.quotes[m].tag # d.quotes[n].tag
    BY <1>1 DEF DeskOk, QuotesOk
  <2>3. e.quotes = d.quotes /\ e.orders = orders /\ Len(orders) = Len(d.orders)
    BY <1>4, <1>5
  <2> QED BY <2>1, <2>2, <2>3 DEF QuotesOk
<1>9. \A k : Booked(e, k) <=> Booked(d, k)
  BY <1>5 DEF Booked, Trading!IsFlat
<1>10. OpensOnce(e) /\ ClosesOnce(e) /\ NoMarks(e)
  BY <1>5, <1>9 DEF GoodDesk, OpensOnce, ClosesOnce, NoMarks, Trading!IsFlat
<1> QED BY <1>4, <1>5, <1>6, <1>7, <1>8, <1>10 DEF GoodDesk, DeskOk, e

\* What is seen of the feed at an event that brings a book, or none.
SeenBook(book, t) == Trading!Observed(book, TRUE, t)
SeenTrade(t) == Trading!Observed(feed.book, FALSE, t)

LEMMA FeedSeen ==
  ASSUME FeedOk(feed), NEW t \in Nat, feed.lastEvent <= t, NEW book \in BookType
  PROVE  /\ FeedOk(SeenBook(book, t)) /\ SeenBook(book, t).lastEvent = t
         /\ FeedOk(SeenTrade(t)) /\ SeenTrade(t).lastEvent = t
<1>1. Rewarm \in Nat
  BY TradingAssumption
<1>2. ASSUME NEW b \in BookType
      PROVE  LET a == Trading!Assessed(b, t)
                 bad == IF Trading!Gap(t) \/ Trading!Stale(b, t) THEN t ELSE feed.badAt
             IN  /\ a.goodSince \in Nat /\ a.goodSince <= t /\ bad \in Nat \cup {Trading!Never}
                 /\ bad # Trading!Never => a.goodSince = bad
                 /\ bad # Trading!Never /\ a.quality = "ok" => t - bad >= Rewarm
  <2> DEFINE a == Trading!Assessed(b, t)
             bad == IF Trading!Gap(t) \/ Trading!Stale(b, t) THEN t ELSE feed.badAt
  <2>1. /\ feed.goodSince \in Nat /\ feed.badAt \in Nat \cup {Trading!Never} /\ feed.goodSince <= feed.lastEvent
        /\ feed.lastEvent \in Nat
        /\ feed.badAt # Trading!Never => feed.goodSince = feed.badAt
        /\ feed.badAt # Trading!Never /\ feed.quality = "ok" => feed.lastEvent - feed.badAt >= Rewarm
    BY DEF FeedOk
  <2>2. CASE Trading!Stale(b, t)
    <3>1. a.quality = "stale" /\ a.goodSince = t /\ bad = t
      BY <2>2 DEF Trading!Assessed
    <3> HIDE DEF a, bad
    <3>2. /\ a.goodSince \in Nat /\ a.goodSince <= t /\ bad \in Nat \cup {Trading!Never}
          /\ (bad # Trading!Never => a.goodSince = bad)
          /\ (bad # Trading!Never /\ a.quality = "ok" => t - bad >= Rewarm)
      BY <3>1
    <3> QED BY <3>2 DEF a, bad
  <2>3. CASE ~Trading!Stale(b, t) /\ Trading!Gap(t)
    <3>1. a.goodSince = t /\ bad = t /\ (a.quality = "ok" => t - t >= Rewarm)
      BY <1>1, <2>3 DEF Trading!Assessed
    <3> HIDE DEF a, bad
    <3>2. /\ a.goodSince \in Nat /\ a.goodSince <= t /\ bad \in Nat \cup {Trading!Never}
          /\ (bad # Trading!Never => a.goodSince = bad)
          /\ (bad # Trading!Never /\ a.quality = "ok" => t - bad >= Rewarm)
      BY <3>1
    <3> QED BY <3>2 DEF a, bad
  <2>4. CASE ~Trading!Stale(b, t) /\ ~Trading!Gap(t)
    <3>1. /\ a.goodSince = feed.goodSince /\ bad = feed.badAt
          /\ a.quality = "ok" => feed.quality = "ok" \/ t - feed.goodSince >= Rewarm
      BY <1>1, <2>1, <2>4 DEF Trading!Assessed
    <3> HIDE DEF a, bad
    <3>2. bad # Trading!Never /\ a.quality = "ok" => t - bad >= Rewarm
      <4> SUFFICES ASSUME bad # Trading!Never, a.quality = "ok" PROVE t - bad >= Rewarm
        OBVIOUS
      <4>1. bad \in Nat /\ feed.goodSince = bad
        BY <2>1, <3>1
      <4>2. CASE t - feed.goodSince >= Rewarm
        BY <4>1, <4>2
      <4>3. CASE feed.quality = "ok"
        <5>1. feed.lastEvent - bad >= Rewarm
          BY <2>1, <3>1, <4>3
        <5> QED BY <1>1, <2>1, <4>1, <5>1
      <4> QED BY <3>1, <4>2, <4>3
    <3>3. /\ a.goodSince \in Nat /\ a.goodSince <= t /\ bad \in Nat \cup {Trading!Never}
          /\ (bad # Trading!Never => a.goodSince = bad)
      BY <2>1, <3>1
    <3> QED BY <3>2, <3>3 DEF a, bad
  <2> QED BY <2>2, <2>3, <2>4
<1>3. feed.book \in BookType /\ feed.seen \in BookType
  BY DEF FeedOk
<1>4. FeedOk(SeenBook(book, t)) /\ SeenBook(book, t).lastEvent = t
  <2> DEFINE a == Trading!Assessed(book, t)
             bad == IF Trading!Gap(t) \/ Trading!Stale(book, t) THEN t ELSE feed.badAt
             f == SeenBook(book, t)
  <2>1. /\ f.lastEvent = t /\ f.quality = a.quality /\ f.goodSince = a.goodSince /\ f.book = book
        /\ f.seen \in {book, feed.seen} /\ f.badAt = bad
    BY DEF SeenBook, Trading!Observed
  <2>2. /\ a.goodSince \in Nat /\ a.goodSince <= t /\ bad \in Nat \cup {Trading!Never}
        /\ (bad # Trading!Never => a.goodSince = bad)
        /\ (bad # Trading!Never /\ a.quality = "ok" => t - bad >= Rewarm)
    BY <1>2
  <2> HIDE DEF a, bad, f
  <2>3. FeedOk(f) /\ f.lastEvent = t
    BY <1>3, <2>1, <2>2 DEF FeedOk
  <2> QED BY <2>3 DEF f
<1>5. FeedOk(SeenTrade(t)) /\ SeenTrade(t).lastEvent = t
  <2> DEFINE a == Trading!Assessed(feed.book, t)
             bad == IF Trading!Gap(t) \/ Trading!Stale(feed.book, t) THEN t ELSE feed.badAt
             f == SeenTrade(t)
  <2>1. /\ f.lastEvent = t /\ f.quality = a.quality /\ f.goodSince = a.goodSince /\ f.book = feed.book
        /\ f.seen = feed.seen /\ f.badAt = bad
    BY DEF SeenTrade, Trading!Observed
  <2>2. /\ a.goodSince \in Nat /\ a.goodSince <= t /\ bad \in Nat \cup {Trading!Never}
        /\ (bad # Trading!Never => a.goodSince = bad)
        /\ (bad # Trading!Never /\ a.quality = "ok" => t - bad >= Rewarm)
    BY <1>2, <1>3
  <2> HIDE DEF a, bad, f
  <2>3. FeedOk(f) /\ f.lastEvent = t
    BY <1>3, <2>1, <2>2 DEF FeedOk
  <2> QED BY <2>3 DEF f
<1> QED BY <1>4, <1>5

\* Every order of the desk moves on, and what is new is sent.
Happens(d, e, f) ==
    /\ GoodDesk(e) /\ Len(e.orders) >= Len(d.orders)
    /\ \A i \in 1..Len(d.orders) : MovesOn(d.orders[i], e.orders[i])
    /\ \A i \in 1..Len(e.orders) :
          i > Len(d.orders) => Fresh(e.orders[i]) /\ (e.orders[i].tag # "exit" => f.quality = "ok")

LEMMA EventHappens ==
  ASSUME NEW d, GoodDesk(d), NEW orders, orders = [i \in 1..Len(d.orders) |-> orders[i]],
         \A i \in 1..Len(d.orders) : MovesOn(d.orders[i], orders[i]),
         NEW f, f.seen \in BookType, NEW v, v.side \in Trading!Sides, NEW t \in Nat, NEW x,
         strategy \in Trading!StrategyNames
  PROVE  Happens(d, Trading!Decided(Trading!Settled([d EXCEPT !.orders = orders]), f, v, t, x), f)
<1> DEFINE m == [d EXCEPT !.orders = orders]
           s == Trading!Settled(m)
           e == Trading!Decided(s, f, v, t, x)
<1>1. GoodDesk(m) /\ m.orders = orders /\ Len(m.orders) = Len(d.orders)
  BY OrdersMove
<1> HIDE DEF m
<1>2. GoodDesk(s) /\ OnlyAsks(m, s)
  BY <1>1, SettledGood
<1> HIDE DEF s
<1>3. Answers(s, e, f)
  BY <1>2, DecidedAnswers
<1> HIDE DEF e
<1>4. Len(s.orders) = Len(d.orders) /\ \A i \in 1..Len(d.orders) : Asks(orders[i], s.orders[i])
  BY <1>1, <1>2 DEF OnlyAsks
<1>5. /\ GoodDesk(e) /\ Len(e.orders) >= Len(d.orders)
      /\ \A i \in 1..Len(d.orders) : e.orders[i] = s.orders[i]
      /\ \A i \in 1..Len(e.orders) :
            i > Len(d.orders) => Fresh(e.orders[i]) /\ (e.orders[i].tag # "exit" => f.quality = "ok")
  BY <1>3, <1>4 DEF Answers, Grows
<1>6. \A i \in 1..Len(d.orders) : MovesOn(d.orders[i], e.orders[i])
  BY <1>4, <1>5, MovesAndAsks
<1>7. Happens(d, e, f)
  BY <1>5, <1>6 DEF Happens
<1> QED BY <1>7 DEF e, s, m

LEMMA MarketTyped ==
  /\ \A b \in Books : b.bids \in Seq(Trading!Level2) /\ b.asks \in Seq(Trading!Level2)
  /\ \A tr \in Trades : tr.price \in Nat /\ tr.size \in Nat /\ tr.side \in Trading!Sides
  /\ \A dt \in Steps : dt \in Nat /\ dt > 0
  /\ \A lag \in Lags : lag \in Nat
  /\ \A v \in Views : v.side \in Trading!Sides
  /\ MaxTime \in Nat /\ Strategies \subseteq Trading!StrategyNames
<1>1. \A v \in Trading!ViewSet : v.side \in Trading!Sides
  BY DEF Trading!ViewSet
<1>2. /\ Views \subseteq Trading!ViewSet /\ Steps \subseteq Nat \ {0} /\ Lags \subseteq Nat
      /\ MaxTime \in Nat /\ Strategies \subseteq Trading!StrategyNames
  BY TradingAssumption
<1>3. /\ \A b \in Books : b.bids \in Seq(Trading!Level2) /\ b.asks \in Seq(Trading!Level2)
      /\ \A tr \in Trades : tr.price \in Nat /\ tr.size \in Nat /\ tr.side \in Trading!Sides
  BY TradingAssumption
<1>4. \A dt \in Steps : dt \in Nat /\ dt > 0
  BY <1>2
<1>5. (\A lag \in Lags : lag \in Nat) /\ \A v \in Views : v.side \in Trading!Sides
  BY <1>1, <1>2
<1> QED BY <1>2, <1>3, <1>4, <1>5

LEMMA GoodAgain ==
  ASSUME RunnerInv, clock # MaxTime
  PROVE  GoodDesk(desk)
  BY DEF RunnerInv, GoodDesk, NoMarks

LEMMA BookHappens ==
  ASSUME RunnerInv, Trading!OnBook
  PROVE  RunnerInv' /\ Happens(desk, desk', feed') /\ clock' = feed'.lastEvent
<1>1. PICK b \in Books, dt \in Steps, lag \in Lags, v \in Views :
        LET t == clock + dt
            book == [bids |-> b.bids, asks |-> b.asks, exch |-> t - lag, recv |-> t]
        IN  /\ feed.book.exch <= book.exch
            /\ Trading!After(Trading!AfterBook(desk.orders, feed.book, book), Trading!Observed(book, TRUE, t),
                             v, t, book.exch)
  BY DEF Trading!OnBook
<1> DEFINE t == clock + dt
           exch == t - lag
           book == [bids |-> b.bids, asks |-> b.asks, exch |-> exch, recv |-> t]
           orders == Trading!AfterBook(desk.orders, feed.book, book)
           f == SeenBook(book, t)
<1>2. FeedOk(feed) /\ feed.book \in BookType /\ clock \in Nat /\ feed.lastEvent <= clock /\ feed.lastEvent \in Nat
  BY DEF RunnerInv, FeedOk
<1>3. dt \in Nat /\ dt > 0 /\ lag \in Nat /\ v.side \in Trading!Sides /\ MaxTime \in Nat
  BY MarketTyped
<1>4. t \in Nat /\ feed.lastEvent <= t /\ t > clock
  BY <1>2, <1>3
<1>5. book \in BookType
  <2>1. feed.book.exch \in Nat /\ feed.book.exch <= exch
    BY <1>1, <1>2 DEF BookType
  <2>2. exch \in Int
    BY <1>3, <1>4
  <2> HIDE DEF t, exch
  <2>3. exch \in Nat
    BY <2>1, <2>2
  <2>4. b.bids \in Seq(Trading!Level2) /\ b.asks \in Seq(Trading!Level2)
    BY MarketTyped
  <2> QED BY <1>4, <2>3, <2>4 DEF BookType
<1>6. /\ feed' = f /\ clock' = t /\ strategy' = strategy /\ t <= MaxTime
      /\ desk' = Trading!Decided(Trading!Settled([desk EXCEPT !.orders = orders]), f, v, t, exch)
  BY <1>1 DEF Trading!After, SeenBook
<1> HIDE DEF t, exch, book
<1>7. FeedOk(f) /\ f.lastEvent = t /\ f.seen \in BookType
  BY <1>2, <1>4, <1>5, FeedSeen DEF FeedOk
<1> HIDE DEF f
<1>8. GoodDesk(desk) /\ OrdersOk(desk) /\ DOMAIN desk.orders = 1..Len(desk.orders)
  BY <1>2, <1>3, <1>4, <1>6, GoodAgain DEF GoodDesk, DeskOk, OrdersOk
<1>9. /\ orders = [i \in 1..Len(desk.orders) |-> orders[i]]
      /\ \A i \in 1..Len(desk.orders) : MovesOn(desk.orders[i], orders[i])
  <2>1. orders = [i \in 1..Len(desk.orders) |-> Trading!SawBook(desk.orders[i], feed.book, book)]
    BY <1>8 DEF Trading!AfterBook
  <2> HIDE DEF orders
  <2>2. ASSUME NEW i \in 1..Len(desk.orders)
        PROVE  MovesOn(desk.orders[i], orders[i])
    <3>1. OrderOk(desk.orders[i])
      BY <1>8 DEF OrdersOk
    <3> QED BY <1>2, <1>5, <2>1, <3>1, SawBookMoves
  <2> QED BY <2>1, <2>2
<1> HIDE DEF orders
<1>10. strategy \in Trading!StrategyNames
  BY DEF RunnerInv
<1>11. Happens(desk, desk', f)
  BY <1>3, <1>4, <1>6, <1>7, <1>8, <1>9, <1>10, EventHappens
<1>12. RunnerInv'
  <2>1. DeskOk(desk') /\ OpensOnce(desk') /\ ClosesOnce(desk') /\ NoMarks(desk')
    BY <1>11 DEF Happens, GoodDesk
  <2> QED BY <1>4, <1>6, <1>7, <1>10, <2>1 DEF RunnerInv, NoMarks
<1> QED BY <1>6, <1>7, <1>11, <1>12

LEMMA TradeHappens ==
  ASSUME RunnerInv, Trading!OnTrade
  PROVE  RunnerInv' /\ Happens(desk, desk', feed') /\ clock' = feed'.lastEvent
<1>1. PICK tr \in Trades, dt \in Steps, lag \in Lags, v \in Views :
        LET t == clock + dt
            trade == [price |-> tr.price, size |-> tr.size, side |-> tr.side, exch |-> t - lag]
        IN  /\ lag <= t
            /\ Trading!After(Trading!AfterTrade(desk.orders, feed.book, trade),
                             Trading!Observed(feed.book, FALSE, t), v, t, trade.exch)
  BY DEF Trading!OnTrade
<1> DEFINE t == clock + dt
           exch == t - lag
           trade == [price |-> tr.price, size |-> tr.size, side |-> tr.side, exch |-> exch]
           orders == Trading!AfterTrade(desk.orders, feed.book, trade)
           f == SeenTrade(t)
<1>2. FeedOk(feed) /\ feed.book \in BookType /\ clock \in Nat /\ feed.lastEvent <= clock /\ feed.lastEvent \in Nat
  BY DEF RunnerInv, FeedOk
<1>3. dt \in Nat /\ dt > 0 /\ lag \in Nat /\ v.side \in Trading!Sides /\ MaxTime \in Nat
  BY MarketTyped
<1>4. t \in Nat /\ feed.lastEvent <= t /\ t > clock
  BY <1>2, <1>3
<1>5. trade \in TradeType
  <2>1. exch \in Nat
    BY <1>1, <1>3, <1>4
  <2>2. tr.price \in Nat /\ tr.size \in Nat /\ tr.side \in Trading!Sides
    BY MarketTyped
  <2> QED BY <2>1, <2>2 DEF TradeType
<1>6. /\ feed' = f /\ clock' = t /\ strategy' = strategy /\ t <= MaxTime
      /\ desk' = Trading!Decided(Trading!Settled([desk EXCEPT !.orders = orders]), f, v, t, exch)
  BY <1>1 DEF Trading!After, SeenTrade
<1> HIDE DEF t, exch, trade
<1>7. FeedOk(f) /\ f.lastEvent = t /\ f.seen \in BookType
  BY <1>2, <1>4, FeedSeen DEF FeedOk
<1> HIDE DEF f
<1>8. GoodDesk(desk) /\ OrdersOk(desk) /\ DOMAIN desk.orders = 1..Len(desk.orders)
  BY <1>2, <1>3, <1>4, <1>6, GoodAgain DEF GoodDesk, DeskOk, OrdersOk
<1>9. /\ orders = [i \in 1..Len(desk.orders) |-> orders[i]]
      /\ \A i \in 1..Len(desk.orders) : MovesOn(desk.orders[i], orders[i])
  <2>1. orders = [i \in 1..Len(desk.orders) |-> Trading!SawTrade(desk.orders[i], feed.book, trade)]
    BY <1>8 DEF Trading!AfterTrade
  <2> HIDE DEF orders
  <2>2. ASSUME NEW i \in 1..Len(desk.orders)
        PROVE  MovesOn(desk.orders[i], orders[i])
    <3>1. OrderOk(desk.orders[i])
      BY <1>8 DEF OrdersOk
    <3> QED BY <1>2, <1>5, <2>1, <3>1, SawTradeMoves
  <2> QED BY <2>1, <2>2
<1> HIDE DEF orders
<1>10. strategy \in Trading!StrategyNames
  BY DEF RunnerInv
<1>11. Happens(desk, desk', f)
  BY <1>3, <1>4, <1>6, <1>7, <1>8, <1>9, <1>10, EventHappens
<1>12. RunnerInv'
  <2>1. DeskOk(desk') /\ OpensOnce(desk') /\ ClosesOnce(desk') /\ NoMarks(desk')
    BY <1>11 DEF Happens, GoodDesk
  <2> QED BY <1>4, <1>6, <1>7, <1>10, <2>1 DEF RunnerInv, NoMarks
<1> QED BY <1>6, <1>7, <1>11, <1>12

\* The mark at the end closes what is open, with an exit that is no order.
LEMMA WalkedLevelTyped ==
  ASSUME NEW o \in OrderType, Trading!FilledQty(o) <= o.qty, NEW level,
         level.price \in Nat, level.size \in Nat
  PROVE  /\ Trading!WalkedLevel(o, level) \in OrderType
         /\ Trading!FilledQty(Trading!WalkedLevel(o, level)) <= Trading!WalkedLevel(o, level).qty
<1> DEFINE qty == Trading!Smaller(Trading!Remaining(o), level.size)
           price == level.price
           at == o.decidedAt
           w == Trading!WalkedLevel(o, level)
<1>1. Trading!Remaining(o) \in Nat /\ o.taken \in Nat /\ o.made \in Nat /\ o.qty \in Nat /\ at \in Nat /\ price \in Int
  BY OrderFields DEF Trading!Remaining
<1>2. qty \in Nat /\ qty <= Trading!Remaining(o)
  BY <1>1, SmallerNat
<1>3. w = IF qty = 0 THEN o ELSE TakenFrom(o, price, qty, at)
  BY DEF Trading!WalkedLevel, TakenFrom
<1> HIDE DEF qty, price, at, w
<1>4. CASE qty = 0
  BY <1>3, <1>4 DEF w
<1>5. CASE qty # 0
  <2>1. Filling(o, w, o.taken + qty, o.made, FillState(o, qty))
    BY <1>1, <1>2, <1>3, <1>5, TakerFill
  <2>2. Trading!FilledQty(w) <= w.qty
    BY <1>1, <1>2, <2>1 DEF Filling, Trading!FilledQty, Trading!Remaining
  <2> QED BY <2>1, <2>2 DEF Filling, w
<1> QED BY <1>4, <1>5

LEMMA MarkedKeeps ==
  ASSUME DeskOk(desk), OpensOnce(desk), ClosesOnce(desk), NoMarks(desk), feed.book \in BookType, clock \in Nat,
         NEW e, e = Trading!Marked(desk)
  PROVE  DeskOk(e) /\ OpensOnce(e) /\ ClosesOnce(e) /\ e.orders = desk.orders
<1>1. CASE e = desk
  BY <1>1
<1>2. CASE e # desk
  <2> DEFINE side == IF desk.position.side = "buy" THEN "sell" ELSE "buy"
             qty == desk.position.qty
             levels == Trading!Opposite(side, feed.book)
             first == Trading!Level(levels, 1)
             second == Trading!Level(levels, 2)
             order == MarketOrder("exit", side, qty, clock)
             once == Trading!WalkedLevel(order, first)
             mark == Trading!WalkedLevel(once, second)
  <2>1. ~Trading!IsFlat(desk) /\ Trading!FilledQty(mark) # 0 /\ e = Trading!ClosedBy(desk, mark, 0)
    BY <1>2 DEF Trading!Marked, MarketOrder
  <2>2. side \in Trading!Sides /\ qty \in Nat
    BY <2>1 DEF DeskOk, PositionOk, Trading!Sides
  <2>3. first.price \in Nat /\ first.size \in Nat /\ second.price \in Nat /\ second.size \in Nat
    <3>1. levels \in Seq(Trading!Level2)
      BY SidesTyped
    <3> HIDE DEF levels
    <3> QED BY <3>1, LevelTyped
  <2> HIDE DEF side, qty, levels, first, second
  <2>4. order \in OrderType /\ Trading!FilledQty(order) <= order.qty
    <3>1. Unsent(order)
      BY <2>2, MarketUnsent
    <3> HIDE DEF order
    <3> QED BY <3>1, OrderFields DEF Unsent, Trading!FilledQty
  <2> HIDE DEF order
  <2>5. once \in OrderType /\ Trading!FilledQty(once) <= once.qty
    BY <2>3, <2>4, WalkedLevelTyped
  <2> HIDE DEF once
  <2>6. mark \in OrderType
    BY <2>3, <2>5, WalkedLevelTyped
  <2> HIDE DEF mark
  <2>7. 0 \in 0..Len(desk.orders)
    BY DEF DeskOk, OrdersOk
  <2>8. Closes(desk, e, 0)
    BY <2>1, <2>6, <2>7, ClosedByCloses
  <2>9. DeskOk(e) /\ OpensOnce(e)
    BY <2>1, <2>7, <2>8, ClosesKeeps
  <2>10. ClosesOnce(e)
    BY <2>7, <2>8, ClosesOnceMore DEF NoMarks
  <2> QED BY <2>8, <2>9, <2>10 DEF Closes
<1> QED BY <1>1, <1>2

LEMMA EndKeeps ==
  ASSUME RunnerInv, Trading!Finalise
  PROVE  RunnerInv' /\ desk'.orders = desk.orders
<1>1. /\ clock < MaxTime /\ clock' = MaxTime /\ desk' = Trading!Marked(desk) /\ strategy' = strategy /\ feed' = feed
  BY DEF Trading!Finalise
<1>2. MaxTime \in Nat /\ clock \in Nat /\ clock # MaxTime /\ feed.lastEvent \in Nat /\ feed.lastEvent <= clock
  BY <1>1, MarketTyped DEF RunnerInv, FeedOk
<1>3. DeskOk(desk) /\ OpensOnce(desk) /\ ClosesOnce(desk) /\ NoMarks(desk) /\ feed.book \in BookType
  BY <1>2, GoodAgain DEF GoodDesk, RunnerInv, FeedOk
<1>4. DeskOk(desk') /\ OpensOnce(desk') /\ ClosesOnce(desk') /\ desk'.orders = desk.orders
  BY <1>1, <1>2, <1>3, MarkedKeeps
<1> QED BY <1>1, <1>2, <1>4 DEF RunnerInv
-----------------------------------------------------------------------------
(* The theorems.                                                           *)

LEMMA RunnerStarts ==
  ASSUME ResearchInit
  PROVE  RunnerInv
<1>1. Trading!Init
  BY DEF ResearchInit
<1>2. strategy \in Trading!StrategyNames /\ clock = 0
  BY <1>1, MarketTyped DEF Trading!Init
<1>3. FeedOk(feed) /\ feed.lastEvent = 0
  <2>1. Trading!NoBook \in BookType
    BY DEF Trading!NoBook, BookType
  <2> HIDE DEF Trading!NoBook
  <2>2. feed = [lastEvent |-> 0, quality |-> "ok", goodSince |-> 0, book |-> Trading!NoBook, seen |-> Trading!NoBook,
                samples |-> 0, badAt |-> Trading!Never]
    BY <1>1 DEF Trading!Init, Trading!NewFeed
  <2> QED BY <2>1, <2>2 DEF FeedOk
<1>4. /\ IsDesk(desk) /\ desk.orders = <<>> /\ desk.entry = 0 /\ desk.exit = 0 /\ desk.quotes = <<>>
      /\ Trading!IsFlat(desk) /\ desk.journal = <<>>
  BY <1>1 DEF Trading!Init, Trading!NewDesk, IsDesk, Trading!IsFlat
<1>5. DeskOk(desk) /\ OpensOnce(desk) /\ ClosesOnce(desk) /\ NoMarks(desk)
  BY <1>4 DEF DeskOk, OrdersOk, Named, QuotesOk, PositionOk, JournalOk, OpensOnce, ClosesOnce, NoMarks, Booked
<1> QED BY <1>2, <1>3, <1>5 DEF RunnerInv, NoMarks

LEMMA RunnerGoesOn ==
  ASSUME RunnerInv, [ResearchNext]_<<part, vars, runnerVars>>
  PROVE  RunnerInv'
<1>1. CASE Trading!OnBook
  BY <1>1, BookHappens
<1>2. CASE Trading!OnTrade
  BY <1>2, TradeHappens
<1>3. CASE Trading!Finalise
  BY <1>3, EndKeeps
<1>4. CASE UNCHANGED runnerVars
  BY <1>4 DEF RunnerInv, runnerVars
<1> QED BY <1>1, <1>2, <1>3, <1>4 DEF ResearchNext, Trading!Next

\* What a step of the runner makes of the orders: an event, or nothing.
LEMMA RunnerSteps ==
  ASSUME RunnerInv, [ResearchNext]_<<part, vars, runnerVars>>
  PROVE  \/ Happens(desk, desk', feed') /\ clock' = feed'.lastEvent
         \/ desk'.orders = desk.orders
<1>1. CASE Trading!OnBook
  BY <1>1, BookHappens
<1>2. CASE Trading!OnTrade
  BY <1>2, TradeHappens
<1>3. CASE Trading!Finalise
  BY <1>3, EndKeeps
<1>4. CASE UNCHANGED runnerVars
  BY <1>4 DEF runnerVars
<1> QED BY <1>1, <1>2, <1>3, <1>4 DEF ResearchNext, Trading!Next

\* Every order a desk names is one of its own and in a state its fills agree
\* with, and no order opens or closes twice (SymbolRunner, ExecutionSimulator).
THEOREM RunnerKeeps == ResearchSpec => []RunnerInv
<1>1. ResearchInit => RunnerInv
  BY RunnerStarts
<1>2. RunnerInv /\ [ResearchNext]_<<part, vars, runnerVars>> => RunnerInv'
  BY RunnerGoesOn
<1> QED BY <1>1, <1>2, PTL DEF ResearchSpec

\* What has opened a position opens no other, what has closed one closes no
\* other (SymbolRunner._settle_orders, finalise).
THEOREM FillsBookedOnce == ResearchSpec => []BookedOnce
<1>1. RunnerInv => BookedOnce
  <2> SUFFICES ASSUME RunnerInv PROVE BookedOnce
    OBVIOUS
  <2>1. DOMAIN desk.journal = 1..Len(desk.journal)
    BY DEF RunnerInv, DeskOk, JournalOk
  <2> QED BY <2>1 DEF RunnerInv, OpensOnce, ClosesOnce, BookedOnce, Trading!BookedOnce
<1> QED BY RunnerKeeps, <1>1, PTL

\* Whatever the feed does, nothing that could open a position is sent before it
\* has been good for as long as the runner waits (SymbolRunner._assess, _enter,
\* _quote); an exit is not held back.
THEOREM EntriesWaitForData == ResearchSpec => EntriesOnGoodData
<1> DEFINE Waited == \A i \in Trading!NewOrders :
              desk'.orders[i].tag # "exit" /\ feed'.badAt # Trading!Never => clock' - feed'.badAt >= Rewarm
<1>1. RunnerInv /\ RunnerInv' /\ [ResearchNext]_<<part, vars, runnerVars>> => Waited
  <2> SUFFICES ASSUME RunnerInv, RunnerInv', [ResearchNext]_<<part, vars, runnerVars>> PROVE Waited
    OBVIOUS
  <2>1. /\ DOMAIN desk.orders = 1..Len(desk.orders) /\ Len(desk.orders) \in Nat
        /\ DOMAIN desk'.orders = 1..Len(desk'.orders) /\ Len(desk'.orders) \in Nat
    BY DEF RunnerInv, DeskOk, OrdersOk
  <2>2. CASE desk'.orders = desk.orders
    BY <2>2 DEF Trading!NewOrders
  <2>3. CASE Happens(desk, desk', feed') /\ clock' = feed'.lastEvent
    <3>1. \A i \in Trading!NewOrders : i \in 1..Len(desk'.orders) /\ i > Len(desk.orders)
      BY <2>1 DEF Trading!NewOrders
    <3>2. \A i \in Trading!NewOrders : desk'.orders[i].tag # "exit" => feed'.quality = "ok"
      BY <2>3, <3>1 DEF Happens
    <3>3. feed'.badAt # Trading!Never /\ feed'.quality = "ok" => clock' - feed'.badAt >= Rewarm
      BY <2>3 DEF RunnerInv, FeedOk
    <3> QED BY <3>2, <3>3
  <2> QED BY <2>2, <2>3, RunnerSteps
<1>2. RunnerInv /\ RunnerInv' /\ [ResearchNext]_<<part, vars, runnerVars>> => [Waited]_Trading!vars
  BY <1>1
<1> HIDE DEF Waited
<1>3. ResearchSpec => [][Waited]_Trading!vars
  BY RunnerKeeps, <1>2, PTL DEF ResearchSpec
<1> QED BY <1>3 DEF EntriesOnGoodData, Trading!EntriesOnGoodData, Waited

\* The execution simulator implements OrderLifecycle: whatever the market, the
\* strategy and the delays, an order only moves forward, is filled for no more
\* than was sent, and is never pulled without having asked.
THEOREM SimulatorImplements == ResearchSpec => Simulator
<1> DEFINE Lives == [i \in DOMAIN desk.orders |-> Trading!LifeOf(desk.orders[i])]
<1>1. ResearchInit => Trading!Lifecycle!LifeInit
  <2> SUFFICES ASSUME ResearchInit PROVE Trading!Lifecycle!LifeInit
    OBVIOUS
  <2>1. desk.orders = <<>>
    BY DEF ResearchInit, Trading!Init, Trading!NewDesk
  <2> QED BY <2>1 DEF Trading!Lifecycle!LifeInit
<1>2. ASSUME RunnerInv, RunnerInv', Happens(desk, desk', feed')
      PROVE  Trading!Lifecycle!Event
  <2>1. /\ DOMAIN desk.orders = 1..Len(desk.orders) /\ Len(desk.orders) \in Nat
        /\ DOMAIN desk'.orders = 1..Len(desk'.orders) /\ Len(desk'.orders) \in Nat
    BY <1>2 DEF RunnerInv, DeskOk, OrdersOk
  <2>2. DOMAIN Lives = 1..Len(desk.orders) /\ DOMAIN Lives' = 1..Len(desk'.orders)
    BY <2>1
  <2>3. Len(Lives) = Len(desk.orders) /\ Len(Lives') = Len(desk'.orders)
    BY <2>1, <2>2
  <2>4. Len(Lives') >= Len(Lives)
    BY <1>2, <2>3 DEF Happens
  <2>5. ASSUME NEW i \in DOMAIN Lives
        PROVE  Lives'[i] = Lives[i] \/ Trading!Lifecycle!Moves(Lives[i], Lives'[i])
    <3>1. i \in 1..Len(desk.orders) /\ i \in 1..Len(desk'.orders)
      BY <1>2, <2>1, <2>2, <2>5 DEF Happens
    <3>2. OrderOk(desk.orders[i]) /\ MovesOn(desk.orders[i], desk'.orders[i])
      BY <1>2, <3>1 DEF RunnerInv, DeskOk, OrdersOk, Happens
    <3>3. Lives[i] = Trading!LifeOf(desk.orders[i]) /\ Lives'[i] = Trading!LifeOf(desk'.orders[i])
      BY <2>1, <3>1
    <3> QED BY <3>2, <3>3, LifeMoves
  <2>6. ASSUME NEW i \in DOMAIN Lives' \ DOMAIN Lives
        PROVE  Trading!Lifecycle!Sent(Lives'[i])
    <3>1. i \in 1..Len(desk'.orders) /\ i > Len(desk.orders)
      BY <2>1, <2>2, <2>6
    <3>2. Fresh(desk'.orders[i])
      BY <1>2, <3>1 DEF Happens
    <3>3. Lives'[i] = Trading!LifeOf(desk'.orders[i])
      BY <2>1, <3>1
    <3> QED BY <3>2, <3>3, FreshIsSent
  <2> QED BY <2>4, <2>5, <2>6 DEF Trading!Lifecycle!Event
<1>3. RunnerInv /\ RunnerInv' /\ [ResearchNext]_<<part, vars, runnerVars>>
         => Trading!Lifecycle!Event \/ Lives' = Lives
  <2> SUFFICES ASSUME RunnerInv, RunnerInv', [ResearchNext]_<<part, vars, runnerVars>>
               PROVE  Trading!Lifecycle!Event \/ Lives' = Lives
    OBVIOUS
  <2>1. CASE desk'.orders = desk.orders
    BY <2>1
  <2> QED BY <1>2, <2>1, RunnerSteps
<1>4. RunnerInv /\ RunnerInv' /\ [ResearchNext]_<<part, vars, runnerVars>>
         => [Trading!Lifecycle!Event]_Lives
  BY <1>3
<1> QED BY RunnerKeeps, <1>1, <1>4, PTL
        DEF ResearchSpec, Simulator, Trading!Simulator, Trading!Lifecycle!LifeSpec
=============================================================================
