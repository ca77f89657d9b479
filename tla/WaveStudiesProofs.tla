-------------------------- MODULE WaveStudiesProofs --------------------------
(***************************************************************************)
(* For any number of requests and any limit of the registry: variables     *)
(* keep their types and a run in flight is never evicted; and for any      *)
(* number of threads that poll, the layers that hold a count agree unless  *)
(* polls of two counts have met.  For any chart and any service: what the  *)
(* analyst has accepted is handed over, its coverage is measured truly,    *)
(* and no correction takes the place of a motive wave in the automatic     *)
(* count.                                                                  *)
(* For any candles: the rule engine's counts are legal, and its confirmed  *)
(* chain is one reading of the pivots.                                     *)
(***************************************************************************)
EXTENDS WaveStudies, SelectionProofs

\* A run that has finished, or aged, stays so; a request that has not been
\* answered has started nothing.
Inv ==
    /\ RunsTypeOK
    /\ RunningStaysFindable
    /\ \A r \in aged : Ended(r)
    /\ \A n \in DOMAIN finished : Ended(finished[n])
    /\ \A r \in Requests : request[r] # "answered" => job[r] = None

LEMMA InitInv == RunsInit => Inv
BY RequestsAssumption
   DEF RunsInit, Inv, RunsTypeOK, RunningStaysFindable, Running, Ended

\* A step that changes one field of a running job and nothing but the store.
LEMMA Moves ==
    ASSUME Inv, NEW r \in Requests, Running(r), job' \in [Requests -> Jobs \cup {None}],
           job'[r] \in Jobs, job'[r].status = "running",
           \A s \in Requests \ {r} : job'[s] = job[s],
           rows' \in Seq(Requests),
           UNCHANGED <<request, registry, finished, aged, storeKind, newest>>
    PROVE  Inv'
<1>1. r \notin aged /\ \A n \in DOMAIN finished : finished[n] # r
  BY DEF Inv, Ended, Running
<1>2. RunsTypeOK'
  BY DEF Inv, RunsTypeOK
<1>3. RunningStaysFindable'
  BY DEF Inv, RunningStaysFindable, Running
<1>4. (\A s \in aged : Ended(s))'
  BY <1>1 DEF Inv, RunsTypeOK, Ended
<1>5. (\A n \in DOMAIN finished : Ended(finished[n]))'
  BY <1>1 DEF Inv, RunsTypeOK, Ended
<1>6. (\A s \in Requests : request[s] # "answered" => job[s] = None)'
  BY DEF Inv, Running
<1> QED
  BY <1>2, <1>3, <1>4, <1>5, <1>6 DEF Inv

\* The thread of a run ends.
LEMMA RunEnds ==
    ASSUME Inv, NEW r \in Requests, Running(r), NEW ended \in Jobs, ended.status = "ended",
           EndWith(r, ended), rows' \in Seq(Requests)
    PROVE  Inv'
<1>2. ended \in Jobs /\ ended.status = "ended"
  OBVIOUS
<1>3. job' = [job EXCEPT ![r] = ended]
  BY DEF EndWith
<1>4. ended # None
  BY <1>2, RequestsAssumption
<1>5. job'[r] = ended /\ \A s \in Requests \ {r} : job'[s] = job[s]
  BY <1>3 DEF Inv, RunsTypeOK
<1>6. finished \in Seq(Requests) /\ finished' = Append(finished, r)
  BY DEF Inv, RunsTypeOK, EndWith
<1>7. RunsTypeOK'
  <2>1. job' \in [Requests -> Jobs \cup {None}]
    BY <1>2, <1>3 DEF Inv, RunsTypeOK
  <2>2. finished' \in Seq(Requests)
    BY <1>6
  <2> QED
    BY <2>1, <2>2 DEF Inv, RunsTypeOK, EndWith
<1>8. RunningStaysFindable'
  BY <1>5, <1>2 DEF Inv, RunningStaysFindable, Running, EndWith
<1>9. (\A s \in aged : Ended(s))'
  BY <1>5, <1>2, <1>4 DEF Inv, RunsTypeOK, Ended, EndWith
<1>10. (\A n \in DOMAIN finished : Ended(finished[n]))'
  <2> SUFFICES ASSUME NEW n \in DOMAIN finished'
               PROVE  job'[finished'[n]] # None /\ job'[finished'[n]].status # "running"
    BY DEF Ended
  <2>1. CASE n = Len(finished) + 1
    <3>1. finished'[n] = r
      BY <1>6, <2>1
    <3> QED
      BY <3>1, <1>5, <1>2, <1>4
  <2>2. CASE n # Len(finished) + 1
    <3>1. n \in DOMAIN finished /\ finished'[n] = finished[n] /\ finished[n] \in Requests
      BY <1>6, <2>2
    <3>2. Ended(finished[n])
      BY <3>1 DEF Inv
    <3> QED
      BY <3>1, <3>2, <1>5, <1>2, <1>4 DEF Ended
  <2> QED
    BY <2>1, <2>2
<1>11. (\A s \in Requests : request[s] # "answered" => job[s] = None)'
  BY <1>5 DEF Inv, Running, EndWith
<1> QED
  BY <1>7, <1>8, <1>9, <1>10, <1>11 DEF Inv

\* Requests never start a run twice and pruning keeps what is running.
LEMMA RequestSteps ==
    ASSUME Inv, NEW r \in Requests, RequestStep(r) \/ Age(r) \/ CandleCloses
    PROVE  Inv'
<1>1. CASE Join(r)
  BY <1>1 DEF Join, Inv, RunsTypeOK, RunningStaysFindable, Running, Ended
<1>2. CASE FindNone(r)
  BY <1>2 DEF FindNone, Inv, RunsTypeOK, RunningStaysFindable, Running, Ended
<1>3. CASE Start(r)
  <2> DEFINE new == [status |-> "running", step |-> "loading", seen |-> 0, count |-> "none"]
  <2>1. new \in Jobs /\ new.status = "running"
    BY RequestsAssumption DEF Jobs
  <2>2. job[r] = None
    BY <1>3 DEF Start, Inv
  <2>3. job' = [job EXCEPT ![r] = new]
    BY <1>3 DEF Start
  <2> HIDE DEF new
  <2>4. job'[r] = new /\ \A s \in Requests \ {r} : job'[s] = job[s]
    BY <2>3 DEF Inv, RunsTypeOK
  <2>5. registry' \subseteq Requests
    BY <1>3 DEF Start, Pruned, Inv, RunsTypeOK
  <2>6. RunsTypeOK'
    BY <1>3, <2>1, <2>3, <2>5 DEF Start, Inv, RunsTypeOK
  <2>7. RunningStaysFindable'
    <3> SUFFICES ASSUME NEW s \in Requests, Running(s)' PROVE s \in registry'
      BY DEF RunningStaysFindable
    <3>1. CASE s = r
      BY <3>1, <1>3 DEF Start
    <3>2. CASE s # r
      <4>1. Running(s) /\ s \in registry
        BY <3>2, <2>4 DEF Running, Inv, RunningStaysFindable
      <4>2. s \notin aged
        BY <4>1 DEF Inv, Ended, Running
      <4>3. s \in Pruned
        BY <4>1, <4>2 DEF Pruned
      <4> QED
        BY <4>3, <1>3 DEF Start
    <3> QED
      BY <3>1, <3>2
  <2>8. (\A s \in aged : Ended(s))'
    BY <1>3, <2>2, <2>4 DEF Start, Inv, RunsTypeOK, Ended
  <2>9. (\A n \in DOMAIN finished : Ended(finished[n]))'
    BY <1>3, <2>2, <2>4 DEF Start, Inv, RunsTypeOK, Ended
  <2>10. (\A s \in Requests : request[s] # "answered" => job[s] = None)'
    BY <1>3, <2>4 DEF Start, Inv, RunsTypeOK
  <2> QED
    BY <2>6, <2>7, <2>8, <2>9, <2>10 DEF Inv
<1>4. CASE Age(r)
  <2>1. r \in Requests /\ Ended(r)
    BY <1>4 DEF Age, ToSet, Inv
  <2> QED
    BY <1>4, <2>1 DEF Age, Inv, RunsTypeOK, RunningStaysFindable, Running, Ended
<1>5. CASE CandleCloses
  BY <1>5, RequestsAssumption
     DEF CandleCloses, Inv, RunsTypeOK, RunningStaysFindable, Running, Ended
<1> QED
  BY <1>1, <1>2, <1>3, <1>4, <1>5 DEF RequestStep

\* Every step of a run moves it on or ends it.
LEMMA RunSteps ==
    ASSUME Inv, NEW r \in Requests, RunStep(r)
    PROVE  Inv'
<1>1. Running(r)
  BY DEF RunStep, LoadCandles, CheckCache, Count, SaveSql, DeleteRow, InsertRow, AtStep
<1>2. job[r] \in Jobs /\ job \in [Requests -> Jobs \cup {None}] /\ rows \in Seq(Requests)
      /\ newest \in 0..MaxCandle
  BY <1>1 DEF Inv, RunsTypeOK, Running
<1>3. <<r>> \in Seq(Requests) /\ << >> \in Seq(Requests) /\ Append(rows, r) \in Seq(Requests)
  BY <1>2
<1>4. ASSUME NEW next \in {"counting", "inserting"}, Proceed(r, next), rows' \in Seq(Requests)
      PROVE  Inv'
  <2>1. job' = [job EXCEPT ![r] = [job[r] EXCEPT !.step = next]]
    BY <1>4, <1>2 DEF Proceed
  <2>2. [job[r] EXCEPT !.step = next] \in Jobs
    BY <1>2 DEF Jobs
  <2>3. [job[r] EXCEPT !.step = next].status = "running"
    BY <1>1, <1>2 DEF Jobs, Running
  <2> QED
    BY <1>1, <1>2, <1>4, <2>1, <2>2, <2>3, Moves DEF Proceed
<1>5. ASSUME EndSaved(r), rows' \in Seq(Requests) PROVE Inv'
  <2> DEFINE left == [job[r] EXCEPT !.status = "ended", !.step = "ended"]
  <2>1. left \in Jobs /\ left.status = "ended"
    BY <1>2 DEF Jobs
  <2>2. EndWith(r, left)
    BY <1>5 DEF EndSaved
  <2> HIDE DEF left
  <2> QED
    BY <1>1, <1>5, <2>1, <2>2, RunEnds
<1>12. ASSUME End(r), rows' \in Seq(Requests) PROVE Inv'
  <2> DEFINE left == [status |-> "ended", step |-> "ended", seen |-> 0, count |-> "none"]
  <2>1. left \in Jobs /\ left.status = "ended"
    BY RequestsAssumption DEF Jobs
  <2>2. EndWith(r, left)
    BY <1>12 DEF End
  <2> HIDE DEF left
  <2> QED
    BY <1>1, <1>12, <2>1, <2>2, RunEnds
<1>6. CASE LoadCandles(r)
  <2> DEFINE next == IF KindOf[r] = "multi" THEN "checking" ELSE "counting"
             moved == [job[r] EXCEPT !.seen = newest, !.step = next]
  <2>1. moved \in Jobs
    BY <1>2 DEF Jobs
  <2>2. moved.status = "running"
    BY <1>1, <1>2 DEF Jobs, Running
  <2>3. CASE /\ job' = [job EXCEPT ![r].seen = newest, ![r].step = next]
             /\ UNCHANGED <<request, registry, finished, aged, storeKind, newest>>
    <3>1. job' = [job EXCEPT ![r] = moved]
      BY <2>3, <1>2 DEF Jobs
    <3>2. job \in [Requests -> Jobs \cup {None}]
      BY <1>2
    <3>3. rows' \in Seq(Requests)
      BY <1>2, <1>6 DEF LoadCandles
    <3> HIDE DEF moved
    <3>4. /\ job' \in [Requests -> Jobs \cup {None}] /\ job'[r] = moved
          /\ \A s \in Requests \ {r} : job'[s] = job[s]
      BY <2>1, <3>1, <3>2
    <3> QED BY <1>1, <2>1, <2>2, <2>3, <3>3, <3>4, Moves
  <2>4. CASE End(r)
    BY <1>2, <1>6, <1>12, <2>4 DEF LoadCandles
  <2> QED
    BY <1>6, <2>3, <2>4 DEF LoadCandles
<1>7. CASE CheckCache(r)
  BY <1>2, <1>4, <1>7, <1>12 DEF CheckCache
<1>8. CASE Count(r)
  <2> DEFINE next == IF storeKind = "rest" THEN "deleting" ELSE "saving"
  <2>1. ASSUME NEW count \in {"tradeable", "untradeable"},
               job' = [job EXCEPT ![r].count = count, ![r].step = next],
               UNCHANGED <<request, registry, finished, aged, storeKind, newest>>
        PROVE  Inv'
    <3> DEFINE moved == [job[r] EXCEPT !.count = count, !.step = next]
    <3>1. moved \in Jobs
      BY <1>2 DEF Jobs
    <3>2. moved.status = "running"
      BY <1>1, <1>2 DEF Jobs, Running
    <3>3. job' = [job EXCEPT ![r] = moved]
      BY <2>1, <1>2 DEF Jobs
    <3>4. job \in [Requests -> Jobs \cup {None}]
      BY <1>2
    <3>5. rows' \in Seq(Requests)
      BY <1>2, <1>8 DEF Count
    <3> HIDE DEF moved
    <3>6. /\ job' \in [Requests -> Jobs \cup {None}] /\ job'[r] = moved
          /\ \A s \in Requests \ {r} : job'[s] = job[s]
      BY <3>1, <3>3, <3>4
    <3> QED BY <1>1, <2>1, <3>1, <3>2, <3>5, <3>6, Moves
  <2>2. CASE End(r)
    BY <1>2, <1>8, <1>12, <2>2 DEF Count
  <2> QED
    BY <1>8, <2>1, <2>2 DEF Count
<1>9. CASE SaveSql(r)
  BY <1>2, <1>3, <1>5, <1>9, <1>12 DEF SaveSql
<1>10. CASE DeleteRow(r)
  BY <1>2, <1>3, <1>4, <1>10, <1>12 DEF DeleteRow
<1>11. CASE InsertRow(r)
  BY <1>2, <1>3, <1>5, <1>11, <1>12 DEF InsertRow
<1> QED
  BY <1>6, <1>7, <1>8, <1>9, <1>10, <1>11 DEF RunStep

\* The invariant holds in every reachable state.
THEOREM Invariance == RunsSpec => []Inv
<1>1. Inv /\ UNCHANGED runVars => Inv'
  BY DEF runVars, Inv, RunsTypeOK, RunningStaysFindable, Running, Ended
<1>2. Inv /\ RunsNext => Inv'
  <2> SUFFICES ASSUME Inv, RunsNext PROVE Inv'
    OBVIOUS
  <2>1. CASE \E r \in Requests : RequestStep(r) \/ RunStep(r) \/ Age(r)
    BY <2>1, RequestSteps, RunSteps
  <2>2. CASE CandleCloses
    BY <2>2, RequestsAssumption
       DEF CandleCloses, Inv, RunsTypeOK, RunningStaysFindable, Running, Ended
  <2> QED
    BY <2>1, <2>2 DEF RunsNext
<1> QED
  BY InitInv, <1>1, <1>2, PTL DEF RunsSpec

\* Every variable of the registry, the runs and the store keeps its type.
THEOREM RunsTypeCorrect == RunsSpec => []RunsTypeOK
<1>1. Inv => RunsTypeOK
  BY DEF Inv
<1> QED
  BY <1>1, Invariance, PTL

\* A run in flight is always found by polls and by repeated requests.
THEOREM RunsFindable == RunsSpec => []RunningStaysFindable
<1>1. Inv => RunningStaysFindable
  BY DEF Inv
<1> QED
  BY <1>1, Invariance, PTL
-----------------------------------------------------------------------------
(* The way of a count to the account.                                      *)

Stages == {"idle", "counts", "engine", "mark", "install", "record"}
Known(f) == f # None => f \in Requests /\ Ended(f)
Traded == scenario = ScenarioOf(engineFp)
NoneAt(stages) == \A q \in Pollers : poll[q].at \notin stages

\* While polls that install are of one count, the last of them to leave a stage has
\* written there what all of them write.
Orderly ==
    /\ \A p, q \in Pollers : Installs(p) /\ Installs(q) => poll[p].fp = poll[q].fp
    /\ \A p \in Pollers : Installs(p) =>
          /\ NoneAt({"mark"}) => engineFp = poll[p].fp
          /\ NoneAt({"mark", "install"}) => Traded
    /\ NoneAt({"mark", "install", "record"}) => OneCountRules

CountsInv ==
    /\ Inv
    /\ \A n \in DOMAIN rows : Ended(rows[n])
    /\ poll \in [Pollers -> [at : Stages, fp : Requests \cup {None}]]
    /\ Known(engineFp) /\ \A p \in Pollers : Known(poll[p].fp)
    /\ ~overlapped => Orderly

\* The count of a run that has ended is never changed.
LEMMA CountsStand ==
  ASSUME Inv, NEW r \in Requests, RequestStep(r) \/ RunStep(r) \/ Age(r),
         NEW s \in Requests, Ended(s)
  PROVE  job'[s] = job[s]
<1>1. job \in [Requests -> Jobs \cup {None}] /\ ~Running(s)
  BY DEF Inv, RunsTypeOK, Running, Ended
<1>2. CASE RequestStep(r) \/ Age(r)
  <2>1. CASE Start(r)
    <3>1. job[r] = None
      BY <2>1 DEF Start, Inv
    <3>2. r # s
      BY <3>1 DEF Ended
    <3> QED BY <1>1, <2>1, <3>2 DEF Start
  <2>2. CASE Join(r) \/ FindNone(r) \/ Age(r)
    BY <2>2 DEF Join, FindNone, Age
  <2> QED BY <1>2, <2>1, <2>2 DEF RequestStep
<1>3. CASE RunStep(r)
  <2>1. Running(r)
    BY <1>3 DEF RunStep, LoadCandles, CheckCache, Count, SaveSql, DeleteRow, InsertRow, AtStep
  <2>2. r # s
    BY <1>1, <2>1
  <2>3. \A x : [job EXCEPT ![r] = x][s] = job[s]
    BY <1>1, <2>2
  <2> QED
    BY <1>1, <1>3, <2>2
       DEF RunStep, LoadCandles, CheckCache, Count, SaveSql, DeleteRow, InsertRow, EndSaved, End,
           EndWith, Proceed
<1> QED BY <1>2, <1>3

\* What is stored is of a run that has ended.
LEMMA RowsStand ==
  ASSUME Inv, \A n \in DOMAIN rows : Ended(rows[n]), NEW r \in Requests,
         RequestStep(r) \/ RunStep(r) \/ Age(r)
  PROVE  (\A n \in DOMAIN rows : Ended(rows[n]))'
<1>1. rows \in Seq(Requests) /\ job \in [Requests -> Jobs \cup {None}] /\ DOMAIN rows = 1..Len(rows)
  BY DEF Inv, RunsTypeOK
<1> DEFINE EndedNow(s) == job'[s] # None /\ job'[s].status # "running"
<1>2. ASSUME NEW n \in DOMAIN rows PROVE EndedNow(rows[n])
  <2>1. rows[n] \in Requests /\ Ended(rows[n])
    BY <1>1
  <2>2. job'[rows[n]] = job[rows[n]]
    BY <2>1, CountsStand
  <2> QED BY <2>1, <2>2 DEF Ended
<1> SUFFICES \A n \in DOMAIN rows' : EndedNow(rows'[n])
  BY DEF Ended
<1>3. CASE UNCHANGED rows
  BY <1>2, <1>3
<1>4. CASE rows' # rows
  <2>1. \/ rows' = << >>
        \/ rows' \in {<<r>>, Append(rows, r)} /\ EndSaved(r) /\ Running(r)
    BY <1>4 DEF RequestStep, Join, FindNone, Start, Age, RunStep, LoadCandles, CheckCache, Count,
                SaveSql, DeleteRow, InsertRow, AtStep
  <2>2. CASE rows' = << >>
    BY <2>2
  <2>3. CASE rows' \in {<<r>>, Append(rows, r)} /\ EndSaved(r) /\ Running(r)
    <3>1. job[r] \in Jobs
      BY <1>1, <2>3 DEF Running
    <3>2. job'[r] = [job[r] EXCEPT !.status = "ended", !.step = "ended"]
      BY <1>1, <2>3 DEF EndSaved, EndWith
    <3>3. job'[r] \in Jobs /\ job'[r].status = "ended"
      BY <3>1, <3>2 DEF Jobs
    <3>5. EndedNow(r)
      BY <3>3, RequestsAssumption
    <3>6. \A n \in DOMAIN rows' : rows'[n] = r \/ (n \in DOMAIN rows /\ rows'[n] = rows[n])
      <4>1. CASE rows' = <<r>>
        BY <4>1
      <4>2. CASE rows' = Append(rows, r)
        BY <1>1, <4>2, AppendProperties
      <4> QED BY <2>3, <4>1, <4>2
    <3> HIDE DEF EndedNow
    <3> QED BY <1>2, <3>5, <3>6
  <2> QED BY <2>1, <2>2, <2>3
<1> QED BY <1>3, <1>4

\* Requests and runs touch neither the poller nor what it installed.
LEMMA RunsAside ==
  ASSUME CountsInv, NEW r \in Requests, RequestStep(r) \/ RunStep(r) \/ Age(r),
         UNCHANGED <<poll, engineVars, overlapped>>
  PROVE  CountsInv'
<1>1. Inv'
  BY RequestSteps, RunSteps DEF CountsInv
<1>2. (\A n \in DOMAIN rows : Ended(rows[n]))'
  BY RowsStand DEF CountsInv
<1>3. ASSUME NEW f, Known(f) PROVE Known(f)' /\ ScenarioOf(f)' = ScenarioOf(f)
  <2>1. CASE f = None
    BY <2>1 DEF Known, ScenarioOf
  <2>2. CASE f # None
    <3>1. f \in Requests /\ Ended(f)
      BY <1>3, <2>2 DEF Known
    <3>2. job'[f] = job[f]
      BY <3>1, CountsStand DEF CountsInv
    <3> QED BY <3>1, <3>2 DEF Known, Ended, ScenarioOf
  <2> QED BY <2>1, <2>2
<1>4. poll' = poll /\ engineFp' = engineFp /\ aiCounts' = aiCounts /\ scenario' = scenario
  BY DEF engineVars
<1>5. Known(engineFp)' /\ (Traded <=> Traded')
  <2>1. Known(engineFp)
    BY DEF CountsInv
  <2> QED BY <1>3, <1>4, <2>1 DEF Known, Traded, ScenarioOf, Ended
<1>6. \A p \in Pollers : Known(poll[p].fp)'
  <2> SUFFICES ASSUME NEW p \in Pollers PROVE Known(poll[p].fp)'
    OBVIOUS
  <2>1. Known(poll[p].fp)
    BY DEF CountsInv
  <2> QED BY <1>3, <1>4, <2>1 DEF Known, Ended
<1>7. Orderly => Orderly'
  BY <1>4, <1>5 DEF Orderly, Installs, NoneAt, OneCountRules, Traded
<1> QED BY <1>1, <1>2, <1>4, <1>5, <1>6, <1>7 DEF CountsInv

\* Neither a candle that closes nor a step without effect touches any of it.
LEMMA FeedAside ==
  ASSUME CountsInv, CandleCloses \/ UNCHANGED runVars, UNCHANGED <<poll, engineVars, overlapped>>
  PROVE  CountsInv'
<1>1. /\ UNCHANGED <<request, job, registry, finished, aged, storeKind, rows>>
      /\ UNCHANGED <<poll, aiCounts, engineFp, scenario, overlapped>>
      /\ CandleCloses \/ UNCHANGED newest
  BY DEF CandleCloses, runVars, engineVars
<1>2. Inv'
  <2>1. CASE CandleCloses
    BY <1>1, <2>1, RequestsAssumption
       DEF CandleCloses, CountsInv, Inv, RunsTypeOK, RunningStaysFindable, Running, Ended
  <2>2. CASE UNCHANGED newest
    BY <1>1, <2>2 DEF CountsInv, Inv, RunsTypeOK, RunningStaysFindable, Running, Ended
  <2> QED BY <1>1, <2>1, <2>2
<1> QED BY <1>1, <1>2 DEF CountsInv, Known, Ended, Orderly, Installs, NoneAt, OneCountRules, Traded,
                          ScenarioOf

\* A poll takes the account from one count to the next.
LEMMA PollKeeps ==
  ASSUME CountsInv, NEW p \in Pollers, PollStep(p)
  PROVE  CountsInv'
<1>1. /\ UNCHANGED runVars
      /\ poll \in [Pollers -> [at : Stages, fp : Requests \cup {None}]]
  BY DEF PollStep, LoadAnalysis, CompareWithCounts, CompareWithEngine, MarkFingerprint,
         InstallScenario, RecordCount, CountsInv
<1>2. Inv' /\ (\A n \in DOMAIN rows : Ended(rows[n]))'
  BY <1>1 DEF runVars, CountsInv, Inv, RunsTypeOK, RunningStaysFindable, Running, Ended
<1>3. job' = job /\ \A f : (Known(f) <=> Known(f)') /\ ScenarioOf(f)' = ScenarioOf(f)
  BY <1>1 DEF runVars, Known, Ended, ScenarioOf
<1>4. Stored \in Requests \cup {None} /\ Known(Stored)
  <2>1. CASE rows = << >>
    BY <2>1 DEF Stored, Known
  <2>2. CASE rows # << >>
    <3>1. rows \in Seq(Requests) /\ Len(rows) \in DOMAIN rows
      BY <2>2, EmptySeq, LenProperties DEF CountsInv, Inv, RunsTypeOK
    <3> QED BY <2>2, <3>1 DEF Stored, Last, Known, CountsInv
  <2> QED BY <2>1, <2>2
<1>5. PICK at2, fp2 : /\ at2 \in Stages /\ fp2 \in Requests \cup {None} /\ Known(fp2)
                      /\ poll' = [poll EXCEPT ![p] = [at |-> at2, fp |-> fp2]]
                      /\ at2 = "idle" \/ fp2 = poll[p].fp \/ (at2 = "counts" /\ poll[p].at = "idle")
  <2>1. poll[p].fp \in Requests \cup {None} /\ Known(poll[p].fp) /\ Known(None)
    BY <1>1 DEF CountsInv, Known
  <2>2. CASE LoadAnalysis(p)
    BY <1>4, <2>2 DEF LoadAnalysis, PollAt, Stages
  <2>3. ASSUME NEW s \in Stages, MovePoll(p, s)
        PROVE  poll' = [poll EXCEPT ![p] = [at |-> s, fp |-> IF s = "idle" THEN None ELSE poll[p].fp]]
    BY <2>3 DEF MovePoll
  <2>4. CASE ~LoadAnalysis(p)
    <3>1. PICK s \in Stages : MovePoll(p, s)
      BY <2>4 DEF PollStep, CompareWithCounts, CompareWithEngine, MarkFingerprint, InstallScenario,
                  RecordCount, Stages
    <3> QED BY <2>1, <2>3, <3>1
  <2> QED BY <2>2, <2>4
<1>6. /\ poll'[p] = [at |-> at2, fp |-> fp2] /\ \A q \in Pollers \ {p} : poll'[q] = poll[q]
      /\ poll' \in [Pollers -> [at : Stages, fp : Requests \cup {None}]]
  BY <1>1, <1>5
<1>7. /\ (\A q \in Pollers : Known(poll[q].fp))'
      /\ poll[p].fp \in Requests \cup {None} /\ Known(poll[p].fp)
  BY <1>1, <1>3, <1>5, <1>6 DEF CountsInv
<1>8. Known(engineFp)'
  <2>1. engineFp' \in {engineFp, poll[p].fp}
    BY DEF PollStep, LoadAnalysis, CompareWithCounts, CompareWithEngine, MarkFingerprint,
           InstallScenario, RecordCount, engineVars
  <2> QED BY <1>3, <1>7, <2>1 DEF CountsInv, Known, Ended
<1>9. ASSUME ~overlapped' PROVE Orderly'
  <2> DEFINE S1 == {"mark"}
             S2 == {"mark", "install"}
             S3 == {"mark", "install", "record"}
  <2>1. \A s : MovePoll(p, s) => at2 = s /\ fp2 = IF s = "idle" THEN None ELSE poll[p].fp
    BY <1>1, <1>6 DEF MovePoll
  <2>2. \A q \in Pollers \ {p} : (Installs(q) <=> Installs(q)') /\ poll'[q].fp = poll[q].fp
                                 /\ poll'[q].at = poll[q].at
    BY <1>6 DEF Installs
  <2>3. (Installs(p)' <=> at2 \in S3) /\ poll'[p].at = at2 /\ poll'[p].fp = fp2
    BY <1>6 DEF Installs
  \* A poll that is not installing, and does not begin to.
  <2>4. CASE LoadAnalysis(p) \/ CompareWithCounts(p) \/ (CompareWithEngine(p) /\ at2 # "mark")
    <3>1. /\ UNCHANGED engineVars /\ ~overlapped /\ poll[p].at \in {"idle", "counts", "engine"}
          /\ at2 \in {"idle", "counts", "engine"}
      <4>1. CASE LoadAnalysis(p)
        BY <1>6, <1>9, <4>1 DEF LoadAnalysis, PollAt
      <4>2. CASE CompareWithCounts(p)
        BY <1>9, <2>1, <4>2 DEF CompareWithCounts, PollAt
      <4>3. CASE CompareWithEngine(p) /\ at2 # "mark"
        BY <1>9, <2>1, <4>3 DEF CompareWithEngine, PollAt
      <4> QED BY <2>4, <4>1, <4>2, <4>3
    <3>2. Orderly /\ ~Installs(p) /\ ~Installs(p)'
      BY <2>3, <3>1 DEF CountsInv, Installs
    <3>3. /\ (NoneAt(S1)' <=> NoneAt(S1)) /\ (NoneAt(S2)' <=> NoneAt(S2))
          /\ (NoneAt(S3)' <=> NoneAt(S3))
      BY <2>2, <2>3, <3>1 DEF NoneAt
    <3>4. (Traded' <=> Traded) /\ (OneCountRules' <=> OneCountRules) /\ engineFp' = engineFp
      BY <1>3, <3>1 DEF Traded, OneCountRules, engineVars, ScenarioOf
    <3> QED BY <2>2, <3>2, <3>3, <3>4 DEF Orderly
  \* One that begins to install meets only polls of its own count.
  <2>5. CASE CompareWithEngine(p) /\ at2 = "mark"
    <3>1. /\ poll[p].at = "engine" /\ poll[p].fp # engineFp /\ fp2 = poll[p].fp /\ ~MeetsAnother(p)
      BY <1>9, <2>1, <2>5 DEF CompareWithEngine, PollAt
    <3>2. \A q \in Pollers : Installs(q)' => poll'[q].fp = fp2
      BY <2>2, <2>3, <3>1 DEF MeetsAnother
    <3>3. ~NoneAt(S1)' /\ ~NoneAt(S2)' /\ ~NoneAt(S3)'
      BY <2>3, <2>5 DEF NoneAt
    <3> QED BY <3>2, <3>3 DEF Orderly
  \* The others write what all of them write.
  <2>6. CASE MarkFingerprint(p)
    <3>1. /\ Orderly /\ Installs(p) /\ fp2 = poll[p].fp /\ at2 = "install" /\ engineFp' = fp2
      BY <1>9, <2>1, <2>6 DEF MarkFingerprint, PollAt, CountsInv, Installs
    <3>2. \A q \in Pollers : Installs(q)' => poll'[q].fp = fp2
      BY <2>2, <2>3, <3>1 DEF Orderly
    <3>3. ~NoneAt(S2)' /\ ~NoneAt(S3)'
      BY <2>3, <3>1 DEF NoneAt
    <3> QED BY <3>1, <3>2, <3>3 DEF Orderly
  <2>7. CASE InstallScenario(p)
    <3>1. /\ Orderly /\ Installs(p) /\ fp2 = poll[p].fp /\ at2 = "record" /\ engineFp' = engineFp
          /\ scenario' = ScenarioOf(poll[p].fp) /\ poll[p].at = "install"
      BY <1>9, <2>1, <2>7 DEF InstallScenario, PollAt, CountsInv, Installs
    <3>2. \A q \in Pollers : Installs(q)' => poll'[q].fp = fp2
      BY <2>2, <2>3, <3>1 DEF Orderly
    <3>3. NoneAt(S1)' => engineFp' = fp2
      BY <2>2, <3>1 DEF NoneAt, Orderly
    <3>4. NoneAt(S2)' => NoneAt(S1)'
      BY DEF NoneAt
    <3>5. NoneAt(S2)' => Traded'
      BY <1>3, <3>1, <3>3, <3>4 DEF Traded, ScenarioOf
    <3>6. ~NoneAt(S3)'
      BY <2>3, <3>1 DEF NoneAt
    <3> QED BY <3>2, <3>3, <3>5, <3>6 DEF Orderly
  <2>8. CASE RecordCount(p)
    <3>1. /\ Orderly /\ Installs(p) /\ at2 = "idle" /\ engineFp' = engineFp /\ scenario' = scenario
          /\ aiCounts' = poll[p].fp /\ poll[p].at = "record"
      BY <1>9, <2>1, <2>8 DEF RecordCount, PollAt, CountsInv, Installs
    <3>2. \A q \in Pollers : Installs(q)' => Installs(q) /\ poll'[q].fp = poll[q].fp
      BY <2>2, <2>3, <3>1
    <3>3. (NoneAt(S1)' => NoneAt(S1)) /\ (NoneAt(S2)' => NoneAt(S2))
      BY <2>2, <3>1 DEF NoneAt
    <3>4. Traded => Traded'
      BY <1>3, <3>1 DEF Traded, ScenarioOf
    <3>5. NoneAt(S3)' => OneCountRules'
      <4> SUFFICES ASSUME NoneAt(S3)' PROVE OneCountRules'
        OBVIOUS
      <4>1. NoneAt(S1) /\ NoneAt(S2)
        BY <3>3 DEF NoneAt
      <4>2. engineFp = poll[p].fp /\ Traded
        BY <3>1, <4>1 DEF Orderly
      <4> QED BY <3>1, <3>4, <4>2 DEF OneCountRules, Traded
    <3> QED BY <3>1, <3>2, <3>3, <3>4, <3>5 DEF Orderly
  <2> QED BY <2>4, <2>5, <2>6, <2>7, <2>8 DEF PollStep
<1> QED BY <1>1, <1>2, <1>6, <1>7, <1>8, <1>9 DEF CountsInv

LEMMA CountsStart == StudiesInit => CountsInv
<1> SUFFICES ASSUME StudiesInit PROVE CountsInv
  OBVIOUS
<1>1. Init /\ Inv
  BY InitInv DEF StudiesInit, Init
<1>2. rows = << >> /\ engineFp = None /\ aiCounts = None /\ scenario = None
      /\ poll = [p \in Pollers |-> [at |-> "idle", fp |-> None]]
  BY <1>1 DEF Init, RunsInit
<1>3. Orderly
  BY <1>2 DEF Orderly, Installs, NoneAt, OneCountRules, Traded, ScenarioOf
<1> QED BY <1>1, <1>2, <1>3 DEF CountsInv, Known, Stages

LEMMA StudiesKeep ==
  ASSUME CountsInv, [StudiesNext]_<<part, vars, engineOwn, sessionVars>>
  PROVE  CountsInv'
<1>1. CASE Next
  <2>1. CASE RunsGoOn
    BY <2>1, RunsAside DEF RunsGoOn
  <2>2. CASE RunsElse
    BY <2>2, RunsAside, FeedAside DEF RunsElse
  <2>3. CASE \E p \in Pollers : PollStep(p)
    BY <2>3, PollKeeps
  <2> QED BY <1>1, <2>1, <2>2, <2>3 DEF Next
<1>2. CASE UNCHANGED vars
  BY <1>2, FeedAside DEF vars
<1> QED BY <1>1, <1>2 DEF StudiesNext

\* Whatever runs save and however many threads poll: unless the last poll to install a
\* count met one that was installing another, the pipeline's record, the account's
\* fingerprint and the scenario it trades are of one count whenever none is writing
\* them (apply_ai_analysis, set_ai_scenario).
THEOREM LayersAgree == StudiesSpec => []CountsAgree
<1>1. CountsInv => CountsAgree
  BY DEF CountsInv, CountsAgree, Orderly, NoneAt, Installs
<1> QED BY CountsStart, StudiesKeep, <1>1, PTL DEF StudiesSpec

\* With any number of pollers no run in flight is evicted either.
THEOREM StudiesFindable == StudiesSpec => []RunningStaysFindable
<1>1. StudiesInit => Inv
  BY InitInv DEF StudiesInit, Init
<1>2. Inv /\ [StudiesNext]_<<part, vars, engineOwn, sessionVars>> => Inv'
  <2> SUFFICES ASSUME Inv, Next \/ UNCHANGED vars PROVE Inv'
    BY DEF StudiesNext
  <2>1. CASE \E r \in Requests : RequestStep(r) \/ RunStep(r) \/ Age(r)
    BY <2>1, RequestSteps, RunSteps
  <2>2. CASE CandleCloses
    BY <2>2, RequestsAssumption
       DEF CandleCloses, Inv, RunsTypeOK, RunningStaysFindable, Running, Ended
  <2>3. CASE UNCHANGED runVars
    BY <2>3 DEF runVars, Inv, RunsTypeOK, RunningStaysFindable, Running, Ended
  <2>4. (\E p \in Pollers : PollStep(p)) \/ UNCHANGED vars => UNCHANGED runVars
    BY DEF PollStep, LoadAnalysis, CompareWithCounts, CompareWithEngine, MarkFingerprint,
           InstallScenario, RecordCount, vars
  <2> QED BY <2>1, <2>2, <2>3, <2>4 DEF Next, RunsGoOn, RunsElse
<1>3. Inv => RunningStaysFindable
  BY DEF Inv
<1> QED BY <1>1, <1>2, <1>3, PTL DEF StudiesSpec
-----------------------------------------------------------------------------
(* The analyst's session: what has been accepted is handed over.           *)

SessionInv ==
    /\ accepted \in Seq(readings)
    /\ step \in Nat /\ submitted \in BOOLEAN
    /\ submitted /\ at \in {"turn", "request"} => step > 0

LEMMA SessionStarts == StudiesInit => SessionInv
<1> SUFFICES ASSUME StudiesInit PROVE SessionInv
  OBVIOUS
<1>1. accepted = <<>> /\ step = 0 /\ submitted = FALSE
  BY DEF StudiesInit, Session!Init
<1>2. accepted \in Seq(readings) /\ step \in Nat
  BY <1>1
<1> QED BY <1>1, <1>2, Zenon DEF SessionInv

\* The lists of accepted structures only grow.
LEMMA Longer ==
  ASSUME NEW S, NEW s \in Seq(S), NEW t \in Seq(S)
  PROVE  s \o t \in Seq(S) /\ Session!IsPrefix(s, s \o t) /\ Session!IsPrefix(s, s)
<1>1. s \o t \in Seq(S) /\ Len(s) <= Len(s \o t) /\ Len(s) \in Nat
  BY ConcatProperties, LenProperties
<1>2. CASE s = << >>
  <2>1. Len(s) = 0 /\ SubSeq(s, 1, 0) = << >> /\ SubSeq(s \o t, 1, 0) = << >>
    BY <1>1, <1>2, EmptySeq, SubSeqEmpty
  <2> QED BY <1>1, <2>1 DEF Session!IsPrefix
<1>3. CASE s # << >>
  <2>1. 1 \in 1..Len(s) /\ Len(s) \in 1..Len(s)
    BY <1>1, <1>3, EmptySeq
  <2>2. SubSeq(s \o t, 1, Len(s)) = SubSeq(s, 1, Len(s))
    BY <2>1, SubSeqOfConcat1
  <2> QED BY <1>1, <2>2 DEF Session!IsPrefix
<1> QED BY <1>2, <1>3

\* A step of the session, as far as the answer is concerned: a submission
\* adds to it, and whatever ends the run hands it over unless a tool raises.
LEMMA SessionSteps ==
  ASSUME SessionInv, Session!Next
  PROVE  /\ SessionInv' /\ Session!IsPrefix(accepted, accepted')
         /\ submitted /\ at' \in {"done", "raised"} /\ (at = "calls" => at' = "done")
              => at' = "done" /\ result'.finished /\ Session!IsPrefix(accepted, result'.accepted)
<1> DEFINE Resting == accepted' = accepted /\ (submitted' <=> submitted) /\ submitted' \in BOOLEAN
           Handed == at' = "done" /\ result'.accepted = accepted' /\ result'.finished = submitted'
<1>1. accepted \in Seq(readings) /\ <<>> \in Seq(readings) /\ step \in Nat /\ readings' = readings
  BY EmptySeq
     DEF SessionInv, Session!Next, Session!Turn, Session!Tools, Session!OverBudget, Session!Ask,
         Session!Busy, Session!RequestFails, Session!AnswerInProse, Session!AnswerWithCalls,
         Session!ListPivots, Session!Inspect, Session!ArgumentRaises, Session!SubmitCount,
         Session!EndTurn, Session!Called, Session!chartVars
<1>2. Session!IsPrefix(accepted, accepted)
  BY <1>1, Longer
<1>3. ASSUME NEW n, Session!Return(n, "budget") \/ Session!Return(n, "error") \/ Session!Return(n, "prose")
                    \/ Session!Return(n, "finished") \/ Session!Return(n, "steps")
      PROVE  Handed
  BY <1>3 DEF Session!Return
<1>4. CASE Session!SubmitCount
  <2>1. /\ at = "calls" /\ at' = "calls" /\ step' = step /\ submitted'
        /\ \E s \in {<<>>} \cup {<<r>> : r \in readings} : accepted' = accepted \o s
    BY <1>4 DEF Session!SubmitCount, Session!Calling, Session!Called, Session!Submit
  <2>2. PICK s \in Seq(readings) : accepted' = accepted \o s
    <3>1. \A r \in readings : <<r>> \in Seq(readings)
      OBVIOUS
    <3> QED BY <1>1, <2>1, <3>1
  <2>3. accepted' \in Seq(readings) /\ Session!IsPrefix(accepted, accepted')
    BY <1>1, <2>2, Longer
  <2>4. submitted' = TRUE
    BY <1>4 DEF Session!SubmitCount, Session!Submit
  <2> QED BY <1>1, <2>1, <2>3, <2>4 DEF SessionInv
<1>5. CASE ~Session!SubmitCount
  <2>1. accepted' = accepted /\ submitted' = submitted
    BY <1>5 DEF Session!Next, Session!Turn, Session!Tools, Session!OverBudget, Session!Ask,
         Session!Busy, Session!RequestFails, Session!AnswerInProse, Session!AnswerWithCalls,
         Session!ListPivots, Session!Inspect, Session!ArgumentRaises, Session!EndTurn, Session!toolbox
  <2>2. \/ at' = at /\ step' = step /\ at \notin {"done", "raised"}
        \/ at = "turn" /\ at' = "request" /\ step' = step
        \/ at' = "turn" /\ step' = step + 1
        \/ at' = "calls" /\ step' = step
        \/ at = "request" /\ at' = "raised" /\ step = 0
        \/ at = "calls" /\ at' = "raised"
        \/ Handed
    BY <1>3, <1>5
       DEF Session!Next, Session!Turn, Session!Tools, Session!OverBudget, Session!Ask,
         Session!Busy, Session!RequestFails, Session!AnswerInProse, Session!AnswerWithCalls,
         Session!ListPivots, Session!Inspect, Session!ArgumentRaises, Session!EndTurn, Session!Raise,
         Session!Called, Session!Calling
  <2>3. step' \in Nat
    BY <1>1, <1>5
       DEF Session!Next, Session!Turn, Session!Tools, Session!OverBudget, Session!Ask,
         Session!Busy, Session!RequestFails, Session!AnswerInProse, Session!AnswerWithCalls,
         Session!ListPivots, Session!Inspect, Session!ArgumentRaises, Session!EndTurn,
         Session!Called
  <2>4. (submitted' /\ at' \in {"turn", "request"}) => step' > 0
    <3> SUFFICES ASSUME submitted', at' \in {"turn", "request"} PROVE step' > 0
      OBVIOUS
    <3>1. submitted
      BY <2>1, Zenon
    <3>2. at \in {"turn", "request"} => step > 0
      BY <3>1 DEF SessionInv
    <3>3. Handed => at' = "done"
      OBVIOUS
    <3> HIDE DEF Handed
    <3> QED BY <1>1, <2>2, <2>3, <3>2, <3>3
  <2>5. SessionInv'
    BY <1>1, <2>1, <2>3, <2>4 DEF SessionInv
  <2>6. submitted /\ at' \in {"done", "raised"} /\ (at = "calls" => at' = "done")
          => at' = "done" /\ result'.finished /\ Session!IsPrefix(accepted, result'.accepted)
    <3> SUFFICES ASSUME submitted, at' \in {"done", "raised"}, at = "calls" => at' = "done"
                 PROVE  at' = "done" /\ result'.finished /\ Session!IsPrefix(accepted, result'.accepted)
      OBVIOUS
    <3>1. at \in {"turn", "request"} => step > 0
      BY DEF SessionInv
    <3>2. Handed
      BY <1>1, <2>2, <3>1
    <3>3. submitted = TRUE
      BY Zenon DEF SessionInv
    <3>4. result'.finished = TRUE
      BY <2>1, <3>2, <3>3
    <3>5. result'.finished
      BY <3>4, Zenon
    <3> QED BY <1>2, <2>1, <3>2, <3>5
  <2> QED BY <1>2, <2>1, <2>5, <2>6
<1> QED BY <1>4, <1>5

LEMMA SessionGoesOn ==
  ASSUME SessionInv, [StudiesNext]_<<part, vars, engineOwn, sessionVars>>
  PROVE  SessionInv'
<1>1. CASE Session!Next
  BY <1>1, SessionSteps
<1>2. CASE UNCHANGED sessionVars
  BY <1>2 DEF sessionVars, SessionInv
<1> QED BY <1>1, <1>2 DEF StudiesNext

\* Whatever the model service does after the first accepted structure, the run
\* hands it over, unless a tool raises (run_analyst, AnalystToolbox.submit_count).
THEOREM AnswersSurvive == StudiesSpec => AnswerSurvives
<1> DEFINE Survives ==
      /\ Session!IsPrefix(accepted, accepted')
      /\ submitted /\ Session!Ended' /\ (at = "calls" => at' = "done")
           => at' = "done" /\ result'.finished /\ Session!IsPrefix(accepted, result'.accepted)
<1>1. SessionInv /\ [StudiesNext]_<<part, vars, engineOwn, sessionVars>> => [Survives]_Session!vars
  <2> SUFFICES ASSUME SessionInv, [StudiesNext]_<<part, vars, engineOwn, sessionVars>>,
                      ~(UNCHANGED Session!vars)
               PROVE  Survives
    OBVIOUS
  <2>1. Session!Next
    BY DEF StudiesNext, sessionVars, Session!vars, Session!chartVars, Session!toolbox
  <2> QED BY <2>1, SessionSteps DEF Session!Ended
<1>2. SessionInv /\ [StudiesNext]_<<part, vars, engineOwn, sessionVars>> => SessionInv'
  BY SessionGoesOn
<1> HIDE DEF Survives
<1>3. StudiesSpec => [][Survives]_Session!vars
  BY SessionStarts, <1>1, <1>2, PTL DEF StudiesSpec
<1> QED BY <1>3 DEF AnswerSurvives, Session!AnswerSurvives, Survives
-----------------------------------------------------------------------------
(* The scores.                                                             *)

\* A quotient is at most m where the dividend is at most m divisors.
LEMMA Quotient ==
  ASSUME NEW x \in Nat, NEW d \in Nat \ {0}, NEW m \in Nat, x <= m * d
  PROVE  x \div d \in 0..m
OBVIOUS

\* A wave has a length.
HasLength(w) == w.start \in Int /\ w.end \in Int

LEMMA LengthIs == ASSUME NEW w, HasLength(w) PROVE Session!Length(w) \in Nat
BY DEF HasLength, Session!Length, Session!Abs

\* How far a retracement is from a ratio, and the ratio it is nearest to.
Off(leg, back, r) == Session!Abs(1000 * Session!Length(back) - r * Session!Length(leg))
Nearest(leg, back, ratios) ==
    CHOOSE r \in ratios : \A q \in ratios : Off(leg, back, r) <= Off(leg, back, q)

LEMMA OffIs ==
  ASSUME NEW leg, HasLength(leg), NEW back, HasLength(back), NEW r \in Int
  PROVE  Off(leg, back, r) \in Nat
<1> DEFINE l == Session!Length(leg)
           b == Session!Length(back)
           n == 1000 * b - r * l
<1>1. l \in Nat /\ b \in Nat
  BY LengthIs
<1>2. Off(leg, back, r) = Session!Abs(n)
  BY DEF Off
<1> HIDE DEF l, b
<1>3. n \in Int
  BY <1>1
<1> HIDE DEF n
<1> QED BY <1>2, <1>3 DEF Session!Abs

\* One of some things has the least value.
LEMMA LeastValue ==
  ASSUME NEW P, P # {}, NEW f, \A i \in P : f[i] \in Nat
  PROVE  \E i \in P : \A j \in P : f[i] <= f[j]
<1> DEFINE T == {f[i] : i \in P}
<1>1. T \in SUBSET Nat /\ T # {}
  OBVIOUS
<1>2. PICK x \in T : \A y \in T : x <= y
  BY <1>1, LeastNatural
<1> QED BY <1>2

LEMMA ClosestIs ==
  ASSUME NEW leg, HasLength(leg), NEW back, HasLength(back),
         NEW ratios, ratios \subseteq Int, ratios # {}
  PROVE  Session!Closest(leg, back, ratios) \in Nat
<1> DEFINE f == [r \in ratios |-> Off(leg, back, r)]
<1>1. \A r \in ratios : Off(leg, back, r) \in Nat
  <2> TAKE r \in ratios
  <2>1. r \in Int
    OBVIOUS
  <2> QED BY <2>1, OffIs, Zenon
<1>2. \A r \in ratios : f[r] = Off(leg, back, r)
  BY Zenon
<1>3. \A r \in ratios : f[r] \in Nat
  BY <1>1, <1>2, Zenon
<1> HIDE DEF f
<1>4. PICK r \in ratios : \A q \in ratios : f[r] <= f[q]
  BY <1>3, LeastValue
<1>5. \A q \in ratios : Off(leg, back, r) <= Off(leg, back, q)
  <2> TAKE q \in ratios
  <2>1. f[r] <= f[q] /\ f[r] = Off(leg, back, r) /\ f[q] = Off(leg, back, q)
    BY <1>2, <1>4, Zenon
  <2> QED BY <2>1
<1>6. Nearest(leg, back, ratios) \in ratios
  BY <1>5, Zenon DEF Nearest
<1>7. Session!Closest(leg, back, ratios) = Off(leg, back, Nearest(leg, back, ratios))
  BY Zenon DEF Session!Closest, Off, Nearest
<1>8. Off(leg, back, Nearest(leg, back, ratios)) \in Nat
  BY <1>1, <1>6, Zenon
<1> QED BY <1>7, <1>8, Zenon

\* Ratios are whole numbers, scores are thousandths.
Thousandths == 0..1000
Ratios(rs) == rs \subseteq Int /\ rs # {}
LEMMA RatioScore ==
  ASSUME NEW leg, HasLength(leg), NEW back, HasLength(back),
         NEW ratios, Ratios(ratios)
  PROVE  Session!NearestRatioScore(leg, back, ratios) \in Thousandths
<1> DEFINE l == Session!Length(leg)
           c == Session!Closest(leg, back, ratios)
<1>1. l \in Nat /\ c \in Nat
  BY LengthIs, ClosestIs DEF Ratios
<1>2. Session!NearestRatioScore(leg, back, ratios) =
        IF l = 0 \/ c >= 60 * l THEN 0 ELSE 1000 - (1000 * c) \div (60 * l)
  BY DEF Session!NearestRatioScore, Session!Tolerance
<1> HIDE DEF l, c
<1>3. CASE l = 0 \/ c >= 60 * l
  BY <1>2, <1>3 DEF Thousandths
<1>4. CASE ~(l = 0 \/ c >= 60 * l)
  <2> DEFINE x == 1000 * c
             d == 60 * l
  <2>1. x \in Nat /\ d \in Nat \ {0} /\ 1000 \in Nat /\ x <= 1000 * d
    BY <1>1, <1>4
  <2>2. Session!NearestRatioScore(leg, back, ratios) = 1000 - x \div d
    BY <1>2, <1>4
  <2> HIDE DEF x, d
  <2>3. x \div d \in 0..1000
    BY <2>1, Quotient
  <2> QED BY <2>2, <2>3 DEF Thousandths
<1> QED BY <1>3, <1>4

LEMMA Mean == \A x, y \in Thousandths : (x + y) \div 2 \in Thousandths
BY DEF Thousandths

LEMMA FibRatios ==
  /\ \A a, b : HasLength(a) /\ HasLength(b) =>
        Session!NearestRatioScore(a, b, Session!Wave2Ratios) \in Thousandths
  /\ \A a, b : HasLength(a) /\ HasLength(b) =>
        Session!NearestRatioScore(a, b, Session!Wave4Ratios) \in Thousandths
<1>1. Ratios(Session!Wave2Ratios) /\ Ratios(Session!Wave4Ratios)
  BY DEF Ratios, Session!Wave2Ratios, Session!Wave4Ratios
<1>2. ASSUME NEW a, NEW b, HasLength(a), HasLength(b)
      PROVE  Session!NearestRatioScore(a, b, Session!Wave2Ratios) \in Thousandths
  BY <1>1, <1>2, RatioScore, Zenon
<1>3. ASSUME NEW a, NEW b, HasLength(a), HasLength(b)
      PROVE  Session!NearestRatioScore(a, b, Session!Wave4Ratios) \in Thousandths
  BY <1>1, <1>3, RatioScore, Zenon
<1> QED BY <1>2, <1>3

LEMMA FibIs ==
  ASSUME NEW ws, NEW n \in Nat \ {0}, Len(ws) = n, \A k \in 1..n : HasLength(ws[k])
  PROVE  Session!FibScore(ws) \in 0..1000
<1> DEFINE two == Session!NearestRatioScore(ws[1], ws[2], Session!Wave2Ratios)
           four == Session!NearestRatioScore(ws[3], ws[4], Session!Wave4Ratios)
<1>1. n >= 2 => HasLength(ws[1]) /\ HasLength(ws[2])
  OBVIOUS
<1>2. n >= 4 => HasLength(ws[3]) /\ HasLength(ws[4])
  OBVIOUS
<1>3. n >= 2 => two \in Thousandths
  BY <1>1, FibRatios, Zenon
<1>4. n >= 4 => four \in Thousandths
  BY <1>2, FibRatios, Zenon
<1>5. Session!FibScore(ws) = IF n < 2 \/ ws[1].label # "1" THEN 500
                            ELSE IF n < 4 THEN two ELSE (two + four) \div 2
  BY DEF Session!FibScore
<1> HIDE DEF two, four
<1>6. CASE n < 2 \/ ws[1].label # "1"
  <2>1. Session!FibScore(ws) = 500
    BY <1>5, <1>6, Zenon
  <2> QED BY <2>1
<1>7. CASE ~(n < 2 \/ ws[1].label # "1") /\ n < 4
  <2>1. Session!FibScore(ws) = two
    BY <1>5, <1>7, Zenon
  <2>2. n >= 2
    BY <1>7
  <2> QED BY <1>3, <2>1, <2>2, Zenon DEF Thousandths
<1>8. CASE ~(n < 2 \/ ws[1].label # "1") /\ ~(n < 4)
  <2>1. Session!FibScore(ws) = (two + four) \div 2
    BY <1>5, <1>8, Zenon
  <2>2. n >= 2 /\ n >= 4
    BY <1>8
  <2>3. (two + four) \div 2 \in Thousandths
    BY <1>3, <1>4, <2>2, Mean, Zenon
  <2> QED BY <2>1, <2>3, Zenon DEF Thousandths
<1> QED BY <1>6, <1>7, <1>8

\* A flat is at most a fifth flatter.
LEMMA FlatnessIs ==
  ASSUME NEW ws, Len(ws) = 3, \A k \in 1..3 : HasLength(ws[k]), Session!Travelled(ws) > 0
  PROVE  Session!Flatness(ws) \in 0..200
<1> DEFINE t == Session!Travelled(ws)
           net == Session!Abs(Session!Last(ws).end - ws[1].start)
           x == 200 * Session!Least(net, t)
<1>1. HasLength(ws[1]) /\ HasLength(ws[2]) /\ HasLength(ws[3])
  OBVIOUS
<1>2. t \in Nat \ {0}
  <2>1. Session!Length(ws[1]) \in Nat /\ Session!Length(ws[2]) \in Nat /\ Session!Length(ws[3]) \in Nat
    BY <1>1, LengthIs
  <2> QED BY <2>1 DEF Session!Travelled
<1>3. Session!Last(ws) = ws[3]
  BY DEF Session!Last
<1>4. net \in Nat
  BY <1>1, <1>3 DEF HasLength, Session!Abs
<1>5. Session!Flatness(ws) = 200 - x \div t
  BY DEF Session!Flatness
<1>6. x \in Nat /\ x <= 200 * t /\ 200 \in Nat
  BY <1>2, <1>4 DEF Session!Least
<1> HIDE DEF x, t
<1>7. x \div t \in 0..200
  BY <1>2, <1>6, Quotient
<1> QED BY <1>5, <1>7

-----------------------------------------------------------------------------
(* What a candidate scores.                                                *)

PivotRecords == [at : Nat, price : Nat, kind : {1, -1}, confirmed : Nat]
PivotsAt(ps) == ps \in Seq(PivotRecords)

\* The candidate c of the order at pivot i.
Wanted(c) == Session!LegsWanted(Session!CandidateOrder[c])
CandidateAt(ps, i, c) ==
    [structure |-> Session!CandidateOrder[c], from |-> i, to |-> i + Wanted(c),
     score |-> Session!Score(Session!CandidateOrder[c],
                             Session!WavesFrom(ps, i, Session!CandidateOrder[c], Wanted(c))),
     rank |-> c]
FitsAt(ps, i, c) == Session!Fits(ps, i, Session!CandidateOrder[c], Wanted(c))
FitAt(ps, i) == {c \in 1..6 : FitsAt(ps, i, c)}

LEMMA LegalIs ==
  ASSUME NEW ps, NEW i
  PROVE  Session!LegalAt(ps, i) = {CandidateAt(ps, i, c) : c \in FitAt(ps, i)}
BY Zenon DEF Session!LegalAt, CandidateAt, FitAt, FitsAt, Wanted

LEMMA Orders ==
  /\ Session!CandidateOrder[1] = "impulse" /\ Session!CandidateOrder[2] = "contracting"
  /\ Session!CandidateOrder[3] = "expanding" /\ Session!CandidateOrder[4] = "triangle"
  /\ Session!CandidateOrder[5] = "zigzag" /\ Session!CandidateOrder[6] = "flat"
  /\ Wanted(1) = 5 /\ Wanted(2) = 5 /\ Wanted(3) = 5 /\ Wanted(4) = 5
  /\ Wanted(5) = 3 /\ Wanted(6) = 3
<1>1. /\ Session!CandidateOrder[1] = "impulse" /\ Session!CandidateOrder[2] = "contracting"
      /\ Session!CandidateOrder[3] = "expanding" /\ Session!CandidateOrder[4] = "triangle"
      /\ Session!CandidateOrder[5] = "zigzag" /\ Session!CandidateOrder[6] = "flat"
  BY DEF Session!CandidateOrder
<1> QED BY <1>1 DEF Wanted, Session!LegsWanted, Session!Structures, Session!LegsOf

\* The waves of a candidate that fits end before the chart does.
LEMMA WavesHaveLength ==
  ASSUME NEW ps, PivotsAt(ps), NEW i \in 1..Len(ps), NEW c \in 1..6, FitsAt(ps, i, c),
         NEW ws, ws = Session!WavesFrom(ps, i, Session!CandidateOrder[c], Wanted(c))
  PROVE  /\ i + Wanted(c) <= Len(ps)
         /\ Len(ws) = Wanted(c) /\ \A k \in 1..Wanted(c) : HasLength(ws[k])
<1> DEFINE n == Wanted(c)
<1>1. n \in {3, 5}
  BY Orders
<1>2. i + n <= Len(ps)
  BY DEF FitsAt, Session!Fits
<1> HIDE DEF n
<1> DEFINE points == Session!Points(ps, Session!Consecutive(i, n))
           labels == Session!LabelsFor(Session!CandidateOrder[c])
<1>3. \A k \in 1..n + 1 : points[k] = ps[i + k - 1] /\ i + k - 1 \in 1..Len(ps)
  BY <1>1, <1>2 DEF Session!Points, Session!Consecutive
<1>4. \A k \in 1..n + 1 : points[k].price \in Nat
  <2> TAKE k \in 1..n + 1
  <2> DEFINE j == i + k - 1
  <2>1. points[k] = ps[j] /\ j \in 1..Len(ps)
    BY <1>3
  <2> HIDE DEF j, points
  <2>2. ps[j] \in PivotRecords
    BY <2>1 DEF PivotsAt
  <2>3. ps[j].price \in Nat
    BY <2>2 DEF PivotRecords
  <2> QED BY <2>1, <2>3
<1>5. ws = [k \in 1..n |-> Session!MakeWave(labels[k], points[k], points[k + 1])]
  BY DEF Session!WavesFrom, Session!Waves, n
<1> HIDE DEF points, labels
<1>6. \A k \in 1..n : ws[k].start = points[k].price /\ ws[k].end = points[k + 1].price
  BY <1>5 DEF Session!MakeWave
<1>7. \A k \in 1..n : k \in 1..n + 1 /\ k + 1 \in 1..n + 1
  BY <1>1
<1>8. \A k \in 1..n : HasLength(ws[k])
  BY <1>4, <1>6, <1>7 DEF HasLength
<1>9. Len(ws) = n
  BY <1>1, <1>5
<1> QED BY <1>2, <1>8, <1>9 DEF n

\* The rules come first: whatever its proportions, a motive wave scores more
\* than a correction can.
LEMMA ScoresOf ==
  ASSUME NEW ps, PivotsAt(ps), NEW i \in 1..Len(ps), NEW c \in 1..6, FitsAt(ps, i, c)
  PROVE  /\ CandidateAt(ps, i, c).score \in Nat
         /\ c \in 1..3 => CandidateAt(ps, i, c).score >= 1800
         /\ c \in 4..6 => CandidateAt(ps, i, c).score <= 1500
<1> DEFINE s == Session!CandidateOrder[c]
           ws == Session!WavesFrom(ps, i, s, Wanted(c))
           fib == Session!FibScore(ws)
           flat == IF s = "flat" /\ Session!Travelled(ws) > 0 THEN Session!Flatness(ws) ELSE 0
           score == CandidateAt(ps, i, c).score
<1>1. Len(ws) = Wanted(c) /\ \A k \in 1..Wanted(c) : HasLength(ws[k])
  BY WavesHaveLength
<1>2. Wanted(c) \in {3, 5} /\ (s = "flat" <=> c = 6) /\ (c = 6 => Wanted(c) = 3)
  BY Orders
<1>3. score = Session!Weight[s] + fib \div 2 + flat
  BY DEF CandidateAt, Session!Score
<1> HIDE DEF ws
<1>4. fib \in 0..1000
  <2>1. Wanted(c) \in Nat \ {0}
    BY <1>2
  <2> QED BY <1>1, <2>1, FibIs, Zenon
<1>5. flat \in 0..200 /\ (c # 6 => flat = 0)
  <2>1. CASE s = "flat" /\ Session!Travelled(ws) > 0
    <3>1. Session!Flatness(ws) \in 0..200
      <4>1. Wanted(c) = 3
        BY <1>2, <2>1
      <4>2. Len(ws) = 3 /\ \A k \in 1..3 : HasLength(ws[k])
        BY <1>1, <4>1
      <4> QED BY <2>1, <4>2, FlatnessIs
    <3> QED BY <1>2, <2>1, <3>1
  <2>2. CASE ~(s = "flat" /\ Session!Travelled(ws) > 0)
    BY <2>2
  <2> QED BY <2>1, <2>2
<1> HIDE DEF flat, fib
<1>6. /\ c = 1 => Session!Weight[s] = 2200
      /\ c = 2 => Session!Weight[s] = 1900
      /\ c = 3 => Session!Weight[s] = 1800
      /\ c = 4 => Session!Weight[s] = 900
      /\ c = 5 => Session!Weight[s] = 1000
      /\ c = 6 => Session!Weight[s] = 700
  BY Orders DEF Session!Weight
<1> DEFINE w == Session!Weight[s]
<1> HIDE DEF s, w, score
<1>7. score = w + fib \div 2 + flat
  BY <1>3 DEF w
<1>8. fib \div 2 \in 0..500
  BY <1>4
<1>9. /\ c = 1 => w = 2200
      /\ c = 2 => w = 1900
      /\ c = 3 => w = 1800
      /\ c = 4 => w = 900
      /\ c = 5 => w = 1000
      /\ c = 6 => w = 700
  BY <1>6 DEF w
<1> DEFINE half == fib \div 2
<1> HIDE DEF half
<1>10. half \in 0..500 /\ flat \in 0..200 /\ (c # 6 => flat = 0) /\ score = w + half + flat
  BY <1>5, <1>7, <1>8 DEF half
<1>11. c \in 1..3 => w \in Nat /\ w >= 1800
  BY <1>9
<1>12. c \in 4..6 => w \in Nat /\ w <= 1000 /\ (c = 6 => w = 700)
  BY <1>9
<1>13. CASE c \in 1..3
  <2>1. w \in Nat /\ w >= 1800 /\ c \notin 4..6
    BY <1>11, <1>13
  <2>2. score \in Nat /\ score >= 1800
    BY <2>1, <1>10
  <2> QED BY <2>1, <2>2 DEF score
<1>14. CASE c \in 4..6
  <2>1. w \in Nat /\ w <= 1000 /\ (c = 6 => w = 700) /\ c \notin 1..3
    BY <1>12, <1>14
  <2>2. score \in Nat /\ score <= 1500
    BY <2>1, <1>10
  <2> QED BY <2>1, <2>2 DEF score
<1> QED BY <1>13, <1>14

-----------------------------------------------------------------------------
(* The best of what is legal.                                              *)

\* The first of the candidates with the highest score is the best.
ScoreOf(ps, i, c) == CandidateAt(ps, i, c).score
First(ps, i, c) ==
    \A d \in FitAt(ps, i) \ {c} :
        \/ ScoreOf(ps, i, c) > ScoreOf(ps, i, d)
        \/ ScoreOf(ps, i, c) = ScoreOf(ps, i, d) /\ c < d

LEMMA FirstExists ==
  ASSUME NEW ps, PivotsAt(ps), NEW i \in 1..Len(ps), FitAt(ps, i) # {}
  PROVE  \E c \in FitAt(ps, i) : First(ps, i, c)
<1> DEFINE P == FitAt(ps, i)
           f == [c \in P |-> 10 * ScoreOf(ps, i, c) + (6 - c)]
           g == [c \in 1..6 |-> IF c \in P THEN f[c] ELSE 0]
<1>1. P \in SUBSET (1..6)
  BY DEF FitAt
<1>2. \A c \in P : ScoreOf(ps, i, c) \in Nat
  BY ScoresOf DEF FitAt, ScoreOf
<1> HIDE DEF P
<1>3. \A c \in P : f[c] = 10 * ScoreOf(ps, i, c) + (6 - c) /\ f[c] \in Nat
  BY <1>1, <1>2
<1> HIDE DEF f
<1>4. \A c \in 1..6 : g[c] \in Nat
  BY <1>3
<1>5. \A c \in P : g[c] = f[c]
  BY <1>1
<1> HIDE DEF g
<1>6. 6 \in Nat /\ P # {}
  BY DEF P
<1>7. PICK c \in P : \A d \in P : g[d] <= g[c]
  BY <1>1, <1>4, <1>6, GreatestHeld
<1>8. ASSUME NEW d \in P, d # c
      PROVE  \/ ScoreOf(ps, i, c) > ScoreOf(ps, i, d)
             \/ ScoreOf(ps, i, c) = ScoreOf(ps, i, d) /\ c < d
  <2> DEFINE x == ScoreOf(ps, i, c)
             y == ScoreOf(ps, i, d)
  <2>1. x \in Nat /\ y \in Nat /\ c \in 1..6 /\ d \in 1..6
    BY <1>1, <1>2, <1>8
  <2>2. f[d] <= f[c] /\ f[c] = 10 * x + (6 - c) /\ f[d] = 10 * y + (6 - d)
    BY <1>3, <1>5, <1>7, <1>8
  <2> HIDE DEF x, y
  <2>3. 10 * y + (6 - d) <= 10 * x + (6 - c)
    BY <2>2
  <2>4. x > y \/ (x = y /\ c < d)
    BY <2>1, <2>3, <1>8
  <2> QED BY <2>4 DEF x, y
<1>9. First(ps, i, c)
  BY <1>8 DEF First, P
<1> QED BY <1>7, <1>9 DEF P

Names == {"impulse", "contracting", "expanding", "triangle", "zigzag", "flat"}
\* What is placed at pivot i: it fits, and no motive wave gives way to a correction.
SoundAt(ps, i, s) ==
    /\ s \in [structure : Names, from : Nat, to : Nat, score : Nat, rank : Nat]
    /\ s.from = i /\ s.to \in (i + 3)..Len(ps)
    /\ s.structure \notin Session!Structures =>
          \A t \in Session!Structures : ~Session!Fits(ps, s.from, t, 5)

LEMMA BestIs ==
  ASSUME NEW ps, PivotsAt(ps), NEW i \in 1..Len(ps), Session!LegalAt(ps, i) # {}
  PROVE  SoundAt(ps, i, Session!BestAt(ps, i))
<1> DEFINE L == Session!LegalAt(ps, i)
           Best(s) == \A t \in L \ {s} : Session!Beats(s, t)
<1>1. L = {CandidateAt(ps, i, c) : c \in FitAt(ps, i)}
  BY LegalIs
<1> HIDE DEF L
<1>2. FitAt(ps, i) # {}
  BY <1>1 DEF L
<1>3. PICK c \in FitAt(ps, i) : First(ps, i, c)
  BY <1>2, FirstExists
<1>4. \A d \in 1..6 : CandidateAt(ps, i, d).rank = d
  BY DEF CandidateAt
<1>5. Best(CandidateAt(ps, i, c))
  <2> SUFFICES ASSUME NEW t \in L \ {CandidateAt(ps, i, c)}
               PROVE  Session!Beats(CandidateAt(ps, i, c), t)
    OBVIOUS
  <2>1. PICK d \in FitAt(ps, i) : t = CandidateAt(ps, i, d)
    BY <1>1
  <2>2. d # c /\ c \in 1..6 /\ d \in 1..6
    BY <2>1 DEF FitAt
  <2> QED BY <1>3, <1>4, <2>1, <2>2 DEF First, ScoreOf, Session!Beats
<1>6. CandidateAt(ps, i, c) \in L
  BY <1>1
<1> DEFINE best == CHOOSE s \in L : Best(s)
<1>7. best \in L /\ Best(best)
  BY <1>5, <1>6
<1>8. Session!BestAt(ps, i) = best
  BY DEF Session!BestAt, L
<1> HIDE DEF best
<1>9. PICK e \in FitAt(ps, i) : best = CandidateAt(ps, i, e)
  BY <1>1, <1>7
<1>10. e \in 1..6 /\ FitsAt(ps, i, e)
  BY DEF FitAt
<1>11. i + Wanted(e) <= Len(ps)
  BY <1>10, WavesHaveLength
<1>12. Wanted(e) \in {3, 5} /\ Session!CandidateOrder[e] \in Names
  <2>1. e = 1 \/ e = 2 \/ e = 3 \/ e = 4 \/ e = 5 \/ e = 6
    BY <1>10
  <2>2. Wanted(e) = 3 \/ Wanted(e) = 5
    BY <2>1, Orders
  <2>3. Session!CandidateOrder[e] \in Names
    BY <2>1, Orders DEF Names
  <2> QED BY <2>2, <2>3
<1>13. CandidateAt(ps, i, e).score \in Nat
  BY <1>10, ScoresOf
<1>14. /\ best.structure = Session!CandidateOrder[e] /\ best.from = i
       /\ best.to = i + Wanted(e) /\ best.rank = e
       /\ best = [structure |-> best.structure, from |-> best.from, to |-> best.to,
                  score |-> best.score, rank |-> best.rank]
  BY <1>9 DEF CandidateAt
<1>15. Len(ps) \in Nat
  BY DEF PivotsAt
<1>16. best.to \in (i + 3)..Len(ps) /\ best.to \in Nat /\ best.from \in Nat /\ best.rank \in Nat
  BY <1>10, <1>11, <1>12, <1>14, <1>15
<1>17. best \in [structure : Names, from : Nat, to : Nat, score : Nat, rank : Nat]
  BY <1>9, <1>12, <1>13, <1>14, <1>16
<1>18. ASSUME best.structure \notin Session!Structures,
              NEW t \in Session!Structures, Session!Fits(ps, best.from, t, 5)
       PROVE  FALSE
  <2>1. e \in 4..6
    BY <1>10, <1>14, <1>18, Orders DEF Session!Structures
  <2>2. PICK d \in 1..3 : Session!CandidateOrder[d] = t
    BY <1>18, Orders DEF Session!Structures
  <2>3. d \in 1..6 /\ FitsAt(ps, i, d)
    BY <1>14, <1>18, <2>2, Orders DEF FitsAt
  <2>4. CandidateAt(ps, i, d) \in L /\ CandidateAt(ps, i, d) # best
    BY <1>1, <1>4, <1>9, <1>10, <2>1, <2>2, <2>3 DEF FitAt
  <2>5. Session!Beats(best, CandidateAt(ps, i, d))
    BY <1>7, <2>4
  <2>6. /\ CandidateAt(ps, i, e).score \in Nat /\ CandidateAt(ps, i, e).score <= 1500
        /\ CandidateAt(ps, i, d).score \in Nat /\ CandidateAt(ps, i, d).score >= 1800
    BY <1>10, <2>1, <2>2, <2>3, ScoresOf
  <2> QED BY <1>9, <2>5, <2>6 DEF Session!Beats
<1> QED BY <1>8, <1>14, <1>16, <1>17, <1>18 DEF SoundAt

-----------------------------------------------------------------------------
(* The walk.                                                               *)

Structs == [structure : Names, from : Nat, to : Nat, score : Nat, rank : Nat]
Step(ps, f, i) ==
    IF i + 3 > Len(ps) THEN Session!NothingFrom(i)
    ELSE IF Session!LegalAt(ps, i) = {} THEN f[i + 1]
    ELSE [placed |-> <<Session!BestAt(ps, i)>> \o f[Session!BestAt(ps, i).to].placed,
          end |-> f[Session!BestAt(ps, i).to].end]

\* A walk from pivot i places structures one after the other.
SoundWalk(ps, i, r) ==
    /\ r \in [placed : Seq(Structs), end : Nat] /\ i <= r.end
    /\ \A k \in 1..Len(r.placed) :
          /\ i <= r.placed[k].from /\ r.placed[k].to <= r.end
          /\ r.placed[k].from \in 1..Len(ps) /\ SoundAt(ps, r.placed[k].from, r.placed[k])
    /\ \A k \in 1..Len(r.placed) - 1 : r.placed[k].to <= r.placed[k + 1].from

LEMMA WalkIs == ASSUME NEW ps
                PROVE  Session!WalkFrom(ps) = CHOOSE f : f = [i \in 1..Len(ps) |-> Step(ps, f, i)]
BY DEF Session!WalkFrom, Step

\* A step of the walk looks ahead only, so that the walk exists.
LEMMA StepAhead ==
  ASSUME NEW ps, PivotsAt(ps), NEW i \in 1..Len(ps), NEW f, NEW g,
         \A j \in (i + 1)..Len(ps) : f[j] = g[j]
  PROVE  Step(ps, f, i) = Step(ps, g, i)
<1>1. Len(ps) \in Nat
  BY DEF PivotsAt
<1>2. CASE i + 3 > Len(ps)
  BY <1>2 DEF Step
<1>3. CASE ~(i + 3 > Len(ps)) /\ Session!LegalAt(ps, i) = {}
  <2>1. i + 1 \in (i + 1)..Len(ps)
    BY <1>1, <1>3
  <2> QED BY <1>3, <2>1 DEF Step
<1>4. CASE ~(i + 3 > Len(ps)) /\ Session!LegalAt(ps, i) # {}
  <2> DEFINE best == Session!BestAt(ps, i)
  <2>1. best.to \in (i + 3)..Len(ps)
    BY <1>4, BestIs DEF SoundAt
  <2> HIDE DEF best
  <2>2. best.to \in (i + 1)..Len(ps)
    BY <1>1, <2>1
  <2>3. f[best.to] = g[best.to]
    BY <2>2
  <2> QED BY <1>4, <2>3 DEF Step, best
<1> QED BY <1>2, <1>3, <1>4

\* What is placed in front of a sound walk makes a sound walk.
LEMMA StepSound ==
  ASSUME NEW ps, PivotsAt(ps), NEW i \in 1..Len(ps), NEW f,
         \A j \in (i + 1)..Len(ps) : SoundWalk(ps, j, f[j])
  PROVE  SoundWalk(ps, i, Step(ps, f, i))
<1>1. Len(ps) \in Nat
  BY DEF PivotsAt
<1>2. CASE i + 3 > Len(ps)
  <2>1. Step(ps, f, i) = [placed |-> <<>>, end |-> i]
    BY <1>2 DEF Step, Session!NothingFrom
  <2> QED BY <2>1 DEF SoundWalk
<1>3. CASE ~(i + 3 > Len(ps)) /\ Session!LegalAt(ps, i) = {}
  <2>1. i + 1 \in (i + 1)..Len(ps)
    BY <1>1, <1>3
  <2>2. Step(ps, f, i) = f[i + 1]
    BY <1>3 DEF Step
  <2> DEFINE r == f[i + 1]
  <2>3. SoundWalk(ps, i + 1, r)
    BY <2>1
  <2> HIDE DEF r
  <2>4. r \in [placed : Seq(Structs), end : Nat] /\ i <= r.end
    BY <2>3 DEF SoundWalk
  <2>5. \A k \in 1..Len(r.placed) : r.placed[k].from \in Nat /\ i + 1 <= r.placed[k].from
    BY <2>3 DEF SoundWalk, SoundAt
  <2>6. \A k \in 1..Len(r.placed) : i <= r.placed[k].from
    BY <2>5
  <2>7. SoundWalk(ps, i, r)
    BY <2>3, <2>4, <2>6 DEF SoundWalk
  <2> QED BY <2>2, <2>7 DEF r
<1>4. CASE ~(i + 3 > Len(ps)) /\ Session!LegalAt(ps, i) # {}
  <2> DEFINE b == Session!BestAt(ps, i)
             r == f[b.to]
             t == r.placed
             s == <<b>> \o t
  <2>1. SoundAt(ps, i, b)
    BY <1>4, BestIs
  <2>2. Step(ps, f, i) = [placed |-> s, end |-> r.end]
    BY <1>4 DEF Step
  <2> HIDE DEF b
  <2>3. b \in Structs /\ b.from = i /\ b.to \in (i + 3)..Len(ps) /\ b.to \in Nat
    BY <2>1, <1>1 DEF SoundAt, Structs
  <2>4. b.to \in (i + 1)..Len(ps)
    BY <1>1, <2>3
  <2>5. SoundWalk(ps, b.to, r)
    BY <2>4
  <2> HIDE DEF r
  <2>6. t \in Seq(Structs) /\ r.end \in Nat /\ b.to <= r.end
    BY <2>5 DEF SoundWalk
  <2>7. \A k \in 1..Len(t) :
          /\ b.to <= t[k].from /\ t[k].to <= r.end
          /\ t[k].from \in 1..Len(ps) /\ SoundAt(ps, t[k].from, t[k])
    BY <2>5 DEF SoundWalk
  <2>8. \A k \in 1..Len(t) - 1 : t[k].to <= t[k + 1].from
    BY <2>5 DEF SoundWalk
  <2> HIDE DEF t
  <2>9. /\ s \in Seq(Structs) /\ Len(s) = 1 + Len(t) /\ Len(t) \in Nat /\ s[1] = b
        /\ \A k \in 1..Len(t) : s[k + 1] = t[k]
    BY <2>3, <2>6
  <2> HIDE DEF s
  <2>10. ASSUME NEW k \in 1..Len(s)
         PROVE  /\ i <= s[k].from /\ s[k].to <= r.end
                /\ s[k].from \in 1..Len(ps) /\ SoundAt(ps, s[k].from, s[k])
    <3>1. CASE k = 1
      BY <2>1, <2>3, <2>6, <2>9, <3>1
    <3>2. CASE k > 1
      <4> DEFINE j == k - 1
      <4>1. j \in 1..Len(t) /\ s[k] = t[j]
        <5>1. j \in 1..Len(t) /\ k = j + 1
          BY <2>9, <2>10, <3>2
        <5> QED BY <5>1, <2>9
      <4> HIDE DEF j
      <4>2. /\ b.to <= t[j].from /\ t[j].to <= r.end
            /\ t[j].from \in 1..Len(ps) /\ SoundAt(ps, t[j].from, t[j])
        BY <2>7, <4>1
      <4>3. i <= t[j].from
        BY <2>3, <4>2
      <4> QED BY <4>1, <4>2, <4>3
    <3> QED BY <2>9, <3>1, <3>2
  <2>11. ASSUME NEW k \in 1..Len(s) - 1
         PROVE  s[k].to <= s[k + 1].from
    <3>1. k \in 1..Len(t) /\ s[k + 1] = t[k]
      BY <2>9, <2>11
    <3>2. CASE k = 1
      BY <2>7, <2>9, <3>1, <3>2
    <3>3. CASE k > 1
      <4> DEFINE j == k - 1
      <4>1. j \in 1..Len(t) - 1 /\ k = j + 1 /\ j \in 1..Len(t)
        BY <2>9, <3>1, <3>3
      <4> HIDE DEF j
      <4>2. s[k] = t[j] /\ t[j].to <= t[j + 1].from
        BY <2>8, <2>9, <4>1
      <4> QED BY <3>1, <4>1, <4>2
    <3> QED BY <3>1, <3>2, <3>3
  <2> DEFINE w == Step(ps, f, i)
  <2>12. w.placed = s /\ w.end = r.end /\ w \in [placed : Seq(Structs), end : Nat]
    BY <2>2, <2>6, <2>9
  <2> HIDE DEF w
  <2>13. i <= r.end
    BY <2>3, <2>6
  <2>14. SoundWalk(ps, i, w)
    BY <2>10, <2>11, <2>12, <2>13 DEF SoundWalk
  <2> QED BY <2>14 DEF w
<1> QED BY <1>2, <1>3, <1>4

\* The walk is what its definition says.
LEMMA WalkExists ==
  ASSUME NEW ps, PivotsAt(ps)
  PROVE  LET w == Session!WalkFrom(ps)
         IN  \A i \in 1..Len(ps) : w[i] = Step(ps, w, i)
<1> DEFINE L == Len(ps)
           Solves(f, n) == \A i \in (L - n + 1)..L : f[i] = Step(ps, f, i)
           S == {n \in 0..L : \E f : Solves(f, n)}
<1>1. L \in Nat
  BY DEF PivotsAt
<1>2. 0 \in S
  BY <1>1
<1>3. ASSUME NEW n \in 0..(L - 1), n \in S PROVE n + 1 \in S
  <2>1. PICK f : Solves(f, n)
    BY <1>3
  <2> DEFINE i == L - n
             g == [j \in i..L |-> IF j = i THEN Step(ps, f, j) ELSE f[j]]
  <2>2. i \in 1..L /\ i \in i..L /\ n + 1 \in 0..L
    BY <1>1, <1>3
  <2>3. \A j \in (i + 1)..L : g[j] = f[j] /\ j \in 1..L
    BY <2>2
  <2>4. g[i] = Step(ps, f, i)
    BY <2>2
  <2> HIDE DEF g
  <2>5. ASSUME NEW j \in i..L PROVE g[j] = Step(ps, g, j)
    <3>1. j \in 1..L
      BY <2>2, <2>5
    <3>2. \A k \in (j + 1)..L : g[k] = f[k]
      BY <2>2, <2>3, <2>5
    <3>3. Step(ps, g, j) = Step(ps, f, j)
      BY <3>1, <3>2, StepAhead
    <3>4. CASE j = i
      BY <2>4, <3>3, <3>4
    <3>5. CASE j # i
      <4>1. j \in (i + 1)..L
        BY <2>2, <2>5, <3>5
      <4>2. f[j] = Step(ps, f, j)
        BY <2>1, <4>1
      <4> QED BY <2>3, <3>3, <4>1, <4>2
    <3> QED BY <3>4, <3>5
  <2>6. L - (n + 1) + 1 = i
    BY <1>1, <1>3
  <2>7. Solves(g, n + 1)
    BY <2>5, <2>6
  <2> QED BY <2>2, <2>7
<1>4. L \in S
  <2> HIDE DEF S
  <2>1. 0..L \subseteq S
    BY <1>1, <1>2, <1>3, Counting
  <2> QED BY <1>1, <2>1
<1>5. PICK f : Solves(f, L)
  BY <1>4
<1>6. \A i \in 1..L : f[i] = Step(ps, f, i)
  BY <1>1, <1>5
<1> DEFINE g == [i \in 1..L |-> f[i]]
<1>7. \A i \in 1..L : g[i] = Step(ps, g, i)
  <2> SUFFICES ASSUME NEW i \in 1..L PROVE g[i] = Step(ps, g, i)
    OBVIOUS
  <2>1. \A j \in (i + 1)..L : g[j] = f[j]
    BY <1>1
  <2>2. g[i] = f[i]
    OBVIOUS
  <2> HIDE DEF g
  <2>3. Step(ps, g, i) = Step(ps, f, i)
    BY <2>1, StepAhead
  <2> QED BY <1>6, <2>2, <2>3
<1>8. g = [i \in 1..L |-> Step(ps, g, i)]
  BY <1>7
<1> HIDE DEF g
<1> DEFINE w == CHOOSE h : h = [i \in 1..L |-> Step(ps, h, i)]
<1>9. w = [i \in 1..L |-> Step(ps, w, i)]
  BY <1>8
<1>10. Session!WalkFrom(ps) = w
  BY WalkIs
<1> HIDE DEF w
<1>11. \A i \in 1..L : w[i] = Step(ps, w, i)
  BY <1>9
<1> QED BY <1>10, <1>11

\* From the last pivot to the first: every walk is sound.
LEMMA WalkSound ==
  ASSUME NEW ps, PivotsAt(ps), NEW i \in 1..Len(ps)
  PROVE  SoundWalk(ps, i, Session!WalkFrom(ps)[i])
<1> DEFINE L == Len(ps)
           w == Session!WalkFrom(ps)
           S == {n \in 0..L : \A j \in (L - n + 1)..L : SoundWalk(ps, j, w[j])}
<1>1. L \in Nat
  BY DEF PivotsAt
<1>2. \A j \in 1..L : w[j] = Step(ps, w, j)
  BY WalkExists
<1> HIDE DEF w
<1>3. 0 \in S
  BY <1>1
<1>4. ASSUME NEW n \in 0..(L - 1), n \in S PROVE n + 1 \in S
  <2> DEFINE k == L - n
  <2>1. k \in 1..L /\ n + 1 \in 0..L /\ k = L - (n + 1) + 1
    BY <1>1, <1>4
  <2>2. \A j \in (k + 1)..L : SoundWalk(ps, j, w[j])
    BY <1>4
  <2> HIDE DEF k
  <2>3. SoundWalk(ps, k, w[k])
    BY <1>2, <2>1, <2>2, StepSound
  <2>4. \A j \in k..L : SoundWalk(ps, j, w[j])
    BY <1>1, <2>1, <2>2, <2>3
  <2> QED BY <2>1, <2>4
<1>5. L \in S
  <2> HIDE DEF S
  <2>1. 0..L \subseteq S
    BY <1>1, <1>3, <1>4, Counting
  <2> QED BY <1>1, <2>1
<1> QED BY <1>1, <1>5 DEF w

\* The automatic count of any chart.
Outranks(ps, count) ==
    LET placed == count.placed
    IN  /\ \A k \in DOMAIN placed :
              placed[k].structure \notin Session!Structures =>
                  \A t \in Session!Structures : ~Session!Fits(ps, placed[k].from, t, 5)
        /\ \A k \in 1..Len(placed) - 1 : placed[k].to <= placed[k + 1].from
        /\ placed # <<>> /\ count.developing # <<>> =>
              Session!Last(placed).to <= count.developing[1].from

LEMMA CountOutranks ==
  ASSUME NEW ps, PivotsAt(ps), NEW n \in Nat \ {0}
  PROVE  Outranks(ps, Session!CountOf(ps, n))
<1> DEFINE count == Session!CountOf(ps, n)
           r == Session!WalkFrom(ps)[1]
<1>1. Len(ps) \in Nat
  BY DEF PivotsAt
<1>2. CASE Len(ps) < n
  <2>1. count = [placed |-> <<>>, developing |-> <<>>]
    BY <1>2 DEF Session!CountOf
  <2> HIDE DEF count
  <2>2. count.placed = <<>> /\ DOMAIN count.placed = {} /\ Len(count.placed) = 0
    BY <2>1
  <2>3. Outranks(ps, count)
    BY <2>2 DEF Outranks
  <2> QED BY <2>3 DEF count
<1>3. CASE Len(ps) >= n
  <2>1. count = [placed |-> r.placed, developing |-> Session!FittedTail(ps, r.end)]
    BY <1>1, <1>3 DEF Session!CountOf
  <2>2. 1 \in 1..Len(ps)
    BY <1>1, <1>3
  <2>3. SoundWalk(ps, 1, r)
    BY <2>2, WalkSound
  <2> HIDE DEF r
  <2> DEFINE d == Session!FittedTail(ps, r.end)
  <2>4. d = <<>> \/ d[1].from = r.end
    BY DEF Session!FittedTail
  <2> HIDE DEF d
  <2>5. count.placed = r.placed /\ count.developing = d
    BY <2>1 DEF d
  <2> HIDE DEF count
  <2> DEFINE placed == r.placed
  <2>6. placed \in Seq(Structs) /\ DOMAIN placed = 1..Len(placed) /\ Len(placed) \in Nat
    BY <2>3 DEF SoundWalk
  <2>7. \A k \in 1..Len(placed) :
          /\ placed[k].to <= r.end
          /\ placed[k].structure \notin Session!Structures =>
                  \A t \in Session!Structures : ~Session!Fits(ps, placed[k].from, t, 5)
    BY <2>3 DEF SoundWalk, SoundAt
  <2>8. \A k \in 1..Len(placed) - 1 : placed[k].to <= placed[k + 1].from
    BY <2>3 DEF SoundWalk
  <2> HIDE DEF placed
  <2>9. placed # <<>> => Session!Last(placed).to <= r.end
    <3> HAVE placed # <<>>
    <3>1. Len(placed) \in 1..Len(placed)
      BY <2>6
    <3> QED BY <2>7, <3>1 DEF Session!Last
  <2>10. Outranks(ps, count)
    BY <2>4, <2>5, <2>6, <2>7, <2>8, <2>9 DEF Outranks, placed
  <2> QED BY <2>10 DEF count
<1> QED BY <1>1, <1>2, <1>3

\* On every chart and for any service: no correction is placed where the rules
\* accept a five-wave motive reading, and the structures of the automatic count
\* follow each other (deep_count.py).
THEOREM MotivesOutrank == StudiesSpec => []MotiveOutranks
<1> DEFINE CountInv == chart \in Charts /\ automatic = Session!CountOf(chart, MinPivots)
<1>1. StudiesInit => CountInv
  BY DEF StudiesInit, Session!Init
<1>2. CountInv /\ [StudiesNext]_<<part, vars, engineOwn, sessionVars>> => CountInv'
  <2> SUFFICES ASSUME CountInv, [StudiesNext]_<<part, vars, engineOwn, sessionVars>>
               PROVE  UNCHANGED <<chart, automatic>>
    OBVIOUS
  <2>1. CASE Session!Next
    BY <2>1
       DEF Session!Next, Session!Turn, Session!Tools, Session!OverBudget, Session!Ask,
           Session!Busy, Session!RequestFails, Session!AnswerInProse, Session!AnswerWithCalls,
           Session!ListPivots, Session!Inspect, Session!ArgumentRaises, Session!SubmitCount,
           Session!EndTurn, Session!Called, Session!chartVars
  <2>2. CASE UNCHANGED sessionVars
    BY <2>2 DEF sessionVars
  <2> QED BY <2>1, <2>2 DEF StudiesNext
<1>3. CountInv => MotiveOutranks
  <2> SUFFICES ASSUME CountInv PROVE MotiveOutranks
    OBVIOUS
  <2>1. PivotsAt(chart) /\ MinPivots \in Nat \ {0}
    BY ChartsAssumption DEF PivotsAt, PivotRecords
  <2>2. Outranks(chart, automatic)
    BY <2>1, CountOutranks
  <2> QED BY <2>2 DEF Outranks, MotiveOutranks, Session!MotiveOutranks
<1> QED BY <1>1, <1>2, <1>3, PTL DEF StudiesSpec

-----------------------------------------------------------------------------
(* Orders.                                                                 *)

\* What precedes s in a relation.
Preceding(U, R, s) == {t \in U : <<t, s>> \in R}

\* Of finitely many things in a strict order there is one at each place.
LEMMA Ranks ==
  ASSUME NEW U, IsFiniteSet(U), NEW R,
         \A s \in U : <<s, s>> \notin R,
         \A s, t \in U : s # t => <<s, t>> \in R \/ <<t, s>> \in R,
         \A s, t, u \in U : <<s, t>> \in R /\ <<t, u>> \in R => <<s, u>> \in R
  PROVE  /\ Cardinality(U) \in Nat
         /\ \A i \in 1..Cardinality(U) : \E s \in U : Cardinality(Preceding(U, R, s)) = i - 1
         /\ \A s \in U : Cardinality(Preceding(U, R, s)) \in 0..Cardinality(U) - 1
         /\ \A s, t \in U : <<s, t>> \in R =>
               Cardinality(Preceding(U, R, s)) < Cardinality(Preceding(U, R, t))
<1> DEFINE Over(s) == {t \in U : <<t, s>> \in R}
           N == Cardinality(U)
           rank == [s \in U |-> Cardinality(Over(s)) + 1]
<1>1. N \in Nat
  BY FS_CardinalityType
<1>2. ASSUME NEW s \in U PROVE IsFiniteSet(Over(s)) /\ Cardinality(Over(s)) \in 0..N - 1
  <2>1. Over(s) \in SUBSET U /\ Over(s) # U
    OBVIOUS
  <2> HIDE DEF Over
  <2>2. IsFiniteSet(Over(s)) /\ Cardinality(Over(s)) <= N /\ Cardinality(Over(s)) # N
    BY <2>1, FS_Subset
  <2>3. Cardinality(Over(s)) \in Nat
    BY <2>2, FS_CardinalityType
  <2> QED BY <1>1, <2>2, <2>3
<1>3. ASSUME NEW s \in U, NEW t \in U, <<s, t>> \in R
      PROVE  Cardinality(Over(s)) < Cardinality(Over(t))
  <2>1. Over(s) \in SUBSET Over(t)
    BY <1>3
  <2>2. s \in Over(t) /\ s \notin Over(s)
    BY <1>3
  <2>3. IsFiniteSet(Over(t)) /\ Cardinality(Over(t)) \in Nat /\ Cardinality(Over(s)) \in Nat
    <3> HIDE DEF Over
    <3>1. \A u \in U : IsFiniteSet(Over(u)) /\ Cardinality(Over(u)) \in Nat
      BY <1>1, <1>2
    <3> QED BY <3>1
  <2> HIDE DEF Over
  <2>4. Cardinality(Over(s)) <= Cardinality(Over(t)) /\ Cardinality(Over(s)) # Cardinality(Over(t))
    BY <2>1, <2>2, <2>3, FS_Subset
  <2> QED BY <2>3, <2>4
<1> HIDE DEF Over
<1>4. rank \in Injection(U, 1..N)
  <2>1. \A s \in U : Cardinality(Over(s)) + 1 \in 1..N
    BY <1>1, <1>2
  <2>2. rank \in [U -> 1..N]
    BY <2>1
  <2>3. ASSUME NEW s \in U, NEW t \in U, rank[s] = rank[t], s # t PROVE FALSE
    <3>1. Cardinality(Over(s)) + 1 = Cardinality(Over(t)) + 1
      BY <2>3
    <3>2. Cardinality(Over(s)) < Cardinality(Over(t)) \/ Cardinality(Over(t)) < Cardinality(Over(s))
      BY <1>3, <2>3
    <3>3. Cardinality(Over(s)) \in Int /\ Cardinality(Over(t)) \in Int
      BY <1>1, <1>2
    <3> QED BY <3>1, <3>2, <3>3
  <2> HIDE DEF rank
  <2> QED BY <2>2, <2>3 DEF Injection, IsInjective
<1>5. rank \in Surjection(U, 1..N)
  <2>1. IsFiniteSet(1..N) /\ Cardinality(1..N) = N
    BY <1>1, FS_Interval
  <2> HIDE DEF rank
  <2> QED BY <1>4, <2>1, FS_Injection
<1>6. ASSUME NEW i \in 1..N PROVE \E s \in U : Cardinality(Over(s)) = i - 1
  <2>1. PICK s \in U : rank[s] = i
    BY <1>5 DEF Surjection
  <2>2. Cardinality(Over(s)) \in Int /\ Cardinality(Over(s)) + 1 = i
    BY <1>1, <1>2, <2>1
  <2> QED BY <2>2
<1>7. \A s \in U : Over(s) = Preceding(U, R, s)
  BY DEF Over, Preceding
<1> QED BY <1>1, <1>2, <1>3, <1>6, <1>7

LEMMA Ranked ==
  ASSUME NEW U, IsFiniteSet(U), NEW R,
         \A s \in U : <<s, s>> \notin R,
         \A s, t \in U : s # t => <<s, t>> \in R \/ <<t, s>> \in R,
         \A s, t, u \in U : <<s, t>> \in R /\ <<t, u>> \in R => <<s, u>> \in R
  PROVE  /\ Cardinality(U) \in Nat
         /\ \A i \in 1..Cardinality(U) : \E s \in U : Cardinality({t \in U : <<t, s>> \in R}) = i - 1
BY Ranks DEF Preceding

-----------------------------------------------------------------------------
(* The coverage of a chart.                                                *)

SpanPairs == {s \in Nat \X Nat : s[1] < s[2]}
Lies(u, s) == s[1] < u /\ u <= s[2]
Within(m, u) == \E k \in 1..Len(m) : Lies(u, m[k])
Tidy(m) == m \in Seq(SpanPairs) /\ \A k \in 1..Len(m) - 1 : m[k][2] < m[k + 1][1]

LEMMA SessionCardinality == \A S : Session!Cardinality(S) = Cardinality(S)
BY DEF Session!Cardinality, Cardinality

LEMMA PairIs == \A s \in SpanPairs : s[1] \in Nat /\ s[2] \in Nat /\ s[1] < s[2]
BY DEF SpanPairs

\* A function that is defined by a step from its last value exists.
Unrolls(f, D, L, base, h) ==
    f \in [0..L -> D] /\ f[0] = base /\ \A n \in 1..L : f[n] = h[<<n, f[n - 1]>>]

LEMMA StepByStep ==
  ASSUME NEW D, NEW L \in Nat, NEW base \in D, NEW h, h \in [(1..L) \X D -> D]
  PROVE  \E f : Unrolls(f, D, L, base, h)
<1> DEFINE Solves(f, k) == f \in [0..L -> D] /\ f[0] = base /\ \A n \in 1..k : f[n] = h[<<n, f[n - 1]>>]
           S == {k \in 0..L : \E f : Solves(f, k)}
<1>1. 0 \in S
  <2> DEFINE f == [n \in 0..L |-> base]
  <2>1. Solves(f, 0) /\ 0 \in 0..L
    OBVIOUS
  <2> QED BY <2>1
<1>2. ASSUME NEW k \in 0..(L - 1), k \in S PROVE k + 1 \in S
  <2>1. PICK f : Solves(f, k)
    BY <1>2
  <2> DEFINE g == [f EXCEPT ![k + 1] = h[<<k + 1, f[k]>>]]
  <2>2. k + 1 \in 1..L /\ k \in 0..L /\ k + 1 \in 0..L
    BY <1>2
  <2>3. h[<<k + 1, f[k]>>] \in D
    BY <2>1, <2>2
  <2>4. g \in [0..L -> D] /\ g[k + 1] = h[<<k + 1, f[k]>>] /\ \A n \in 0..k : g[n] = f[n]
    BY <2>1, <2>2, <2>3
  <2> HIDE DEF g
  <2>5. ASSUME NEW n \in 1..(k + 1) PROVE g[n] = h[<<n, g[n - 1]>>]
    <3>1. CASE n = k + 1
      BY <2>2, <2>4, <3>1
    <3>2. CASE n # k + 1
      <4>1. n \in 1..k /\ n - 1 \in 0..k /\ n \in 0..k
        BY <2>2, <2>5, <3>2
      <4> QED BY <2>1, <2>4, <4>1
    <3> QED BY <3>1, <3>2
  <2>6. g[0] = base
    BY <2>1, <2>2, <2>4
  <2> QED BY <2>2, <2>4, <2>5, <2>6
<1> HIDE DEF S
<1>3. L \in S
  BY <1>1, <1>2, Counting
<1> QED BY <1>3 DEF S, Unrolls

\* The spans by their start.
LEMMA SortedIs ==
  ASSUME NEW U, IsFiniteSet(U), U \subseteq SpanPairs
  PROVE  LET s == Session!SortedSpans(U)
         IN  /\ Len(s) \in Nat /\ s \in Seq(U)
             /\ \A t \in U : \E k \in 1..Len(s) : s[k] = t
             /\ \A k \in 1..Len(s) - 1 : s[k][1] <= s[k + 1][1]
<1> DEFINE R == {p \in U \X U : Session!Earlier(p[1], p[2])}
           N == Cardinality(U)
           Over(x) == Preceding(U, R, x)
           s == Session!SortedSpans(U)
<1>1. \A x, y \in U : <<x, y>> \in R <=> Session!Earlier(x, y)
  OBVIOUS
<1>2. \A x \in U : x[1] \in Nat /\ x[2] \in Nat /\ x = <<x[1], x[2]>>
  BY DEF SpanPairs
<1>3. /\ \A x \in U : <<x, x>> \notin R
      /\ \A x, y \in U : x # y => <<x, y>> \in R \/ <<y, x>> \in R
      /\ \A x, y, z \in U : <<x, y>> \in R /\ <<y, z>> \in R => <<x, z>> \in R
  <2>1. \A x \in U : ~Session!Earlier(x, x)
    BY <1>2 DEF Session!Earlier
  <2>2. \A x, y \in U : x # y => Session!Earlier(x, y) \/ Session!Earlier(y, x)
    <3> SUFFICES ASSUME NEW x \in U, NEW y \in U, x # y
                 PROVE  Session!Earlier(x, y) \/ Session!Earlier(y, x)
      OBVIOUS
    <3>1. x[1] # y[1] \/ x[2] # y[2]
      BY <1>2
    <3> QED BY <1>2, <3>1 DEF Session!Earlier
  <2>3. \A x, y, z \in U : Session!Earlier(x, y) /\ Session!Earlier(y, z) => Session!Earlier(x, z)
    BY <1>2 DEF Session!Earlier
  <2> HIDE DEF R
  <2> QED BY <1>1, <2>1, <2>2, <2>3
<1>4. \A x \in U : {t \in U : Session!Earlier(t, x)} = Over(x)
  BY DEF Preceding
<1> HIDE DEF R
<1>5. /\ N \in Nat
      /\ \A i \in 1..N : \E x \in U : Cardinality(Over(x)) = i - 1
      /\ \A x \in U : Cardinality(Over(x)) \in 0..N - 1
      /\ \A x, y \in U : <<x, y>> \in R => Cardinality(Over(x)) < Cardinality(Over(y))
  <2>1. \A x \in U : <<x, x>> \notin R
    BY <1>3
  <2>2. \A x, y \in U : x # y => <<x, y>> \in R \/ <<y, x>> \in R
    BY <1>3
  <2>3. \A x, y, z \in U : <<x, y>> \in R /\ <<y, z>> \in R => <<x, z>> \in R
    BY <1>3
  <2> QED BY <2>1, <2>2, <2>3, Ranks
<1>6. s = [k \in 1..N |-> CHOOSE x \in U : Cardinality({t \in U : Session!Earlier(t, x)}) = k - 1]
  BY Zenon DEF Session!SortedSpans, Session!Cardinality, Cardinality, Session!IsFiniteSet, IsFiniteSet
<1> HIDE DEF s
<1>7. ASSUME NEW k \in 1..N PROVE s[k] \in U /\ Cardinality(Over(s[k])) = k - 1
  <2>1. PICK x \in U : Cardinality({t \in U : Session!Earlier(t, x)}) = k - 1
    BY <1>4, <1>5, <1>7
  <2>2. s[k] = CHOOSE y \in U : Cardinality({t \in U : Session!Earlier(t, y)}) = k - 1
    BY <1>6
  <2>3. s[k] \in U /\ Cardinality({t \in U : Session!Earlier(t, s[k])}) = k - 1
    BY <2>1, <2>2
  <2> QED BY <1>4, <2>3
<1>8. s \in Seq(U) /\ Len(s) = N
  <2>1. s \in [1..N -> U]
    BY <1>6, <1>7
  <2> QED BY <1>5, <2>1
<1> HIDE DEF Over
<1>9. ASSUME NEW t \in U PROVE \E k \in 1..Len(s) : s[k] = t
  <2> DEFINE k == Cardinality(Over(t)) + 1
  <2>1. k \in 1..N /\ Cardinality(Over(t)) = k - 1 /\ Cardinality(Over(t)) \in Int
    BY <1>5
  <2> HIDE DEF k
  <2>2. s[k] \in U /\ Cardinality(Over(s[k])) = k - 1
    BY <1>7, <2>1
  <2>3. <<s[k], t>> \notin R /\ <<t, s[k]>> \notin R
    <3>1. ~(Cardinality(Over(s[k])) < Cardinality(Over(t)))
      BY <2>1, <2>2
    <3>2. ~(Cardinality(Over(t)) < Cardinality(Over(s[k])))
      BY <2>1, <2>2
    <3> QED BY <1>5, <2>2, <3>1, <3>2, Zenon
  <2>4. s[k] = t
    BY <1>3, <2>2, <2>3, Zenon
  <2> QED BY <1>8, <2>1, <2>4
<1>10. ASSUME NEW k \in 1..Len(s) - 1 PROVE s[k][1] <= s[k + 1][1]
  <2>1. k \in 1..N /\ k + 1 \in 1..N
    BY <1>5, <1>8
  <2>2. s[k] \in U /\ s[k + 1] \in U
    BY <1>7, <2>1
  <2>3. Cardinality(Over(s[k])) = k - 1 /\ Cardinality(Over(s[k + 1])) = k + 1 - 1
    BY <1>7, <2>1
  <2>4. <<s[k + 1], s[k]>> \notin R
    BY <1>5, <2>1, <2>2, <2>3
  <2>5. ~Session!Earlier(s[k + 1], s[k])
    BY <1>1, <2>2, <2>4
  <2> QED BY <1>2, <2>2, <2>5 DEF Session!Earlier
<1> QED BY <1>5, <1>8, <1>9, <1>10 DEF s

\* A span is merged into tidy ones, or follows them.
LEMMA MergeSound ==
  ASSUME NEW m \in Seq(SpanPairs), NEW s \in SpanPairs
  PROVE  LET r == Session!MergeSpan(m, s)
         IN  /\ r \in Seq(SpanPairs)
             /\ Tidy(m) /\ (m # <<>> => m[Len(m)][1] <= s[1]) =>
                   /\ Tidy(r) /\ r # <<>> /\ r[Len(r)][1] <= s[1]
                   /\ \A u \in Int : Within(r, u) <=> Within(m, u) \/ Lies(u, s)
<1> DEFINE r == Session!MergeSpan(m, s)
           L == Len(m)
<1>1. L \in Nat /\ \A k \in 1..L : m[k] \in SpanPairs
  OBVIOUS
<1>2. /\ s[1] \in Nat /\ s[2] \in Nat /\ s[1] < s[2]
      /\ \A k \in 1..L : m[k][1] \in Nat /\ m[k][2] \in Nat /\ m[k][1] < m[k][2]
  BY <1>1, PairIs
<1>3. CASE m # <<>> /\ s[1] <= m[L][2]
  <2> DEFINE e == IF s[2] > m[L][2] THEN s[2] ELSE m[L][2]
             f == SubSeq(m, 1, L - 1)
             x == <<m[L][1], e>>
  <2>1. L \in 1..L
    BY <1>1, <1>3, EmptySeq
  <2>2. r = Append(f, x)
    BY <1>3 DEF Session!MergeSpan, Session!Last, Session!Front
  <2> HIDE DEF r
  <2>3. f \in Seq(SpanPairs) /\ Len(f) = L - 1 /\ \A k \in 1..L - 1 : f[k] = m[k]
    <3>1. 1 \in Int /\ L - 1 \in Int /\ \A k \in 1..L - 1 : m[k] \in SpanPairs
      BY <1>1
    <3>2. /\ f \in Seq(SpanPairs) /\ Len(f) = IF 1 <= L - 1 THEN L - 1 - 1 + 1 ELSE 0
          /\ \A k \in 1..L - 1 - 1 + 1 : f[k] = m[1 + k - 1]
      BY <3>1, SubSeqProperties
    <3> HIDE DEF f
    <3>3. \A k \in 1..L - 1 : k \in 1..L - 1 - 1 + 1 /\ 1 + k - 1 = k
      BY <1>1
    <3>4. \A k \in 1..L - 1 : f[k] = m[k]
      BY <3>2, <3>3
    <3>5. Len(f) = L - 1
      <4> HIDE DEF L
      <4>1. L \in Nat /\ L >= 1
        BY <1>1, <2>1
      <4> QED BY <3>2, <4>1
    <3> QED BY <3>2, <3>4, <3>5
  <2>4. /\ e \in Nat /\ m[L][1] < e /\ m[L][2] <= e /\ s[2] <= e /\ (e = s[2] \/ e = m[L][2])
    BY <1>2, <2>1
  <2> HIDE DEF e, f
  <2>5. x \in SpanPairs /\ x[1] = m[L][1] /\ x[2] = e
    BY <1>2, <2>1, <2>4 DEF SpanPairs
  <2> HIDE DEF x
  <2>6. r \in Seq(SpanPairs) /\ Len(r) = L /\ r[L] = x /\ \A k \in 1..L - 1 : r[k] = m[k]
    <3>1. r \in Seq(SpanPairs) /\ Len(r) = Len(f) + 1 /\ r[Len(f) + 1] = x
          /\ \A k \in 1..Len(f) : r[k] = f[k]
      BY <2>2, <2>3, <2>5
    <3> QED BY <1>1, <2>1, <2>3, <3>1
  <2>7. ASSUME Tidy(m), m # <<>> => m[Len(m)][1] <= s[1]
        PROVE  /\ Tidy(r) /\ r # <<>> /\ r[Len(r)][1] <= s[1]
               /\ \A u \in Int : Within(r, u) <=> Within(m, u) \/ Lies(u, s)
    <3>1. m[L][1] <= s[1]
      BY <1>3, <2>7
    <3>2. ASSUME NEW k \in 1..Len(r) - 1 PROVE r[k][2] < r[k + 1][1]
      <4>1. k \in 1..L - 1 /\ k \in 1..L /\ k + 1 \in 1..L
        BY <1>1, <2>6, <3>2
      <4>2. m[k][2] < m[k + 1][1]
        BY <2>7, <4>1 DEF Tidy
      <4>3. r[k + 1][1] = m[k + 1][1]
        <5>1. CASE k + 1 = L
          BY <2>5, <2>6, <5>1
        <5>2. CASE k + 1 # L
          <6>1. k + 1 \in 1..L - 1
            BY <4>1, <5>2
          <6> QED BY <2>6, <6>1
        <5> QED BY <5>1, <5>2
      <4> QED BY <2>6, <4>1, <4>2, <4>3
    <3>3. Tidy(r)
      BY <2>6, <3>2 DEF Tidy
    <3>4. r # <<>> /\ r[Len(r)][1] <= s[1]
      <4>1. Len(r) # 0
        BY <2>1, <2>6
      <4> QED BY <2>5, <2>6, <3>1, <4>1
    <3>5. ASSUME NEW u \in Int PROVE Within(r, u) <=> Within(m, u) \/ Lies(u, s)
      <4>1. Lies(u, x) <=> Lies(u, m[L]) \/ Lies(u, s)
        BY <1>2, <1>3, <2>1, <2>4, <2>5, <3>1 DEF Lies
      <4>2. ASSUME Within(r, u) PROVE Within(m, u) \/ Lies(u, s)
        <5>1. PICK k \in 1..L : Lies(u, r[k])
          BY <2>6, <4>2 DEF Within
        <5>2. CASE k = L
          BY <2>1, <2>6, <4>1, <5>1, <5>2 DEF Within
        <5>3. CASE k # L
          <6>1. k \in 1..L - 1
            BY <1>1, <5>3
          <6>2. Lies(u, m[k])
            BY <2>6, <5>1, <6>1
          <6> QED BY <6>2 DEF Within
        <5> QED BY <5>2, <5>3
      <4>3. ASSUME Within(m, u) \/ Lies(u, s) PROVE Within(r, u)
        <5>1. CASE Lies(u, x)
          BY <2>1, <2>6, <5>1 DEF Within
        <5>2. CASE ~Lies(u, x)
          <6>1. PICK k \in 1..L : Lies(u, m[k])
            BY <4>1, <4>3, <5>2 DEF Within
          <6>2. k \in 1..L - 1
            BY <1>1, <4>1, <5>2, <6>1
          <6>3. Lies(u, r[k])
            BY <2>6, <6>1, <6>2
          <6> QED BY <2>6, <6>3 DEF Within
        <5> QED BY <5>1, <5>2
      <4> QED BY <4>2, <4>3
    <3> QED BY <3>3, <3>4, <3>5
  <2> HIDE DEF L
  <2> QED BY <2>6, <2>7 DEF r
<1>4. CASE ~(m # <<>> /\ s[1] <= m[L][2])
  <2>1. r = Append(m, s)
    BY <1>4 DEF Session!MergeSpan, Session!Last
  <2> HIDE DEF r
  <2>2. r \in Seq(SpanPairs) /\ Len(r) = L + 1 /\ r[L + 1] = s /\ \A k \in 1..L : r[k] = m[k]
    BY <2>1
  <2>3. m = <<>> \/ s[1] > m[L][2]
    <3>1. CASE m = <<>>
      BY <3>1
    <3>2. CASE m # <<>>
      <4>1. L \in 1..L
        BY <1>1, <3>2, EmptySeq
      <4> QED BY <1>2, <1>4, <3>2, <4>1
    <3> QED BY <3>1, <3>2
  <2>4. ASSUME Tidy(m)
        PROVE  /\ Tidy(r) /\ r # <<>> /\ r[Len(r)][1] <= s[1]
               /\ \A u \in Int : Within(r, u) <=> Within(m, u) \/ Lies(u, s)
    <3>1. ASSUME NEW k \in 1..Len(r) - 1 PROVE r[k][2] < r[k + 1][1]
      <4>1. k \in 1..L /\ r[k] = m[k]
        BY <1>1, <2>2, <3>1
      <4>2. CASE k = L
        <5>1. m # <<>>
          BY <1>1, <4>1
        <5> QED BY <2>2, <2>3, <4>1, <4>2, <5>1
      <4>3. CASE k # L
        <5>1. k \in 1..L - 1 /\ k + 1 \in 1..L
          BY <1>1, <4>1, <4>3
        <5>2. m[k][2] < m[k + 1][1]
          BY <2>4, <5>1 DEF Tidy
        <5> QED BY <2>2, <4>1, <5>1, <5>2
      <4> QED BY <4>2, <4>3
    <3>2. Tidy(r)
      BY <2>2, <3>1 DEF Tidy
    <3>3. r # <<>> /\ r[Len(r)][1] <= s[1]
      <4>1. Len(r) # 0
        BY <1>1, <2>2
      <4> QED BY <1>2, <2>2, <4>1
    <3>4. ASSUME NEW u \in Int PROVE Within(r, u) <=> Within(m, u) \/ Lies(u, s)
      <4>1. ASSUME Within(r, u) PROVE Within(m, u) \/ Lies(u, s)
        <5>1. PICK k \in 1..L + 1 : Lies(u, r[k])
          BY <2>2, <4>1 DEF Within
        <5>2. k = L + 1 \/ k \in 1..L
          BY <1>1
        <5> QED BY <2>2, <5>1, <5>2 DEF Within
      <4>2. ASSUME Within(m, u) PROVE Within(r, u)
        <5>1. PICK k \in 1..L : Lies(u, m[k])
          BY <4>2 DEF Within
        <5>2. k \in 1..L + 1 /\ Lies(u, r[k])
          BY <1>1, <2>2, <5>1
        <5> QED BY <2>2, <5>2 DEF Within
      <4>3. ASSUME Lies(u, s) PROVE Within(r, u)
        <5>1. L + 1 \in 1..L + 1
          BY <1>1
        <5> QED BY <2>2, <4>3, <5>1 DEF Within
      <4> QED BY <4>1, <4>2, <4>3
    <3> QED BY <3>2, <3>3, <3>4
  <2> QED BY <2>2, <2>4 DEF r
<1> QED BY <1>3, <1>4

\* What the merged spans cover is what the spans do, and they lie apart.
LEMMA MergedIs ==
  ASSUME NEW U, IsFiniteSet(U), U \subseteq SpanPairs
  PROVE  LET m == Session!MergedSpans(U)
         IN  /\ Tidy(m)
             /\ \A u \in Int : Within(m, u) <=> \E s \in U : Lies(u, s)
<1> DEFINE s == Session!SortedSpans(U)
           L == Len(s)
           D == Seq(SpanPairs)
           Value(f, n) == IF n = 0 THEN <<>> ELSE Session!MergeSpan(f[n - 1], s[n])
           h == [x \in (1..L) \X D |-> Session!MergeSpan(x[2], s[x[1]])]
           w == CHOOSE f : f = [n \in 0..L |-> Value(f, n)]
<1>1. /\ L \in Nat /\ s \in Seq(U)
      /\ \A t \in U : \E k \in 1..L : s[k] = t
      /\ \A k \in 1..L - 1 : s[k][1] <= s[k + 1][1]
  BY SortedIs
<1>2. Session!MergedSpans(U) = w[L]
  BY DEF Session!MergedSpans
<1> HIDE DEF s
<1>3. \A k \in 1..L : s[k] \in U /\ s[k] \in SpanPairs
  BY <1>1
<1> HIDE DEF L
<1>4. h \in [(1..L) \X D -> D]
  <2>1. \A x \in (1..L) \X D : Session!MergeSpan(x[2], s[x[1]]) \in D
    <3> TAKE x \in (1..L) \X D
    <3>1. x[1] \in 1..L /\ x[2] \in D
      OBVIOUS
    <3>2. s[x[1]] \in SpanPairs
      BY <1>3, <3>1
    <3> QED BY <3>1, <3>2, MergeSound
  <2> QED BY <2>1
<1>5. \A n \in 1..L, x \in D : h[<<n, x>>] = Session!MergeSpan(x, s[n])
  OBVIOUS
<1> HIDE DEF h
<1>6. <<>> \in D
  OBVIOUS
<1> HIDE DEF D
<1>7. PICK f : f \in [0..L -> D] /\ f[0] = <<>> /\ \A n \in 1..L : f[n] = h[<<n, f[n - 1]>>]
  <2>1. \E f : Unrolls(f, D, L, <<>>, h)
    BY <1>1, <1>4, <1>6, StepByStep
  <2> QED BY <2>1 DEF Unrolls
<1>8. f = [n \in 0..L |-> Value(f, n)]
  <2>1. ASSUME NEW n \in 0..L PROVE f[n] = Value(f, n)
    <3>1. CASE n = 0
      BY <1>7, <3>1
    <3>2. CASE n # 0
      <4>1. n \in 1..L /\ n - 1 \in 0..L
        BY <1>1, <2>1, <3>2
      <4>2. f[n - 1] \in D
        BY <1>7, <4>1
      <4>3. f[n] = Session!MergeSpan(f[n - 1], s[n])
        BY <1>5, <1>7, <4>1, <4>2
      <4> QED BY <3>2, <4>3
    <3> QED BY <3>1, <3>2
  <2> HIDE DEF Value
  <2> QED BY <1>7, <2>1
<1>9. w = [n \in 0..L |-> Value(w, n)]
  <2> HIDE DEF Value
  <2> QED BY <1>8
<1> HIDE DEF w
<1>10. w[0] = <<>> /\ \A n \in 1..L : w[n] = Session!MergeSpan(w[n - 1], s[n])
  <2>1. 0 \in 0..L /\ \A n \in 1..L : n \in 0..L /\ n # 0
    BY <1>1
  <2>2. \A n \in 0..L : w[n] = Value(w, n)
    <3> HIDE DEF Value
    <3> QED BY <1>9
  <2>3. w[0] = Value(w, 0) /\ \A n \in 1..L : w[n] = Value(w, n)
    BY <2>1, <2>2, Zenon
  <2>4. Value(w, 0) = <<>>
    OBVIOUS
  <2>5. \A n \in 1..L : Value(w, n) = Session!MergeSpan(w[n - 1], s[n])
    BY <2>1, Zenon
  <2> HIDE DEF Value
  <2> QED BY <2>3, <2>4, <2>5, Zenon
<1> HIDE DEF Value
<1> DEFINE Good(n) ==
             /\ Tidy(w[n])
             /\ w[n] # <<>> => n > 0 /\ w[n][Len(w[n])][1] <= s[n][1]
             /\ \A u \in Int : Within(w[n], u) <=> \E k \in 1..n : Lies(u, s[k])
           S == {n \in 0..L : Good(n)}
<1>11. 0 \in S
  <2>1. <<>> \in Seq(SpanPairs) /\ Len(<<>>) = 0 /\ 0 \in 0..L
    BY <1>1
  <2>2. Tidy(<<>>) /\ \A u \in Int : ~Within(<<>>, u)
    BY <2>1 DEF Tidy, Within
  <2>3. Good(0)
    BY <1>10, <2>2
  <2> HIDE DEF Good
  <2> QED BY <2>1, <2>3
<1>12. ASSUME NEW n \in 0..(L - 1), n \in S PROVE n + 1 \in S
  <2> DEFINE m == w[n]
             x == s[n + 1]
  <2>1. n + 1 \in 1..L /\ n + 1 \in 0..L /\ n \in Nat
    BY <1>1, <1>12
  <2>2. x \in SpanPairs /\ x[1] \in Int
    BY <1>3, <2>1, PairIs
  <2>3. Good(n)
    BY <1>12
  <2>4. m # <<>> => m[Len(m)][1] <= x[1]
    <3> HAVE m # <<>>
    <3>1. n \in 1..L - 1 /\ n \in 1..L /\ m[Len(m)][1] <= s[n][1]
      BY <1>1, <2>1, <2>3
    <3>2. s[n][1] <= x[1] /\ s[n][1] \in Int
      <4>1. s[n][1] <= s[n + 1][1]
        BY <1>1, <3>1
      <4>2. s[n] \in SpanPairs
        BY <1>3, <3>1
      <4> QED BY <4>1, <4>2, PairIs
    <3>3. m[Len(m)] \in SpanPairs
      <4>1. m \in Seq(SpanPairs)
        BY <2>3 DEF Tidy
      <4> HIDE DEF m
      <4> QED BY <4>1, EmptySeq
    <3>4. m[Len(m)][1] \in Int
      BY <3>3, PairIs
    <3> HIDE DEF m, x
    <3> QED BY <2>2, <3>1, <3>2, <3>4
  <2>5. w[n + 1] = Session!MergeSpan(m, x)
    <3>1. n + 1 - 1 = n
      BY <2>1
    <3> QED BY <1>10, <2>1, <3>1
  <2>6. m \in Seq(SpanPairs) /\ Tidy(m) /\ \A u \in Int : Within(m, u) <=> \E k \in 1..n : Lies(u, s[k])
    BY <2>3 DEF Tidy
  <2> DEFINE r == w[n + 1]
  <2> HIDE DEF Good, m, x
  <2>7. /\ Tidy(r) /\ r # <<>> /\ r[Len(r)][1] <= x[1]
        /\ \A u \in Int : Within(r, u) <=> Within(m, u) \/ Lies(u, x)
    BY <2>2, <2>4, <2>5, <2>6, MergeSound
  <2>8. ASSUME NEW u \in Int PROVE Within(r, u) <=> \E k \in 1..n + 1 : Lies(u, s[k])
    <3>1. \A k : k \in 1..n + 1 <=> k \in 1..n \/ k = n + 1
      BY <2>1
    <3>2. Within(r, u) <=> (\E k \in 1..n : Lies(u, s[k])) \/ Lies(u, s[n + 1])
      BY <2>6, <2>7, <2>8 DEF x
    <3> QED BY <3>1, <3>2
  <2>9. Good(n + 1)
    BY <2>1, <2>7, <2>8 DEF Good, x
  <2> QED BY <2>1, <2>9
<1>13. Good(L)
  <2>1. L \in S
    <3> HIDE DEF S
    <3>1. 0..L \subseteq S
      BY <1>1, <1>11, <1>12, Counting
    <3> QED BY <1>1, <3>1
  <2> QED BY <2>1
<1>14. ASSUME NEW u \in Int PROVE Within(w[L], u) <=> \E t \in U : Lies(u, t)
  <2>1. Within(w[L], u) <=> \E k \in 1..L : Lies(u, s[k])
    BY <1>13
  <2>2. (\E k \in 1..L : Lies(u, s[k])) => \E t \in U : Lies(u, t)
    BY <1>3
  <2>3. (\E t \in U : Lies(u, t)) => \E k \in 1..L : Lies(u, s[k])
    BY <1>1
  <2> QED BY <2>1, <2>2, <2>3
<1> QED BY <1>2, <1>13, <1>14

\* Tidy spans rise: each ends before every later one starts.
LEMMA TidyRises ==
  ASSUME NEW m, Tidy(m)
  PROVE  \A k, j \in 1..Len(m) :
            /\ k < j => m[k][2] < m[j][1]
            /\ k <= j => m[k][1] <= m[j][1] /\ m[k][2] <= m[j][2]
<1> DEFINE L == Len(m)
<1>1. L \in Nat /\ \A k \in 1..L : m[k] \in SpanPairs
  BY DEF Tidy
<1>2. \A k \in 1..L : m[k][1] \in Nat /\ m[k][2] \in Nat /\ m[k][1] < m[k][2]
  BY <1>1, PairIs
<1>3. ASSUME NEW k \in 1..L, NEW n \in 1..L, k < n PROVE m[k][2] < m[n][1]
  <2> DEFINE B == n - k - 1
             T == {j \in 0..B : m[k][2] < m[k + j + 1][1]}
  <2>1. k \in 1..L - 1 /\ B \in Nat /\ n \in Int /\ k \in Int /\ k + B + 1 = n
    BY <1>1, <1>3
  <2>2. 0 \in T
    <3>1. m[k][2] < m[k + 1][1]
      BY <2>1 DEF Tidy
    <3>2. k + 0 + 1 = k + 1 /\ 0 \in 0..B
      BY <2>1
    <3> QED BY <3>1, <3>2
  <2>3. ASSUME NEW j \in 0..(B - 1), j \in T PROVE j + 1 \in T
    <3> DEFINE i == k + j + 1
    <3>1. i \in 1..L - 1 /\ i \in 1..L /\ i + 1 \in 1..L /\ k + (j + 1) + 1 = i + 1 /\ j + 1 \in 0..B
      BY <1>1, <2>1, <2>3
    <3>2. m[k][2] < m[i][1]
      BY <2>3
    <3> HIDE DEF i
    <3>3. m[i][2] < m[i + 1][1]
      BY <3>1 DEF Tidy
    <3>4. m[k][2] < m[i + 1][1]
      <4>1. m[k][2] \in Nat
        BY <1>2
      <4>2. m[i][1] \in Nat /\ m[i][2] \in Nat /\ m[i][1] < m[i][2]
        BY <1>2, <3>1
      <4>3. m[i + 1][1] \in Nat
        BY <1>2, <3>1
      <4> QED BY <3>2, <3>3, <4>1, <4>2, <4>3
    <3>5. m[k][2] < m[k + (j + 1) + 1][1]
      BY <3>1, <3>4
    <3> QED BY <3>1, <3>5
  <2>4. B \in T
    <3>1. 0..B \subseteq T
      <4> HIDE DEF T
      <4> QED BY <2>1, <2>2, <2>3, Counting
    <3>2. B \in 0..B
      BY <2>1
    <3> QED BY <3>1, <3>2
  <2> QED BY <2>1, <2>4
<1>4. ASSUME NEW k \in 1..L, NEW j \in 1..L, k <= j
      PROVE  m[k][1] <= m[j][1] /\ m[k][2] <= m[j][2]
  <2>1. CASE k = j
    BY <1>2, <2>1
  <2>2. CASE k < j
    <3>1. m[k][2] < m[j][1]
      BY <1>3, <2>2
    <3>2. m[k][1] \in Nat /\ m[k][2] \in Nat /\ m[k][1] < m[k][2]
      BY <1>2
    <3>3. m[j][1] \in Nat /\ m[j][2] \in Nat /\ m[j][1] < m[j][2]
      BY <1>2
    <3> QED BY <3>1, <3>2, <3>3
  <2> QED BY <1>4, <2>1, <2>2
<1> QED BY <1>3, <1>4

\* What tidy spans cover is the sum of their lengths.
LEMMA SumIs ==
  ASSUME NEW m, Tidy(m), NEW f, f[0] = 0,
         \A n \in 1..Len(m) : f[n] = f[n - 1] + (m[n][2] - m[n][1])
  PROVE  f[Len(m)] = Cardinality({u \in Int : Within(m, u)})
<1> DEFINE L == Len(m)
           C(n) == {u \in Int : \E k \in 1..n : Lies(u, m[k])}
           S == {n \in 0..L : IsFiniteSet(C(n)) /\ f[n] = Cardinality(C(n))}
<1>1. L \in Nat /\ \A k \in 1..L : m[k] \in SpanPairs
  BY DEF Tidy
<1>2. \A k \in 1..L : m[k][1] \in Nat /\ m[k][2] \in Nat /\ m[k][1] < m[k][2]
  BY <1>1, PairIs
<1>3. \A n \in 0..(L - 1) : \A k \in 1..n : m[k][2] < m[n + 1][1]
  <2> TAKE n \in 0..(L - 1)
  <2> TAKE k \in 1..n
  <2>1. k \in 1..L /\ n + 1 \in 1..L /\ k < n + 1
    BY <1>1
  <2> QED BY <2>1, TidyRises
<1>4. 0 \in S
  <2>1. C(0) = {}
    OBVIOUS
  <2> HIDE DEF C
  <2> QED BY <1>1, <2>1, FS_EmptySet
<1>5. ASSUME NEW n \in 0..(L - 1), n \in S PROVE n + 1 \in S
  <2> DEFINE x == m[n + 1]
             I == (x[1] + 1)..x[2]
  <2>1. n + 1 \in 1..L /\ n + 1 \in 0..L /\ n + 1 - 1 = n
    BY <1>1, <1>5
  <2>2. x[1] \in Nat /\ x[2] \in Nat /\ x[1] < x[2]
    BY <1>2, <2>1
  <2>3. f[n + 1] = f[n] + (x[2] - x[1])
    <3>1. f[n + 1] = f[n + 1 - 1] + (m[n + 1][2] - m[n + 1][1])
      BY <2>1
    <3> QED BY <2>1, <3>1
  <2>4. \A u : u \in I <=> u \in Int /\ Lies(u, x)
    BY <2>2 DEF Lies
  <2>5. C(n + 1) = C(n) \cup I
    <3>1. \A k : k \in 1..n + 1 <=> k \in 1..n \/ k = n + 1
      BY <2>1
    <3> QED BY <2>4, <3>1
  <2>6. C(n) \cap I = {}
    <3> SUFFICES ASSUME NEW u \in Int, NEW k \in 1..n, Lies(u, m[k]), Lies(u, x) PROVE FALSE
      BY <2>4
    <3>1. m[k][2] < x[1] /\ k \in 1..L
      BY <1>1, <1>3, <1>5
    <3> QED BY <1>2, <2>2, <3>1 DEF Lies
  <2>7. IsFiniteSet(I) /\ Cardinality(I) = x[2] - x[1]
    <3>1. x[1] + 1 \in Int /\ x[2] \in Int /\ ~(x[1] + 1 > x[2]) /\ x[2] - (x[1] + 1) + 1 = x[2] - x[1]
      BY <2>2
    <3> HIDE DEF x
    <3> QED BY <3>1, FS_Interval
  <2>8. IsFiniteSet(C(n)) /\ f[n] = Cardinality(C(n))
    BY <1>5
  <2> HIDE DEF C, I
  <2>9. IsFiniteSet(C(n + 1)) /\ Cardinality(C(n + 1)) = Cardinality(C(n)) + Cardinality(I) - Cardinality({})
    BY <2>5, <2>6, <2>7, <2>8, FS_Union
  <2>10. Cardinality({}) = 0 /\ Cardinality(C(n)) \in Nat
    BY <2>8, FS_EmptySet, FS_CardinalityType
  <2>11. f[n + 1] = Cardinality(C(n + 1))
    BY <2>2, <2>3, <2>7, <2>8, <2>9, <2>10
  <2> QED BY <2>1, <2>9, <2>11
<1>6. L \in S
  <2> HIDE DEF S
  <2>1. 0..L \subseteq S
    BY <1>1, <1>4, <1>5, Counting
  <2> QED BY <1>1, <2>1
<1>7. C(L) = {u \in Int : Within(m, u)}
  BY DEF Within
<1> QED BY <1>6, <1>7

LEMMA CoveredIs ==
  ASSUME NEW U, Tidy(Session!MergedSpans(U))
  PROVE  Session!Covered(U) = Cardinality({u \in Int : Within(Session!MergedSpans(U), u)})
<1> DEFINE m == Session!MergedSpans(U)
           L == Len(m)
           Value(f, n) == IF n = 0 THEN 0 ELSE f[n - 1] + (m[n][2] - m[n][1])
           h == [x \in (1..L) \X Int |-> x[2] + (m[x[1]][2] - m[x[1]][1])]
           w == CHOOSE f : f = [n \in 0..L |-> Value(f, n)]
<1>1. Session!Covered(U) = w[L]
  BY DEF Session!Covered
<1> HIDE DEF m
<1>2. L \in Nat /\ \A k \in 1..L : m[k][1] \in Int /\ m[k][2] \in Int
  <2>1. m \in Seq(SpanPairs)
    BY DEF Tidy, m
  <2>2. L \in Nat /\ \A k \in 1..L : m[k] \in SpanPairs
    BY <2>1
  <2> QED BY <2>2, PairIs
<1> HIDE DEF L
<1>3. h \in [(1..L) \X Int -> Int]
  <2>1. \A x \in (1..L) \X Int : x[2] + (m[x[1]][2] - m[x[1]][1]) \in Int
    BY <1>2
  <2> QED BY <2>1
<1>4. \A n \in 1..L, x \in Int : h[<<n, x>>] = x + (m[n][2] - m[n][1])
  OBVIOUS
<1> HIDE DEF h
<1>5. PICK f : f \in [0..L -> Int] /\ f[0] = 0 /\ \A n \in 1..L : f[n] = h[<<n, f[n - 1]>>]
  <2>1. 0 \in Int
    OBVIOUS
  <2>2. \E f : Unrolls(f, Int, L, 0, h)
    BY <1>2, <1>3, <2>1, StepByStep
  <2> QED BY <2>2 DEF Unrolls
<1>6. f = [n \in 0..L |-> Value(f, n)]
  <2>1. ASSUME NEW n \in 0..L PROVE f[n] = Value(f, n)
    <3>1. CASE n = 0
      BY <1>5, <3>1
    <3>2. CASE n # 0
      <4>1. n \in 1..L /\ n - 1 \in 0..L
        BY <1>2, <2>1, <3>2
      <4>2. f[n - 1] \in Int
        BY <1>5, <4>1
      <4> QED BY <1>4, <1>5, <3>2, <4>1, <4>2
    <3> QED BY <3>1, <3>2
  <2> HIDE DEF Value
  <2> QED BY <1>5, <2>1
<1>7. w = [n \in 0..L |-> Value(w, n)]
  <2> HIDE DEF Value
  <2> QED BY <1>6
<1> HIDE DEF w
<1>8. w[0] = 0 /\ \A n \in 1..L : w[n] = w[n - 1] + (m[n][2] - m[n][1])
  BY <1>2, <1>7
<1>9. w[L] = Cardinality({u \in Int : Within(m, u)})
  <2>1. Tidy(m)
    BY DEF m
  <2> QED BY <1>8, <2>1, SumIs DEF L
<1> QED BY <1>1, <1>9 DEF m

\* The stretch of the edges in which a time lies: the last that starts before it.
LEMMA StretchOf ==
  ASSUME NEW e, NEW n \in Nat \ {0}, \A k \in 1..n + 1 : e[k][1] \in Nat /\ e[k][2] \in Nat,
         NEW u \in Int, e[1][2] < u, u <= e[n + 1][2]
  PROVE  \E k \in 1..n : e[k][2] < u /\ u <= e[k + 1][2]
<1> SUFFICES ASSUME \A k \in 1..n : e[k][2] < u => e[k + 1][2] < u
             PROVE  FALSE
  <2>1. \A k \in 1..n : e[k + 1][2] \in Nat
    <3> TAKE k \in 1..n
    <3>1. k + 1 \in 1..n + 1
      OBVIOUS
    <3> QED BY <3>1
  <2> QED BY <2>1
<1> DEFINE S == {j \in 0..n : e[j + 1][2] < u}
<1>1. 0 \in S
  OBVIOUS
<1>2. ASSUME NEW j \in 0..(n - 1), j \in S PROVE j + 1 \in S
  <2>1. j + 1 \in 1..n /\ j + 1 \in 0..n
    OBVIOUS
  <2>2. e[j + 1][2] < u
    BY <1>2
  <2>3. e[j + 1 + 1][2] < u
    BY <2>1, <2>2
  <2> QED BY <2>1, <2>3
<1>3. 0..n \subseteq S
  <2> HIDE DEF S
  <2> QED BY <1>1, <1>2, Counting
<1>4. e[n + 1][2] < u
  <2>1. n \in S
    <3>1. n \in 0..n
      OBVIOUS
    <3> QED BY <1>3, <3>1
  <2> QED BY <2>1
<1>5. e[n + 1][2] \in Nat
  <2>1. n + 1 \in 1..n + 1
    OBVIOUS
  <2> QED BY <2>1
<1> QED BY <1>4, <1>5

\* A time is a unit of some spans when it lies in one of them.
LEMMA UnitsAre ==
  ASSUME NEW U, \A s \in U : s[1] \in Int /\ s[2] \in Int
  PROVE  \A u : u \in Session!Units(U) <=> u \in Int /\ \E s \in U : Lies(u, s)
<1>1. ASSUME NEW u, NEW s \in U PROVE u \in (s[1] + 1)..s[2] <=> u \in Int /\ Lies(u, s)
  <2>1. s[1] \in Int /\ s[2] \in Int
    OBVIOUS
  <2> QED BY <2>1 DEF Lies
<1>2. \A u : u \in Session!Units(U) <=> \E s \in U : u \in (s[1] + 1)..s[2]
  BY DEF Session!Units
<1> QED BY <1>1, <1>2

\* The gaps of tidy spans, slivers excepted, are what lies in none.
GapsSound(gaps, U, first, last) ==
    /\ \A g \in gaps : g[1] \in Nat /\ g[2] \in Nat
    /\ \A g \in gaps : \A u \in Int : Lies(u, g) => ~\E s \in U : Lies(u, s)
    /\ \A u \in (first + 1)..last :
          \/ \E s \in U : Lies(u, s)
          \/ \E g \in gaps : Lies(u, g)
          \/ \E v \in Int : /\ v = last + 1 \/ \E s \in U : Lies(v, s)
                            /\ u <= v /\ 20 * (v - u) <= last - first + 20

LEMMA SliverIs == \A q, b, u, w \in Int : q < u /\ ~(20 * (b - q) > w) => 20 * (b + 1 - u) <= w + 20
OBVIOUS

LEMMA GapsAre ==
  ASSUME NEW U, IsFiniteSet(U), U \subseteq SpanPairs, NEW first \in Nat, NEW last \in Nat, first < last
  PROVE  GapsSound(Session!Gaps(U, first, last), U, first, last)
<1> DEFINE m == Session!MergedSpans(U)
           n == Len(m) + 1
           e == <<<<first, first>>>> \o m \o <<<<last, last>>>>
           gaps == Session!Gaps(U, first, last)
<1>1. /\ Tidy(m) /\ \A u \in Int : Within(m, u) <=> \E s \in U : Lies(u, s)
  BY MergedIs
<1>2. gaps = {<<e[k][2], e[k + 1][1]>> : k \in
                 {k \in 1..Len(e) - 1 : 20 * (e[k + 1][1] - e[k][2]) > last - first}}
  BY DEF Session!Gaps
<1> HIDE DEF m, gaps
<1>3. m \in Seq(SpanPairs) /\ Len(m) \in Nat /\ \A k \in 1..Len(m) : m[k] \in SpanPairs
  BY <1>1 DEF Tidy
<1>4. \A k \in 1..Len(m) : m[k][1] \in Nat /\ m[k][2] \in Nat /\ m[k][1] < m[k][2]
  BY <1>3, PairIs
<1>5. /\ Len(e) = n + 1 /\ n \in Nat \ {0} /\ e[1] = <<first, first>> /\ e[n + 1] = <<last, last>>
      /\ \A k \in 2..n : e[k] = m[k - 1]
  <2> DEFINE P == Nat \X Nat
  <2>1. m \in Seq(P) /\ <<<<first, first>>>> \in Seq(P) /\ <<<<last, last>>>> \in Seq(P)
    <3>1. SpanPairs \subseteq P
      BY DEF SpanPairs
    <3>2. m \in Seq(P)
      BY <1>3, <3>1
    <3> QED BY <3>2
  <2> HIDE DEF P
  <2> DEFINE a == <<<<first, first>>>>
             z == <<<<last, last>>>>
             am == a \o m
  <2>2. am \in Seq(P) /\ Len(am) = 1 + Len(m) /\ am[1] = <<first, first>>
        /\ \A k \in 2..n : am[k] = m[k - 1]
    BY <1>3, <2>1
  <2> HIDE DEF am
  <2>3. Len(am \o z) = n + 1 /\ (am \o z)[n + 1] = <<last, last>> /\ \A k \in 1..n : (am \o z)[k] = am[k]
    BY <1>3, <2>1, <2>2
  <2>4. e = am \o z
    BY DEF am
  <2> QED BY <1>3, <2>2, <2>3, <2>4
<1> HIDE DEF e
<1>6. \A k \in 1..n + 1 : e[k][1] \in Nat /\ e[k][2] \in Nat
  <2> TAKE k \in 1..n + 1
  <2>1. CASE k = 1
    BY <1>5, <2>1
  <2>2. CASE k = n + 1
    BY <1>5, <2>2
  <2>3. CASE k # 1 /\ k # n + 1
    <3>1. k \in 2..n /\ k - 1 \in 1..Len(m)
      BY <1>3, <2>3
    <3> QED BY <1>4, <1>5, <3>1
  <2> QED BY <2>1, <2>2, <2>3
\* Every merged span ends before a later edge, and starts after an earlier one.
<1>7. \A k \in 1..n : \A j \in 1..Len(m) :
         /\ j <= k - 1 => m[j][2] <= m[k - 1][2]
         /\ j >= k => m[k][1] <= m[j][1]
  <2> SUFFICES ASSUME NEW k \in 1..n, NEW j \in 1..Len(m)
               PROVE  /\ j <= k - 1 => m[j][2] <= m[k - 1][2]
                      /\ j >= k => m[k][1] <= m[j][1]
    OBVIOUS
  <2>1. ASSUME j <= k - 1 PROVE m[j][2] <= m[k - 1][2]
    <3>1. k - 1 \in 1..Len(m)
      BY <1>3, <2>1
    <3> QED BY <1>1, <2>1, <3>1, TidyRises
  <2>2. ASSUME j >= k PROVE m[k][1] <= m[j][1]
    <3>1. k \in 1..Len(m)
      BY <1>3, <2>2
    <3> QED BY <1>1, <2>2, <3>1, TidyRises
  <2> QED BY <2>1, <2>2
<1>8. ASSUME NEW g \in gaps
      PROVE  g[1] \in Nat /\ g[2] \in Nat /\ \A u \in Int : Lies(u, g) => ~\E s \in U : Lies(u, s)
  <2>1. PICK k \in 1..n : g = <<e[k][2], e[k + 1][1]>>
    BY <1>2, <1>5
  <2>2. k \in 1..n + 1 /\ k + 1 \in 1..n + 1
    BY <1>5
  <2>3. g[1] = e[k][2] /\ g[2] = e[k + 1][1] /\ g[1] \in Nat /\ g[2] \in Nat
    BY <1>6, <2>1, <2>2
  <2>4. ASSUME NEW u \in Int, Lies(u, g), Within(m, u) PROVE FALSE
    <3>1. PICK j \in 1..Len(m) : Lies(u, m[j])
      BY <2>4 DEF Within
    <3>2. CASE j <= k - 1
      <4>1. k \in 2..n /\ k - 1 \in 1..Len(m)
        BY <1>3, <3>2
      <4>2. m[j][2] <= m[k - 1][2] /\ e[k][2] = m[k - 1][2]
        BY <1>5, <1>7, <3>2, <4>1
      <4> QED BY <1>4, <2>3, <2>4, <3>1, <4>1, <4>2 DEF Lies
    <3>3. CASE j >= k
      <4>1. k \in 1..Len(m) /\ k + 1 \in 2..n /\ k + 1 - 1 = k
        BY <1>3, <3>3
      <4>2. m[k][1] <= m[j][1]
        BY <1>7, <3>3
      <4>3. e[k + 1] = m[k]
        BY <1>5, <4>1
      <4> QED BY <1>4, <2>3, <2>4, <3>1, <4>1, <4>2, <4>3 DEF Lies
    <3> QED BY <1>3, <3>2, <3>3
  <2> QED BY <1>1, <2>3, <2>4
<1>9. ASSUME NEW u \in (first + 1)..last
      PROVE  \/ \E s \in U : Lies(u, s)
             \/ \E g \in gaps : Lies(u, g)
             \/ \E v \in Int : /\ v = last + 1 \/ \E s \in U : Lies(v, s)
                              /\ u <= v /\ 20 * (v - u) <= last - first + 20
  <2>1. u \in Int /\ first < u /\ u <= last
    OBVIOUS
  <2>2. e[1][2] = first /\ e[n + 1][2] = last /\ e[n + 1][1] = last
    BY <1>5
  <2>3. PICK k \in 1..n : e[k][2] < u /\ u <= e[k + 1][2]
    BY <1>5, <1>6, <2>1, <2>2, StretchOf
  <2>4. k \in 1..n + 1 /\ k + 1 \in 1..n + 1 /\ k \in Int
    BY <1>5
  <2>5. e[k][2] \in Nat /\ e[k + 1][1] \in Nat /\ e[k + 1][2] \in Nat
    BY <1>6, <2>4
  <2> DEFINE b == e[k + 1][1]
  <2>6. k = n \/ (k \in 1..Len(m) /\ e[k + 1] = m[k])
    <3>1. CASE k # n
      <4>1. k \in 1..Len(m) /\ k + 1 \in 2..n /\ k + 1 - 1 = k
        BY <1>3, <3>1
      <4> QED BY <1>5, <4>1
    <3> QED BY <3>1
  <2>7. CASE b < u
    <3>1. k # n
      BY <2>1, <2>2, <2>7
    <3>2. Lies(u, m[k]) /\ k \in 1..Len(m)
      BY <2>3, <2>6, <2>7, <3>1 DEF Lies
    <3> QED BY <1>1, <2>1, <3>2 DEF Within
  <2>8. CASE u <= b /\ 20 * (b - e[k][2]) > last - first
    <3> DEFINE g == <<e[k][2], b>>
    <3>1. g \in gaps
      <4>1. k \in 1..Len(e) - 1
        BY <1>5
      <4>2. k \in {i \in 1..Len(e) - 1 : 20 * (e[i + 1][1] - e[i][2]) > last - first}
        BY <2>8, <4>1
      <4> QED BY <1>2, <4>2, Zenon
    <3>2. Lies(u, g)
      BY <2>3, <2>8 DEF Lies
    <3> QED BY <3>1, <3>2
  <2>9. CASE u <= b /\ ~(20 * (b - e[k][2]) > last - first)
    <3> DEFINE q == e[k][2]
               w == last - first
    <3>1. b \in Nat /\ q \in Nat /\ q < u /\ w \in Int /\ ~(20 * (b - q) > w)
      BY <2>3, <2>5, <2>9
    <3>2. b + 1 = last + 1 \/ \E s \in U : Lies(b + 1, s)
      <4>1. CASE k = n
        BY <2>2, <4>1
      <4>2. CASE k # n
        <5>1. k \in 1..Len(m) /\ e[k + 1] = m[k]
          BY <2>6, <4>2
        <5>2. Lies(b + 1, m[k])
          <6>1. m[k][1] \in Nat /\ m[k][2] \in Nat /\ m[k][1] < m[k][2] /\ b = m[k][1]
            BY <1>4, <5>1
          <6> HIDE DEF b
          <6> QED BY <6>1 DEF Lies
        <5>3. Within(m, b + 1)
          BY <5>1, <5>2 DEF Within
        <5>4. b + 1 \in Int
          BY <3>1
        <5> HIDE DEF b
        <5> QED BY <1>1, <5>3, <5>4
      <4> QED BY <4>1, <4>2
    <3> HIDE DEF b, q
    <3>3. PICK v \in Int : v = b + 1
      BY <3>1
    <3>4. 20 * (v - u) <= w + 20
      <4> HIDE DEF w
      <4>1. 20 * (b + 1 - u) <= w + 20
        BY <2>1, <3>1, SliverIs
      <4> QED BY <2>1, <3>1, <3>3, <4>1
    <3>5. u <= v /\ (v = last + 1 \/ \E s \in U : Lies(v, s))
      BY <2>1, <2>9, <3>1, <3>2, <3>3
    <3> QED BY <3>4, <3>5
  <2>10. b \in Nat
    BY <2>5
  <2> HIDE DEF b
  <2> QED BY <2>1, <2>7, <2>8, <2>9, <2>10
<1> QED BY <1>8, <1>9 DEF GapsSound, gaps

-----------------------------------------------------------------------------
(* The structures the analyst has placed.                                  *)

\* The spans of structures the rules accept run forward in time.
LEMMA SpansAre ==
  ASSUME NEW ps, ps = chart, PivotsAt(ps), \A i, j \in DOMAIN ps : i < j => ps[i].at < ps[j].at,
         accepted \in Seq(Session!ReadingsOf(ps))
  PROVE  LET spans == Session!SpansOf(accepted)
         IN  IsFiniteSet(spans) /\ spans \subseteq SpanPairs
<1> DEFINE A == accepted
           spans == Session!SpansOf(A)
           f == [i \in 1..Len(A) |-> Session!SpanOf(A[i])]
<1>1. Len(A) \in Nat /\ DOMAIN A = 1..Len(A) /\ \A i \in 1..Len(A) : A[i] \in Session!ReadingsOf(ps)
  OBVIOUS
<1>2. spans = {f[i] : i \in 1..Len(A)}
  <2>1. spans = {Session!SpanOf(s) : s \in {A[i] : i \in DOMAIN A}}
    BY DEF Session!SpansOf, Session!ToSet
  <2>2. \A i \in 1..Len(A) : f[i] = Session!SpanOf(A[i])
    OBVIOUS
  <2> HIDE DEF f, spans, A
  <2> QED BY <1>1, <2>1, <2>2
<1>3. IsFiniteSet(spans)
  <2>1. f \in Surjection(1..Len(A), spans)
    <3>1. f \in [1..Len(A) -> spans]
      BY <1>2
    <3>2. \A x \in spans : \E i \in 1..Len(A) : f[i] = x
      BY <1>2
    <3> HIDE DEF f, spans
    <3> QED BY <3>1, <3>2 DEF Surjection
  <2>2. IsFiniteSet(1..Len(A))
    BY <1>1, FS_Interval
  <2> HIDE DEF f, spans
  <2> QED BY <2>1, <2>2, FS_Surjection
<1>4. ASSUME NEW i \in 1..Len(A) PROVE f[i] \in SpanPairs
  <2>1. PICK j \in DOMAIN ps : \E s \in Session!LegalAt(ps, j) : A[i] = <<s.from, s.to>>
    BY <1>1 DEF Session!ReadingsOf
  <2>0. PICK s \in Session!LegalAt(ps, j) : A[i] = <<s.from, s.to>>
    BY <2>1
  <2>2. Len(ps) \in Nat /\ DOMAIN ps = 1..Len(ps) /\ \A k \in 1..Len(ps) : ps[k] \in PivotRecords
    BY DEF PivotsAt
  <2>3. PICK c \in FitAt(ps, j) : s = CandidateAt(ps, j, c)
    BY <2>0, LegalIs
  <2>4. c \in 1..6 /\ FitsAt(ps, j, c) /\ s.from = j /\ s.to = j + Wanted(c)
    BY <2>3 DEF FitAt, CandidateAt
  <2>5. j + Wanted(c) <= Len(ps)
    BY <2>2, <2>4, WavesHaveLength
  <2>6. Wanted(c) \in {3, 5}
    <3>1. c = 1 \/ c = 2 \/ c = 3 \/ c = 4 \/ c = 5 \/ c = 6
      BY <2>4
    <3> QED BY <3>1, Orders
  <2>7. s.from \in 1..Len(ps) /\ s.to \in 1..Len(ps) /\ s.from < s.to
    BY <2>2, <2>4, <2>5, <2>6
  <2>8. ps[s.from].at < ps[s.to].at
    BY <2>2, <2>7
  <2>9. ps[s.from].at \in Nat /\ ps[s.to].at \in Nat
    BY <2>2, <2>7 DEF PivotRecords
  <2>10. f[i] = <<ps[s.from].at, ps[s.to].at>>
    BY <2>0 DEF Session!SpanOf
  <2> HIDE DEF f
  <2> QED BY <2>8, <2>9, <2>10 DEF SpanPairs
<1> HIDE DEF f
<1>5. spans \subseteq SpanPairs
  BY <1>2, <1>4
<1> QED BY <1>3, <1>5

LEMMA CoverageHolds ==
  ASSUME NEW spans, IsFiniteSet(spans), spans \subseteq SpanPairs, spans = Session!SpansOf(accepted)
  PROVE  Session!CoverageIsTrue
<1> DEFINE first == Ends[1]
           last == Ends[2]
           units == Session!Units(spans)
           gaps == Session!Gaps(spans, first, last)
<1>1. first \in Nat /\ last \in Nat /\ first < last
  BY SessionAssumption
<1>2. \A u : u \in units <=> u \in Int /\ \E s \in spans : Lies(u, s)
  <2>1. \A s \in spans : s[1] \in Int /\ s[2] \in Int
    BY PairIs
  <2> QED BY <2>1, UnitsAre
<1> HIDE DEF first, last
<1>3. GapsSound(gaps, spans, first, last)
  BY <1>1, GapsAre
<1> HIDE DEF units, gaps
<1>4. \A u : u \in Session!Units(gaps) <=> u \in Int /\ \E g \in gaps : Lies(u, g)
  <2>1. \A g \in gaps : g[1] \in Int /\ g[2] \in Int
    BY <1>3 DEF GapsSound
  <2> QED BY <2>1, UnitsAre
<1>5. Session!Covered(spans) = Cardinality(units)
  <2>1. Tidy(Session!MergedSpans(spans))
        /\ \A u \in Int : Within(Session!MergedSpans(spans), u) <=> \E s \in spans : Lies(u, s)
    BY MergedIs
  <2>2. {u \in Int : Within(Session!MergedSpans(spans), u)} = units
    BY <1>2, <2>1
  <2> QED BY <2>1, <2>2, CoveredIs
<1> HIDE DEF units, gaps
<1>6. Session!Units(gaps) \cap units = {}
  BY <1>2, <1>3, <1>4 DEF GapsSound
<1>7. ASSUME NEW u \in (first + 1)..last \ (units \cup Session!Units(gaps))
      PROVE  \E v \in units \cup {first, last + 1} : 20 * Session!Abs(u - v) <= last - first + 20
  <2>1. u \in Int /\ u \in (first + 1)..last /\ u \notin units /\ u \notin Session!Units(gaps)
    BY <1>1
  <2>2. PICK v \in Int : /\ v = last + 1 \/ \E s \in spans : Lies(v, s)
                         /\ u <= v /\ 20 * (v - u) <= last - first + 20
    BY <1>2, <1>3, <1>4, <2>1 DEF GapsSound
  <2>3. v \in units \cup {first, last + 1}
    BY <1>2, <2>2
  <2>4. Session!Abs(u - v) = v - u
    BY <2>1, <2>2 DEF Session!Abs
  <2> QED BY <2>2, <2>3, <2>4
<1>8. Session!Cardinality(units) = Cardinality(units)
  BY SessionCardinality
<1> QED BY <1>5, <1>6, <1>7, <1>8 DEF Session!CoverageIsTrue, first, last, units, gaps

\* On every chart and whatever the service submits: the measured coverage is
\* the length of the chart that lies in some accepted structure, no gap holds
\* a part of one, and what is neither lies beside one (coverage_of).
THEOREM CoverageStaysTrue == StudiesSpec => []CoverageIsTrue
<1> DEFINE ChartInv == chart \in Charts /\ readings = Session!ReadingsOf(chart)
<1>1. StudiesInit => ChartInv
  BY DEF StudiesInit, Session!Init
<1>2. ChartInv /\ [StudiesNext]_<<part, vars, engineOwn, sessionVars>> => ChartInv'
  <2> SUFFICES ASSUME ChartInv, [StudiesNext]_<<part, vars, engineOwn, sessionVars>>
               PROVE  ChartInv'
    OBVIOUS
  <2>1. CASE Session!Next
    <3>1. UNCHANGED <<chart, readings>>
      BY <2>1 DEF Session!Next, Session!Turn, Session!Tools, Session!OverBudget, Session!Ask,
         Session!Busy, Session!RequestFails, Session!AnswerInProse, Session!AnswerWithCalls,
         Session!ListPivots, Session!Inspect, Session!ArgumentRaises, Session!SubmitCount,
         Session!EndTurn, Session!Called, Session!chartVars
    <3> QED BY <3>1
  <2>2. CASE UNCHANGED sessionVars
    BY <2>2 DEF sessionVars
  <2> QED BY <2>1, <2>2 DEF StudiesNext
<1>3. ChartInv /\ SessionInv => CoverageIsTrue
  <2> SUFFICES ASSUME ChartInv, SessionInv PROVE CoverageIsTrue
    OBVIOUS
  <2>1. PivotsAt(chart) /\ \A i, j \in DOMAIN chart : i < j => chart[i].at < chart[j].at
    BY ChartsAssumption DEF PivotsAt, PivotRecords
  <2>2. accepted \in Seq(Session!ReadingsOf(chart))
    BY DEF SessionInv
  <2> DEFINE spans == Session!SpansOf(accepted)
  <2>3. IsFiniteSet(spans) /\ spans \subseteq SpanPairs
    BY <2>1, <2>2, SpansAre
  <2>4. Session!CoverageIsTrue
    BY <2>3, CoverageHolds
  <2> QED BY <2>4 DEF CoverageIsTrue
<1> HIDE DEF ChartInv
<1>4. SessionInv /\ [StudiesNext]_<<part, vars, engineOwn, sessionVars>> => SessionInv'
  BY SessionGoesOn
<1> QED BY <1>1, <1>2, <1>3, <1>4, SessionStarts, PTL DEF StudiesSpec

-----------------------------------------------------------------------------
(* The counts of the rule engine, on any series of pivots that alternate.  *)

Alternating(ps) ==
    /\ PivotsAt(ps)
    /\ \A i \in 1..Len(ps) - 1 :
          /\ ps[i].kind = -ps[i + 1].kind /\ ps[i].at < ps[i + 1].at
          /\ ps[i].kind = 1 => ps[i].price > ps[i + 1].price
          /\ ps[i].kind = -1 => ps[i].price < ps[i + 1].price

List(s) == \E S : s \in Seq(S)

\* The waves of a count from pivot a on: legs between neighbouring pivots.
LegsFrom(ps, a, ws) ==
    /\ List(ws) /\ Len(ws) \in 1..8 /\ a + Len(ws) <= Len(ps) /\ DOMAIN ws = 1..Len(ws)
    /\ \A m \in 1..Len(ws) :
          /\ ws[m].start = ps[a + m - 1].price /\ ws[m].end = ps[a + m].price
          /\ ws[m].from = ps[a + m - 1].at /\ ws[m].to = ps[a + m].at

LEMMA WavesAre ==
  ASSUME NEW ps, PivotsAt(ps), NEW a \in 1..Len(ps) - 1, NEW n \in 1..8, a + n <= Len(ps)
  PROVE  LegsFrom(ps, a, Engine!Waves(SubSeq(ps, a, Len(ps)), Engine!Canonical, n))
<1> DEFINE points == SubSeq(ps, a, Len(ps))
           labels == Engine!Canonical
           ws == Engine!Waves(points, labels, n)
<1>1. Len(ps) \in Nat /\ ps \in Seq(PivotRecords)
  BY DEF PivotsAt
<1>2. \A m \in 1..Len(ps) - a + 1 : points[m] = ps[a + m - 1]
  BY <1>1
<1> HIDE DEF points, labels
<1>3. ws = [m \in 1..n |-> Engine!MakeWave(labels[m], points[m], points[m + 1])]
  BY DEF Engine!Waves
<1> HIDE DEF ws
<1>4. Len(ws) = n /\ DOMAIN ws = 1..n
  BY <1>3
<1>5. ASSUME NEW m \in 1..n
      PROVE  /\ ws[m].start = ps[a + m - 1].price /\ ws[m].end = ps[a + m].price
             /\ ws[m].from = ps[a + m - 1].at /\ ws[m].to = ps[a + m].at
  <2>1. ws[m] = Engine!MakeWave(labels[m], points[m], points[m + 1])
    BY <1>3
  <2>2. m \in 1..Len(ps) - a + 1 /\ m + 1 \in 1..Len(ps) - a + 1 /\ a + (m + 1) - 1 = a + m
    BY <1>1, <1>5
  <2>3. points[m] = ps[a + m - 1] /\ points[m + 1] = ps[a + m]
    BY <1>2, <2>2
  <2> QED BY <2>1, <2>3 DEF Engine!MakeWave
<1>6. List(ws)
  <2> DEFINE f(m) == Engine!MakeWave(labels[m], points[m], points[m + 1])
             W == {f(m) : m \in 1..n}
  <2>1. ws = [m \in 1..n |-> f(m)] /\ \A m \in 1..n : f(m) \in W
    BY <1>3
  <2>2. n \in Nat
    OBVIOUS
  <2> HIDE DEF f, W
  <2>3. ws \in [1..n -> W]
    BY <2>1, Zenon
  <2>4. ws \in Seq(W)
    BY <2>2, <2>3
  <2> QED BY <2>4, Zenon DEF List
<1>7. LegsFrom(ps, a, ws)
  BY <1>4, <1>5, <1>6 DEF LegsFrom
<1> QED BY <1>7 DEF ws, points, labels

\* What survives was built to its end, and passed the rules where they are asked.
LEMMA BuiltIs ==
  ASSUME NEW ps, PivotsAt(ps), NEW a \in 1..Len(ps) - 1, NEW d, NEW structure,
         NEW built, built = Engine!Build(SubSeq(ps, a, Len(ps)), d, Engine!Canonical, structure),
         ~built.broken
  PROVE  /\ LegsFrom(ps, a, built.waves)
         /\ \E four, five :
               /\ Len(built.waves) >= 4 =>
                     LegsFrom(ps, a, four) /\ Len(four) = 4 /\ Engine!RulesHold(four, d, structure)
               /\ Len(built.waves) >= 5 =>
                     LegsFrom(ps, a, five) /\ Len(five) = 5 /\ Engine!RulesHold(five, d, structure)
<1> DEFINE points == SubSeq(ps, a, Len(ps))
           labels == Engine!Canonical
           n == Engine!Least(Len(points) - 1, Len(labels))
           W(k) == Engine!Waves(points, labels, k)
           breaksAt(k) == n >= k /\ ~Engine!RulesHold(W(k), d, structure)
           last == IF breaksAt(4) THEN 4 ELSE IF breaksAt(5) THEN 5 ELSE n
<1>1. Len(ps) \in Nat /\ Len(points) = Len(ps) - a + 1
  BY DEF PivotsAt
<1>2. Len(labels) = 8
  BY DEF Engine!Canonical, Engine!Motive, Engine!Abc
<1>3. built = [waves |-> W(last), broken |-> breaksAt(4) \/ breaksAt(5)]
  BY DEF Engine!Build
<1> HIDE DEF points, labels
<1>4. n \in 1..8 /\ a + n <= Len(ps)
  BY <1>1, <1>2 DEF Engine!Least
<1>11. n <= n /\ n \in Int
  BY <1>4
<1> HIDE DEF n
<1> DEFINE failed == breaksAt(4) \/ breaksAt(5)
           kept == W(last)
<1>5. ~breaksAt(4) /\ ~breaksAt(5)
  <2>1. built = [waves |-> kept, broken |-> failed]
    BY <1>3
  <2> HIDE DEF failed, kept
  <2>2. built.broken = failed
    BY <2>1
  <2>3. ~failed
    BY <2>2, Zenon
  <2> QED BY <2>3 DEF failed
<1>6. last = n /\ built.waves = W(n)
  BY <1>3, <1>5
<1>7. ASSUME NEW k \in 1..8, k <= n PROVE LegsFrom(ps, a, W(k)) /\ Len(W(k)) = k
  <2>1. a + k <= Len(ps)
    BY <1>1, <1>4, <1>7
  <2>2. LegsFrom(ps, a, W(k))
    BY <2>1, WavesAre DEF points, labels
  <2>3. W(k) = [m \in 1..k |-> Engine!MakeWave(labels[m], points[m], points[m + 1])]
    BY DEF Engine!Waves
  <2>4. Len(W(k)) = k
    BY <2>3
  <2> QED BY <2>2, <2>4
<1>8. LegsFrom(ps, a, built.waves) /\ Len(built.waves) = n
  BY <1>4, <1>6, <1>7, <1>11
<1>9. n >= 4 => LegsFrom(ps, a, W(4)) /\ Len(W(4)) = 4 /\ Engine!RulesHold(W(4), d, structure)
  BY <1>4, <1>5, <1>7
<1>10. n >= 5 => LegsFrom(ps, a, W(5)) /\ Len(W(5)) = 5 /\ Engine!RulesHold(W(5), d, structure)
  BY <1>4, <1>5, <1>7
<1> HIDE DEF W
<1> QED BY <1>8, <1>9, <1>10

Beyond(d, x, y) == (d = 1 => x > y) /\ (d = -1 => x < y)
LEMMA BeyondIs ==
  ASSUME NEW d \in {1, -1}, NEW x \in Int, NEW y \in Int
  PROVE  /\ (d * x > d * y) <=> Beyond(d, x, y)
         /\ (d * (x - y) > 0) <=> Beyond(d, x, y)
         /\ (d * (x - y) < 0) <=> Beyond(d, y, x)
<1>1. CASE d = 1
  BY <1>1 DEF Beyond
<1>2. CASE d = -1
  <2>1. d * x = -x /\ d * y = -y /\ d * (x - y) = y - x
    BY <1>2
  <2> QED BY <1>2, <2>1 DEF Beyond
<1> QED BY <1>1, <1>2

LEMMA BeyondSays == \A d \in {1, -1} : \A x, y \in Int : Beyond(d, x, y) => d * x > d * y
BY BeyondIs

\* The prices of alternating pivots go up and down in turn.
GoesUpAndDown(ps, a, d, n) ==
    /\ \A k \in 0..n : ps[a + k].price \in Nat
    /\ \A k \in {1, 3, 5} : k <= n => Beyond(d, ps[a + k].price, ps[a + k - 1].price)
    /\ \A k \in {2, 4} : k <= n => Beyond(d, ps[a + k - 1].price, ps[a + k].price)

LEMMA MovesAlternate ==
  ASSUME NEW ps, Alternating(ps), NEW a \in 1..Len(ps), NEW d \in {1, -1}, ps[a].kind = -d,
         NEW n \in 1..5, a + n <= Len(ps)
  PROVE  GoesUpAndDown(ps, a, d, n)
<1>1. Len(ps) \in Nat /\ ps \in Seq(PivotRecords)
  BY DEF Alternating, PivotsAt
<1>2. \A i \in 1..Len(ps) : ps[i].kind \in {1, -1} /\ ps[i].price \in Nat
  <2> TAKE i \in 1..Len(ps)
  <2>1. ps[i] \in PivotRecords
    BY <1>1
  <2> QED BY <2>1 DEF PivotRecords
<1>3. ASSUME NEW k \in 0..n PROVE ps[a + k].price \in Nat
  <2>1. a + k \in 1..Len(ps)
    BY <1>1, <1>3
  <2> QED BY <1>2, <2>1
<1> DEFINE K(k) == ps[a + k].kind
           P(k) == ps[a + k].price
<1>4. ASSUME NEW k \in 0..n - 1
      PROVE  /\ K(k + 1) = -K(k) /\ K(k) \in {1, -1} /\ K(k + 1) \in {1, -1}
             /\ (K(k) = 1 => P(k) > P(k + 1)) /\ (K(k) = -1 => P(k) < P(k + 1))
  <2> DEFINE i == a + k
  <2>1. i \in 1..Len(ps) - 1 /\ i \in 1..Len(ps) /\ i + 1 \in 1..Len(ps) /\ a + (k + 1) = i + 1
    BY <1>1, <1>4
  <2> HIDE DEF i
  <2>2. /\ ps[i].kind = -ps[i + 1].kind /\ ps[i].kind \in {1, -1} /\ ps[i + 1].kind \in {1, -1}
        /\ ps[i].kind = 1 => ps[i].price > ps[i + 1].price
        /\ ps[i].kind = -1 => ps[i].price < ps[i + 1].price
    BY <1>2, <2>1 DEF Alternating
  <2>3. K(k) = ps[i].kind /\ P(k) = ps[i].price
    BY DEF i
  <2>4. K(k + 1) = ps[i + 1].kind /\ P(k + 1) = ps[i + 1].price
    BY <2>1
  <2> QED BY <2>2, <2>3, <2>4
<1>5. K(0) = -d
  <2>1. a + 0 = a
    OBVIOUS
  <2> QED BY <2>1
<1> HIDE DEF K, P
<1>6. K(1) = d /\ Beyond(d, P(1), P(0))
  <2>1. 0 \in 0..n - 1 /\ 0 + 1 = 1
    OBVIOUS
  <2> QED BY <1>4, <1>5, <2>1 DEF Beyond
<1>7. 2 <= n => K(2) = -d /\ Beyond(d, P(1), P(2))
  <2>1. 1 + 1 = 2 /\ (2 <= n => 1 \in 0..n - 1)
    OBVIOUS
  <2> QED BY <1>4, <1>6, <2>1 DEF Beyond
<1>8. 3 <= n => K(3) = d /\ Beyond(d, P(3), P(2))
  <2>1. 2 + 1 = 3 /\ (3 <= n => 2 \in 0..n - 1 /\ 2 <= n)
    OBVIOUS
  <2> QED BY <1>4, <1>7, <2>1 DEF Beyond
<1>9. 4 <= n => K(4) = -d /\ Beyond(d, P(3), P(4))
  <2>1. 3 + 1 = 4 /\ (4 <= n => 3 \in 0..n - 1 /\ 3 <= n)
    OBVIOUS
  <2> QED BY <1>4, <1>8, <2>1 DEF Beyond
<1>10. 5 <= n => Beyond(d, P(5), P(4))
  <2>1. 4 + 1 = 5 /\ (5 <= n => 4 \in 0..n - 1 /\ 4 <= n)
    OBVIOUS
  <2> QED BY <1>4, <1>9, <2>1 DEF Beyond
<1>11. \A k \in {1, 2, 3, 4, 5} : P(k) = ps[a + k].price /\ P(k - 1) = ps[a + k - 1].price
  <2> SUFFICES ASSUME NEW k \in {1, 2, 3, 4, 5}
               PROVE  P(k) = ps[a + k].price /\ P(k - 1) = ps[a + k - 1].price
    OBVIOUS
  <2>1. a + (k - 1) = a + k - 1
    OBVIOUS
  <2> QED BY <2>1 DEF P
<1>12. \A k \in {1, 3, 5} : k <= n => Beyond(d, P(k), P(k - 1))
  <2>1. 1 - 1 = 0 /\ 3 - 1 = 2 /\ 5 - 1 = 4
    OBVIOUS
  <2> QED BY <1>6, <1>8, <1>10, <2>1
<1>13. \A k \in {2, 4} : k <= n => Beyond(d, P(k - 1), P(k))
  <2>1. 2 - 1 = 1 /\ 4 - 1 = 3
    OBVIOUS
  <2> QED BY <1>7, <1>9, <2>1
<1>14. \A k \in {1, 3, 5} : k <= n => Beyond(d, ps[a + k].price, ps[a + k - 1].price)
  <2> TAKE k \in {1, 3, 5}
  <2>1. k \in {1, 2, 3, 4, 5}
    OBVIOUS
  <2> QED BY <1>11, <1>12, <2>1, Zenon
<1>15. \A k \in {2, 4} : k <= n => Beyond(d, ps[a + k - 1].price, ps[a + k].price)
  <2> TAKE k \in {2, 4}
  <2>1. k \in {1, 2, 3, 4, 5}
    OBVIOUS
  <2> QED BY <1>11, <1>13, <2>1, Zenon
<1> QED BY <1>3, <1>14, <1>15 DEF GoesUpAndDown

\* The prices of a count, and the rules on them.
LegSize(ps, a, i) == Engine!Abs(ps[a + i].price - ps[a + i - 1].price)

Priced(ps, a, ws) ==
    /\ \A i \in 1..Len(ws) : /\ Engine!Price(ws, i) = ps[a + i].price
                             /\ Engine!Price(ws, i - 1) = ps[a + i - 1].price
                             /\ Engine!Leg(ws, i) = LegSize(ps, a, i)
                             /\ Engine!Length(ws[i]) = LegSize(ps, a, i)
    /\ Engine!Price(ws, 0) = ps[a].price

LEMMA PricesOf ==
  ASSUME NEW ps, NEW a \in Nat, NEW ws, LegsFrom(ps, a, ws)
  PROVE  Priced(ps, a, ws)
<1>1. Len(ws) \in Nat /\ 1 \in 1..Len(ws)
  BY DEF LegsFrom
<1>2. Engine!Price(ws, 0) = ps[a].price
  <2>1. ws[1].start = ps[a + 1 - 1].price /\ a + 1 - 1 = a
    BY <1>1 DEF LegsFrom
  <2> QED BY <2>1 DEF Engine!Price
<1>3. ASSUME NEW i \in 1..Len(ws)
      PROVE  /\ Engine!Price(ws, i) = ps[a + i].price
             /\ Engine!Price(ws, i - 1) = ps[a + i - 1].price
             /\ Engine!Leg(ws, i) = LegSize(ps, a, i)
             /\ Engine!Length(ws[i]) = LegSize(ps, a, i)
  <2>1. Engine!Price(ws, i) = ps[a + i].price
    BY <1>3 DEF LegsFrom, Engine!Price
  <2>2. Engine!Price(ws, i - 1) = ps[a + i - 1].price
    <3>1. CASE i = 1
      <4>1. i - 1 = 0 /\ a + i - 1 = a
        BY <3>1
      <4> QED BY <1>2, <4>1
    <3>2. CASE i > 1
      <4> DEFINE j == i - 1
      <4>1. j \in 1..Len(ws) /\ a + i - 1 = a + j /\ j # 0
        BY <1>1, <3>2
      <4> HIDE DEF j
      <4>2. Engine!Price(ws, j) = ps[a + j].price
        BY <4>1 DEF LegsFrom, Engine!Price
      <4> QED BY <4>1, <4>2 DEF j
    <3> QED BY <1>1, <3>1, <3>2
  <2>3. ws[i].start = ps[a + i - 1].price /\ ws[i].end = ps[a + i].price
    BY <1>3 DEF LegsFrom
  <2> QED BY <2>1, <2>2, <2>3 DEF Engine!Leg, LegSize, Engine!Length
<1> QED BY <1>2, <1>3 DEF Priced

LEMMA RulesOfFive ==
  ASSUME NEW ws, Len(ws) = 5, NEW d, NEW structure \in Engine!Structures,
         Engine!RulesHold(ws, d, structure),
         NEW x \in Int, Engine!Length(ws[1]) = x, NEW y \in Int, Engine!Length(ws[3]) = y,
         NEW z \in Int, Engine!Length(ws[5]) = z
  PROVE  /\ structure = "impulse" => ~(y < x /\ y < z)
         /\ structure = "contracting" => x > y /\ y > z
         /\ structure = "expanding" => x < y /\ y < z
<1>1. CASE structure = "impulse"
  <2>1. Engine!Wave3Holds(ws)
    BY <1>1 DEF Engine!RulesHold, Engine!ImpulseHolds
  <2> QED BY <1>1, <2>1 DEF Engine!Wave3Holds
<1>2. CASE structure = "contracting"
  <2>1. Engine!Shrinks(ws)
    BY <1>2 DEF Engine!RulesHold, Engine!DiagonalHolds
  <2> QED BY <1>2, <2>1 DEF Engine!Shrinks
<1>3. CASE structure = "expanding"
  <2>1. Engine!Grows(ws)
    BY <1>3 DEF Engine!RulesHold, Engine!DiagonalHolds
  <2> QED BY <1>3, <2>1 DEF Engine!Grows
<1> QED BY <1>1, <1>2, <1>3 DEF Engine!Structures

LEMMA DistanceIs == \A x, y \in Nat : Engine!Abs(x - y) \in Int
<1> TAKE x, y \in Nat
<1>1. x - y \in Int /\ -(x - y) \in Int
  OBVIOUS
<1> QED BY <1>1, Zenon DEF Engine!Abs

LEMMA SignedIs == \A d \in {1, -1} : \A x \in Nat : d * x \in Int
OBVIOUS

LEMMA LegalCount ==
  ASSUME NEW ps, Alternating(ps), NEW a \in 1..Len(ps) - 1, NEW d \in {1, -1}, ps[a].kind = -d,
         NEW structure \in Engine!Structures,
         NEW ws, LegsFrom(ps, a, ws), Len(ws) >= 4,
         NEW four, LegsFrom(ps, a, four), Len(four) = 4, Engine!RulesHold(four, d, structure),
         NEW five, Len(ws) >= 5 =>
             LegsFrom(ps, a, five) /\ Len(five) = 5 /\ Engine!RulesHold(five, d, structure)
  PROVE  Engine!Legal(ws, d, structure)
<1> DEFINE n == Engine!Least(Len(ws), 5)
           p(k) == ps[a + k].price
           L(k) == LegSize(ps, a, k)
<1>1. Len(ps) \in Nat /\ a \in Nat /\ a \in 1..Len(ps)
  BY DEF Alternating, PivotsAt
<1>2. Len(ws) \in 4..8 /\ n \in 4..5 /\ n \in 1..5 /\ n <= Len(ws) /\ a + n <= Len(ps)
      /\ (n = 5 <=> Len(ws) >= 5)
  <2>1. Len(ws) \in 1..8 /\ a + Len(ws) <= Len(ps) /\ Len(ws) >= 4
    BY DEF LegsFrom
  <2> DEFINE m == Len(ws)
  <2> HIDE DEF m
  <2>2. n = IF m <= 5 THEN m ELSE 5
    BY DEF m, Engine!Least
  <2>3. m \in 1..8 /\ a + m <= Len(ps) /\ m >= 4
    BY <2>1 DEF m
  <2> HIDE DEF n
  <2>4. m \in 4..8 /\ n \in 4..5 /\ n \in 1..5 /\ n <= m /\ a + n <= Len(ps) /\ (n = 5 <=> m >= 5)
    BY <1>1, <2>2, <2>3
  <2> QED BY <2>4 DEF m
<1> HIDE DEF n
<1>3. /\ \A k \in 0..n : p(k) \in Nat
      /\ \A k \in {1, 3, 5} : k <= n => Beyond(d, ps[a + k].price, ps[a + k - 1].price)
      /\ \A k \in {2, 4} : k <= n => Beyond(d, ps[a + k - 1].price, ps[a + k].price)
  <2>1. GoesUpAndDown(ps, a, d, n)
    BY <1>1, <1>2, MovesAlternate
  <2> QED BY <2>1, Zenon DEF GoesUpAndDown
<1>20. ASSUME NEW i \in 0..n, NEW j \in 0..n PROVE ps[a + i].price \in Nat /\ ps[a + j].price \in Nat
  BY <1>3, Zenon
<1>4. /\ \A i \in 1..Len(ws) : /\ Engine!Price(ws, i) = p(i)
                               /\ Engine!Price(ws, i - 1) = ps[a + i - 1].price
                               /\ Engine!Leg(ws, i) = L(i)
      /\ Engine!Price(ws, 0) = p(0)
  <2>1. a + 0 = a
    BY <1>1
  <2>2. Priced(ps, a, ws)
    BY <1>1, PricesOf
  <2> QED BY <2>1, <2>2, Zenon DEF Priced
<1>5. ASSUME NEW i \in 1..n
      PROVE  LET move == d * (Engine!Price(ws, i) - Engine!Price(ws, i - 1))
             IN  IF i \in {1, 3, 5} THEN move > 0 ELSE move < 0
  <2> DEFINE x == ps[a + i].price
             y == ps[a + i - 1].price
  <2>1. i \in 0..n /\ i - 1 \in 0..n /\ a + (i - 1) = a + i - 1 /\ i \in 1..Len(ws)
    BY <1>1, <1>2, <1>5
  <2>2. x \in Int /\ y \in Int
    <3>1. ps[a + i].price \in Nat /\ ps[a + (i - 1)].price \in Nat
      BY <1>20, <2>1, Zenon
    <3>2. x \in Nat /\ y \in Nat
      BY <2>1, <3>1, Zenon
    <3> HIDE DEF x, y
    <3> QED BY <3>2
  <2>3. Engine!Price(ws, i) = x /\ Engine!Price(ws, i - 1) = y
    BY <1>4, <2>1
  <2>4. i \in {1, 3, 5} \/ i \in {2, 4}
    BY <1>2, <1>5
  <2>9. i <= n
    BY <1>2, <1>5
  <2>5. i \in {1, 3, 5} => Beyond(d, x, y)
    BY <1>3, <2>9, Zenon
  <2>6. i \in {2, 4} => Beyond(d, y, x)
    BY <1>3, <2>9, Zenon
  <2> HIDE DEF x, y
  <2>7. i \in {1, 3, 5} => d * (x - y) > 0
    BY <2>2, <2>5, BeyondIs
  <2>8. i \in {2, 4} => d * (x - y) < 0
    BY <2>2, <2>6, BeyondIs
  <2> QED BY <2>3, <2>4, <2>7, <2>8
<1>6. /\ p(0) \in Nat /\ p(1) \in Nat /\ p(2) \in Nat /\ p(3) \in Nat /\ p(4) \in Nat
  <2>1. 0 \in 0..n /\ 1 \in 0..n /\ 2 \in 0..n /\ 3 \in 0..n /\ 4 \in 0..n
    BY <1>2
  <2> QED BY <1>3, <2>1
<1>7. Beyond(d, p(3), p(4))
  <2>1. 4 \in {2, 4} /\ 4 <= n /\ a + 4 - 1 = a + 3
    BY <1>1, <1>2
  <2> QED BY <1>3, <2>1
<1>8. /\ \A i \in 1..4 : Engine!Length(four[i]) = L(i)
      /\ four[1].start = p(0) /\ four[1].end = p(1) /\ four[2].end = p(2)
      /\ four[4].start = p(3) /\ four[4].end = p(4)
  <2>1. /\ a + 1 - 1 = a + 0 /\ a + 4 - 1 = a + 3
        /\ 1 \in 1..Len(four) /\ 2 \in 1..Len(four) /\ 4 \in 1..Len(four)
    BY <1>1
  <2>2. /\ four[1].start = p(0) /\ four[1].end = p(1) /\ four[2].end = p(2)
        /\ four[4].start = p(3) /\ four[4].end = p(4)
    BY <2>1 DEF LegsFrom
  <2>3. \A i \in 1..4 : Engine!Length(four[i]) = L(i)
    <3>1. Priced(ps, a, four)
      BY <1>1, PricesOf
    <3>2. \A i \in 1..Len(four) : Engine!Length(four[i]) = L(i)
      BY <3>1, Zenon DEF Priced
    <3> QED BY <3>2
  <2> QED BY <2>2, <2>3
<1>9. n = 5 => /\ \A i \in 1..5 : Engine!Length(five[i]) = L(i) /\ L(i) \in Int
               /\ Len(five) = 5 /\ Engine!RulesHold(five, d, structure)
  <2> SUFFICES ASSUME n = 5
               PROVE  /\ \A i \in 1..5 : Engine!Length(five[i]) = L(i) /\ L(i) \in Int
                      /\ Len(five) = 5 /\ Engine!RulesHold(five, d, structure)
    OBVIOUS
  <2>1. LegsFrom(ps, a, five) /\ Len(five) = 5 /\ Engine!RulesHold(five, d, structure)
    BY <1>2
  <2>2. \A i \in 1..5 : Engine!Length(five[i]) = L(i)
    <3>1. Priced(ps, a, five)
      BY <1>1, <2>1, PricesOf
    <3>2. \A i \in 1..Len(five) : Engine!Length(five[i]) = L(i)
      BY <3>1, Zenon DEF Priced
    <3> QED BY <2>1, <3>2
  <2>3. ASSUME NEW i \in 1..5 PROVE L(i) \in Int
    <3>1. i \in 0..n /\ i - 1 \in 0..n /\ a + (i - 1) = a + i - 1
      BY <1>1, <2>3
    <3>2. ps[a + i].price \in Nat /\ ps[a + (i - 1)].price \in Nat
      BY <1>20, <3>1, Zenon
    <3>3. ps[a + i].price \in Nat /\ ps[a + i - 1].price \in Nat
      BY <3>1, <3>2, Zenon
    <3> QED BY <3>3, DistanceIs, Zenon DEF LegSize
  <2> QED BY <2>1, <2>2, <2>3
<1> HIDE DEF p, L
<1>10. Engine!Wave2Holds(four, d)
  BY DEF Engine!RulesHold, Engine!ImpulseHolds, Engine!DiagonalHolds
<1>11. d * p(2) > d * p(0)
  BY <1>8, <1>10 DEF Engine!Wave2Holds
<1>12. structure = "impulse" => d * p(4) > d * p(1)
  <2> HAVE structure = "impulse"
  <2>1. Engine!Wave4Holds(four, d)
    BY DEF Engine!RulesHold, Engine!ImpulseHolds
  <2>2. d * p(3) > d * p(4)
    <3>1. p(3) \in Int /\ p(4) \in Int
      BY <1>6
    <3> QED BY <3>1, <1>7, BeyondSays, Zenon
  <2>3. Beyond(d, p(1), p(0))
    <3>1. 1 \in {1, 3, 5} /\ 1 <= n /\ a + 1 - 1 = a + 0
      BY <1>1, <1>2
    <3> QED BY <1>3, <3>1 DEF p
  <2>4. d * p(1) > d * p(0)
    <3>1. p(0) \in Int /\ p(1) \in Int
      BY <1>6
    <3> QED BY <3>1, <2>3, BeyondSays, Zenon
  <2>5. d * p(0) \in Int /\ d * p(1) \in Int /\ d * p(3) \in Int /\ d * p(4) \in Int
    BY <1>6, SignedIs, Zenon
  <2>6. Engine!Near(four[4], d) = p(4)
    BY <1>8, <2>2, <2>5 DEF Engine!Near
  <2>7. Engine!Far(four[1], d) = p(1)
    BY <1>8, <2>4, <2>5 DEF Engine!Far
  <2> QED BY <2>1, <2>6, <2>7 DEF Engine!Wave4Holds
<1>13. n = 5 => L(1) \in Int /\ L(3) \in Int /\ L(5) \in Int
                /\ Engine!Length(five[1]) = L(1) /\ Engine!Length(five[3]) = L(3)
                /\ Engine!Length(five[5]) = L(5)
  BY <1>9
<1>14. ASSUME n = 5
       PROVE  /\ structure = "impulse" => ~(L(3) < L(1) /\ L(3) < L(5))
              /\ structure = "contracting" => L(1) > L(3) /\ L(3) > L(5)
              /\ structure = "expanding" => L(1) < L(3) /\ L(3) < L(5)
  <2>1. /\ L(1) \in Int /\ L(3) \in Int /\ L(5) \in Int
        /\ Engine!Length(five[1]) = L(1) /\ Engine!Length(five[3]) = L(3)
        /\ Engine!Length(five[5]) = L(5)
    BY <1>13, <1>14
  <2>2. Len(five) = 5 /\ Engine!RulesHold(five, d, structure)
    BY <1>9, <1>14
  <2> QED BY <2>1, <2>2, RulesOfFive
<1>17. /\ Engine!Price(ws, 0) = p(0) /\ Engine!Price(ws, 1) = p(1)
       /\ Engine!Price(ws, 2) = p(2) /\ Engine!Price(ws, 4) = p(4)
       /\ n = 5 => Engine!Leg(ws, 1) = L(1) /\ Engine!Leg(ws, 3) = L(3) /\ Engine!Leg(ws, 5) = L(5)
  BY <1>2, <1>4 DEF p, L
<1>18. \A i \in 1..Engine!Least(Len(ws), 5) :
          LET move == d * (Engine!Price(ws, i) - Engine!Price(ws, i - 1))
          IN  IF i \in {1, 3, 5} THEN move > 0 ELSE move < 0
  BY <1>5 DEF n
<1>19. Len(ws) >= 5 => n = 5
  BY <1>2
<1> QED BY <1>11, <1>12, <1>14, <1>17, <1>18, <1>19 DEF Engine!Legal

-----------------------------------------------------------------------------
(* The ranking of the counts.                                              *)

\* The rules are the same for the engine and for the analyst.
LEMMA SameFibScore == ASSUME NEW ws PROVE Engine!FibScore(ws) = Session!FibScore(ws)
<1>1. ASSUME NEW w PROVE Engine!Length(w) = Session!Length(w)
  BY Zenon DEF Engine!Length, Engine!Abs, Session!Length, Session!Abs
<1>2. ASSUME NEW l, NEW b, NEW rs PROVE Engine!Closest(l, b, rs) = Session!Closest(l, b, rs)
  BY Zenon DEF Engine!Closest, Engine!Length, Engine!Abs, Session!Closest, Session!Length, Session!Abs
<1>3. ASSUME NEW l, NEW b, NEW rs
      PROVE  Engine!NearestRatioScore(l, b, rs) = Session!NearestRatioScore(l, b, rs)
  <2>1. Engine!Length(l) = Session!Length(l) /\ Engine!Closest(l, b, rs) = Session!Closest(l, b, rs)
    BY <1>1, <1>2
  <2> QED BY <2>1 DEF Engine!NearestRatioScore, Engine!Tolerance,
                      Session!NearestRatioScore, Session!Tolerance
<1>4. /\ Engine!NearestRatioScore(ws[1], ws[2], Engine!Wave2Ratios)
           = Session!NearestRatioScore(ws[1], ws[2], Session!Wave2Ratios)
      /\ Engine!NearestRatioScore(ws[3], ws[4], Engine!Wave4Ratios)
           = Session!NearestRatioScore(ws[3], ws[4], Session!Wave4Ratios)
  BY <1>3 DEF Engine!Wave2Ratios, Session!Wave2Ratios, Engine!Wave4Ratios, Session!Wave4Ratios
<1> QED BY <1>4 DEF Engine!FibScore, Session!FibScore

LEMMA EngineScores ==
  ASSUME NEW ps, PivotsAt(ps), NEW a \in 1..Len(ps) - 1, NEW ws, LegsFrom(ps, a, ws)
  PROVE  Engine!Probability(ws) \in Int
<1> DEFINE n == Len(ws)
<1>1. n \in Nat \ {0} /\ a + n <= Len(ps)
  <2>1. n \in 1..8 /\ a + n <= Len(ps)
    BY Zenon DEF LegsFrom
  <2> HIDE DEF n
  <2> QED BY <2>1
<1>2. Len(ps) \in Nat /\ \A k \in 1..Len(ps) : ps[k].price \in Int
  <2>1. Len(ps) \in Nat /\ ps \in Seq(PivotRecords)
    BY DEF PivotsAt
  <2>2. ASSUME NEW k \in 1..Len(ps) PROVE ps[k].price \in Int
    <3>1. ps[k] \in PivotRecords
      BY <2>1, <2>2
    <3> QED BY <3>1 DEF PivotRecords
  <2> QED BY <2>1, <2>2
<1>3. ASSUME NEW k \in 1..n PROVE HasLength(ws[k])
  <2>1. a + k - 1 \in 1..Len(ps) /\ a + k \in 1..Len(ps)
    BY <1>1, <1>2, <1>3
  <2>2. ps[a + k - 1].price \in Int /\ ps[a + k].price \in Int
    BY <1>2, <2>1
  <2> QED BY <1>3, <2>2 DEF LegsFrom, HasLength
<1>4. Session!FibScore(ws) \in 0..1000
  BY <1>1, <1>3, FibIs
<1>5. Engine!FibScore(ws) = Session!FibScore(ws)
  BY SameFibScore
<1>6. Engine!Validity(ws) \in Int
  BY <1>1 DEF Engine!Validity, Engine!Least
<1> DEFINE v == Engine!Validity(ws)
           f == Engine!FibScore(ws)
<1>7. v \in Int /\ f \in Int
  BY <1>4, <1>5, <1>6
<1>8. Engine!Probability(ws) = 300 * v + 150 * f + 550 * 500
  BY DEF Engine!Probability
<1> HIDE DEF v, f
<1> QED BY <1>7, <1>8

BuiltFor(ps, d, a, k) ==
    Engine!Build(SubSeq(ps, a, Len(ps)), d, Engine!Canonical, Engine!StructureOrder[k])
CountFor(ps, d, a, k) ==
    [waves |-> BuiltFor(ps, d, a, k).waves, structure |-> Engine!StructureOrder[k], direction |-> d,
     order |-> 3 * a + k, alive |-> ~BuiltFor(ps, d, a, k).broken,
     probability |-> IF BuiltFor(ps, d, a, k).broken THEN 0
                     ELSE Engine!Probability(BuiltFor(ps, d, a, k).waves)]

LEMMA CandidatesAre ==
  ASSUME NEW ps, NEW d
  PROVE  Engine!Candidates(ps, d)
           = {CountFor(ps, d, x[1], x[2]) : x \in Engine!Anchors(ps, d) \X (1..3)}
BY Zenon DEF Engine!Candidates, CountFor, BuiltFor

\* A count that is alive is a legal count of its structure.
GoodCount(ps, d, s) ==
    /\ s.direction = d
    /\ \E a \in 1..Len(ps) - 1 : LegsFrom(ps, a, s.waves)
    /\ Len(s.waves) >= 4 => Engine!Legal(s.waves, d, s.structure)

LEMMA AnchorsAre ==
  ASSUME NEW ps, PivotsAt(ps), NEW d
  PROVE  /\ IsFiniteSet(Engine!Anchors(ps, d)) /\ Engine!Anchors(ps, d) \subseteq 1..Len(ps) - 1
         /\ \A a \in Engine!Anchors(ps, d) : ps[a].kind = -d
<1>1. Len(ps) \in Nat
  BY DEF PivotsAt
<1>2. Engine!Anchors(ps, d) \subseteq {i \in 1..Len(ps) - 1 : ps[i].kind = -d}
  BY DEF Engine!Anchors
<1>3. IsFiniteSet(1..Len(ps) - 1)
  BY <1>1, FS_Interval
<1> QED BY <1>2, <1>3, FS_Subset

LEMMA AliveIsGood ==
  ASSUME NEW ps, Alternating(ps), NEW d \in {1, -1}, NEW a \in 1..Len(ps) - 1, ps[a].kind = -d,
         NEW k \in 1..3, CountFor(ps, d, a, k).alive
  PROVE  GoodCount(ps, d, CountFor(ps, d, a, k)) /\ CountFor(ps, d, a, k).probability \in Int
<1> DEFINE s == CountFor(ps, d, a, k)
           built == BuiltFor(ps, d, a, k)
           structure == Engine!StructureOrder[k]
           prob == IF built.broken THEN 0 ELSE Engine!Probability(built.waves)
           alive == ~built.broken
<1>1. PivotsAt(ps)
  BY DEF Alternating
<1>2. s = [waves |-> built.waves, structure |-> structure, direction |-> d,
           order |-> 3 * a + k, alive |-> alive, probability |-> prob]
  BY DEF CountFor
<1>3. ~built.broken
  <2> HIDE DEF alive, built, prob, structure
  <2>1. s.alive = alive
    BY <1>2
  <2>2. alive
    BY <2>1, Zenon
  <2> QED BY <2>2 DEF alive
<1>4. structure \in Engine!Structures
  BY DEF Engine!StructureOrder, Engine!Structures
<1>5. /\ LegsFrom(ps, a, built.waves)
      /\ \E four, five :
            /\ Len(built.waves) >= 4 =>
                  LegsFrom(ps, a, four) /\ Len(four) = 4 /\ Engine!RulesHold(four, d, structure)
            /\ Len(built.waves) >= 5 =>
                  LegsFrom(ps, a, five) /\ Len(five) = 5 /\ Engine!RulesHold(five, d, structure)
  BY <1>1, <1>3, BuiltIs DEF BuiltFor
<1>6. s.waves = built.waves /\ s.structure = structure /\ s.direction = d /\ s.probability = prob
  <2> HIDE DEF alive, built, prob, structure
  <2> QED BY <1>2
<1> HIDE DEF s, built, structure
<1>7. Len(built.waves) >= 4 => Engine!Legal(built.waves, d, structure)
  <2> HAVE Len(built.waves) >= 4
  <2>1. PICK four, five :
            /\ LegsFrom(ps, a, four) /\ Len(four) = 4 /\ Engine!RulesHold(four, d, structure)
            /\ Len(built.waves) >= 5 =>
                  LegsFrom(ps, a, five) /\ Len(five) = 5 /\ Engine!RulesHold(five, d, structure)
    BY <1>5
  <2> QED BY <1>4, <1>5, <2>1, LegalCount
<1>8. prob \in Int
  BY <1>1, <1>3, <1>5, EngineScores
<1>9. GoodCount(ps, d, s)
  BY <1>5, <1>6, <1>7 DEF GoodCount
<1> QED BY <1>6, <1>8, <1>9 DEF s

LEMMA EngineCardinality == \A S : Engine!Cardinality(S) = Cardinality(S)
BY DEF Engine!Cardinality, Cardinality

LEMMA Places ==
  ASSUME NEW p \in Int, NEW q \in Int, NEW u \in 1..3, NEW v \in 1..3, 3 * p + u = 3 * q + v
  PROVE  p = q /\ u = v
OBVIOUS

LEMMA Outranking ==
  ASSUME NEW U, \A s \in U : s.probability \in Int /\ s.order \in Int,
         \A s, t \in U : s.order = t.order => s = t
  PROVE  /\ \A s \in U : ~Engine!Outranks(s, s)
         /\ \A s, t \in U : s # t => Engine!Outranks(s, t) \/ Engine!Outranks(t, s)
         /\ \A s, t, u \in U : Engine!Outranks(s, t) /\ Engine!Outranks(t, u) => Engine!Outranks(s, u)
BY DEF Engine!Outranks

\* Every survivor is a candidate that is alive.
LEMMA SurvivorsAre ==
  ASSUME NEW ps, Alternating(ps), NEW d \in {1, -1}
  PROVE  LET sv == Engine!Survivors(ps, d)
         IN  /\ List(sv) /\ Len(sv) \in Nat /\ DOMAIN sv = 1..Len(sv)
             /\ \A i \in 1..Len(sv) : GoodCount(ps, d, sv[i])
<1> DEFINE C == Engine!Candidates(ps, d)
           A == Engine!Anchors(ps, d)
           alive == {s \in C : s.alive}
           U == {s \in alive : ~ \E t \in alive : t.waves = s.waves /\ Engine!Outranks(t, s)}
           R == {x \in U \X U : Engine!Outranks(x[1], x[2])}
           M == Engine!Least(Engine!MaxScenarios, Engine!Cardinality(U))
           sv == [i \in 1..M |->
                    CHOOSE s \in U : Engine!Cardinality({t \in U : Engine!Outranks(t, s)}) = i - 1]
<1>1. PivotsAt(ps)
  BY DEF Alternating
<1>2. C = {CountFor(ps, d, x[1], x[2]) : x \in A \X (1..3)}
  BY CandidatesAre
<1>3. IsFiniteSet(A) /\ A \subseteq 1..Len(ps) - 1 /\ \A a \in A : ps[a].kind = -d
  BY <1>1, AnchorsAre
<1>4. Engine!Survivors(ps, d) = sv
  BY Zenon DEF Engine!Survivors
<1> HIDE DEF A
<1>5. IsFiniteSet(C)
  <2>1. IsFiniteSet(1..3)
    <3>1. 1 \in Int /\ 3 \in Int
      OBVIOUS
    <3> QED BY <3>1, FS_Interval, Zenon
  <2>2. IsFiniteSet(A \X (1..3))
    BY <1>3, <2>1, FS_Product
  <2> DEFINE f == [x \in A \X (1..3) |-> CountFor(ps, d, x[1], x[2])]
  <2>3. C = {f[x] : x \in A \X (1..3)}
    BY <1>2
  <2>4. f \in Surjection(A \X (1..3), C)
    BY <2>3 DEF Surjection
  <2> HIDE DEF f
  <2> QED BY <2>2, <2>4, FS_Surjection
<1> HIDE DEF C
<1>6. IsFiniteSet(U) /\ U \subseteq C /\ \A s \in U : s.alive
  <2>1. U \subseteq C /\ \A s \in U : s.alive
    OBVIOUS
  <2> HIDE DEF U
  <2> QED BY <1>5, <2>1, FS_Subset
<1> HIDE DEF U
<1>7. ASSUME NEW s \in U
      PROVE  GoodCount(ps, d, s) /\ s.probability \in Int /\ s.order \in Int
  <2>1. PICK x \in A \X (1..3) : s = CountFor(ps, d, x[1], x[2])
    BY <1>2, <1>6
  <2>2. x[1] \in 1..Len(ps) - 1 /\ ps[x[1]].kind = -d /\ x[2] \in 1..3 /\ s.alive
    BY <1>3, <1>6
  <2>3. GoodCount(ps, d, s) /\ s.probability \in Int
    BY <2>1, <2>2, AliveIsGood
  <2>4. s.order = 3 * x[1] + x[2]
    BY <2>1 DEF CountFor
  <2> QED BY <2>2, <2>3, <2>4
<1>8. ASSUME NEW s \in U, NEW t \in U, s.order = t.order
      PROVE  s = t
  <2>1. PICK x \in A \X (1..3) : s = CountFor(ps, d, x[1], x[2])
    BY <1>2, <1>6
  <2>2. PICK y \in A \X (1..3) : t = CountFor(ps, d, y[1], y[2])
    BY <1>2, <1>6
  <2>3. s.order = 3 * x[1] + x[2] /\ t.order = 3 * y[1] + y[2]
    BY <2>1, <2>2 DEF CountFor
  <2>4. x[1] \in Int /\ y[1] \in Int /\ x[2] \in 1..3 /\ y[2] \in 1..3
    BY <1>3
  <2>5. x[1] = y[1] /\ x[2] = y[2]
    <3>1. 3 * x[1] + x[2] = 3 * y[1] + y[2]
      BY <1>8, <2>3
    <3> QED BY <2>4, <3>1, Places
  <2> QED BY <2>1, <2>2, <2>5
<1>9. /\ \A s \in U : <<s, s>> \notin R
      /\ \A s, t \in U : s # t => <<s, t>> \in R \/ <<t, s>> \in R
      /\ \A s, t, u \in U : <<s, t>> \in R /\ <<t, u>> \in R => <<s, u>> \in R
  <2>1. \A s, t \in U : <<s, t>> \in R <=> Engine!Outranks(s, t)
    OBVIOUS
  <2> HIDE DEF R
  <2>2. \A s \in U : ~Engine!Outranks(s, s)
    BY <1>7, <1>8, Outranking
  <2>3. \A s, t \in U : s # t => Engine!Outranks(s, t) \/ Engine!Outranks(t, s)
    BY <1>7, <1>8, Outranking
  <2>4. \A s, t, u \in U : Engine!Outranks(s, t) /\ Engine!Outranks(t, u) => Engine!Outranks(s, u)
    BY <1>7, <1>8, Outranking
  <2> QED BY <2>1, <2>2, <2>3, <2>4, Zenon
<1>10. /\ Cardinality(U) \in Nat
       /\ \A i \in 1..Cardinality(U) : \E s \in U : Cardinality({t \in U : <<t, s>> \in R}) = i - 1
  <2> HIDE DEF R
  <2> QED BY <1>6, <1>9, Ranked
<1>11. \A s \in U : {t \in U : <<t, s>> \in R} = {t \in U : Engine!Outranks(t, s)}
  OBVIOUS
<1>12. M \in Nat /\ M <= Cardinality(U)
  BY <1>10, EngineCardinality DEF Engine!Least, Engine!MaxScenarios
<1> HIDE DEF M, R
<1>13. ASSUME NEW i \in 1..M
       PROVE  sv[i] \in U
  <2>1. i \in 1..Cardinality(U)
    BY <1>10, <1>12, <1>13
  <2>2. \E s \in U : Engine!Cardinality({t \in U : Engine!Outranks(t, s)}) = i - 1
    BY <1>10, <1>11, <2>1, EngineCardinality
  <2>3. sv[i] = CHOOSE s \in U : Engine!Cardinality({t \in U : Engine!Outranks(t, s)}) = i - 1
    BY <1>13
  <2> HIDE DEF sv
  <2> QED BY <2>2, <2>3
<1>14. Len(sv) = M /\ DOMAIN sv = 1..M /\ List(sv)
  <2> HIDE DEF sv
  <2>1. sv \in Seq(U)
    <3>1. sv \in [1..M -> U]
      <4> DEFINE e(i) == CHOOSE s \in U :
                             Engine!Cardinality({t \in U : Engine!Outranks(t, s)}) = i - 1
      <4>2. sv = [i \in 1..M |-> e(i)]
        BY Zenon DEF sv
      <4> HIDE DEF e
      <4>1. DOMAIN sv = 1..M /\ sv = [i \in 1..M |-> sv[i]]
        BY <4>2
      <4> QED BY <1>13, <4>1
    <3> QED BY <1>12, <3>1
  <2>2. DOMAIN sv = 1..M
    BY DEF sv
  <2> QED BY <1>12, <2>1, <2>2, LenProperties DEF List
<1> HIDE DEF sv
<1>15. \A i \in 1..Len(sv) : GoodCount(ps, d, sv[i])
  BY <1>7, <1>13, <1>14
<1> QED BY <1>4, <1>12, <1>14, <1>15

-----------------------------------------------------------------------------
(* The detector: its pivots alternate, and the candidate that is tracked   *)
(* lies beyond the last of them.                                           *)

Series(ps) ==
    /\ Alternating(ps)
    /\ \A i, j \in 1..Len(ps) : i < j => ps[i].at < ps[j].at

\* A pivot that may follow another.
Follows(p, q) ==
    /\ p.kind = -q.kind /\ p.at < q.at
    /\ p.kind = 1 => p.price > q.price
    /\ p.kind = -1 => p.price < q.price

LEMMA SeriesGrows ==
  ASSUME NEW ps, Series(ps), NEW p \in PivotRecords,
         ps = <<>> \/ Follows(ps[Len(ps)], p)
  PROVE  Series(Append(ps, p))
<1> DEFINE n == Len(ps)
           qs == Append(ps, p)
<1>1. ps \in Seq(PivotRecords) /\ n \in Nat
  BY DEF Series, Alternating, PivotsAt
<1>2. /\ qs \in Seq(PivotRecords) /\ Len(qs) = n + 1 /\ qs[n + 1] = p
      /\ \A i \in 1..n : qs[i] = ps[i]
  BY <1>1, AppendProperties
<1>3. n = 0 \/ Follows(ps[n], p)
  OBVIOUS
<1>4. \A i \in 1..n : ps[i].at \in Nat
  <2> TAKE i \in 1..n
  <2>1. ps[i] \in PivotRecords
    BY <1>1
  <2> QED BY <2>1 DEF PivotRecords
<1>5. p.at \in Nat
  BY DEF PivotRecords
<1>6. \A i, j \in 1..n : i < j => ps[i].at < ps[j].at
  BY DEF Series
<1>7. \A i \in 1..n - 1 : Follows(ps[i], ps[i + 1])
  BY DEF Series, Alternating, Follows
<1> HIDE DEF n, qs
<1>8. \A i, j \in 1..Len(qs) : i < j => qs[i].at < qs[j].at
  <2> SUFFICES ASSUME NEW i \in 1..n + 1, NEW j \in 1..n + 1, i < j PROVE qs[i].at < qs[j].at
    BY <1>2
  <2>1. CASE j = n + 1
    <3>1. i \in 1..n /\ n \in 1..n /\ n # 0
      BY <1>1, <2>1
    <3>2. ps[n].at < p.at
      BY <1>3, <3>1 DEF Follows
    <3>3. ps[i].at < p.at
      <4>1. CASE i = n
        BY <3>2, <4>1
      <4>2. CASE i < n
        <5>1. ps[i].at < ps[n].at
          BY <1>6, <3>1, <4>2
        <5> QED BY <1>4, <1>5, <3>1, <3>2, <5>1
      <4> QED BY <1>1, <3>1, <4>1, <4>2
    <3> QED BY <1>2, <2>1, <3>1, <3>3
  <2>2. CASE j # n + 1
    <3>1. i \in 1..n /\ j \in 1..n
      BY <1>1, <2>2
    <3> QED BY <1>2, <1>6, <3>1
  <2> QED BY <2>1, <2>2
<1>9. \A i \in 1..Len(qs) - 1 : Follows(qs[i], qs[i + 1])
  <2> SUFFICES ASSUME NEW i \in 1..n PROVE Follows(qs[i], qs[i + 1])
    BY <1>1, <1>2
  <2>1. CASE i = n
    <3>1. n # 0
      BY <1>1
    <3> QED BY <1>2, <1>3, <2>1, <3>1
  <2>2. CASE i # n
    <3>1. i \in 1..n - 1 /\ i + 1 \in 1..n
      BY <1>1, <2>2
    <3> QED BY <1>2, <1>7, <3>1
  <2> QED BY <2>1, <2>2
<1>10. Alternating(qs)
  BY <1>2, <1>9 DEF Alternating, PivotsAt, Follows
<1> QED BY <1>8, <1>10 DEF Series, qs

\* A reversal of some percent is a reversal.
LEMMA ReversalMoves ==
  ASSUME NEW c \in Shapes, NEW x, x.price \in Nat \ {0}
  PROVE  /\ Engine!Reversed(1, x, c) => c.low < x.price
         /\ Engine!Reversed(-1, x, c) => x.price < c.high
<1>1. Deviation \in Nat \ {0} /\ c.low \in Nat /\ c.high \in Nat
  BY ShapesAssumption
<1> DEFINE y == x.price
           l == c.low
           h == c.high
           m == Deviation * y
<1>2. y \in Nat \ {0} /\ l \in Nat /\ h \in Nat
  BY <1>1
<1>3. m \in Nat \ {0}
  BY <1>1, <1>2
<1>4. Engine!Reversed(1, x, c) => 100 * (y - l) >= m
  <2>1. 1 * (y - l) = y - l
    BY <1>2
  <2> QED BY <2>1 DEF Engine!Reversed
<1>5. Engine!Reversed(-1, x, c) => 100 * (h - y) >= m
  <2> DEFINE far(k) == IF k = 1 THEN l ELSE h
  <2>1. (-1) * (y - h) = h - y /\ far(-1) = h
    BY <1>2
  <2>2. Engine!Reversed(-1, x, c) => 100 * ((-1) * (y - far(-1))) >= m
    BY Zenon DEF Engine!Reversed
  <2> HIDE DEF far
  <2> QED BY <2>1, <2>2
<1> HIDE DEF m, y, l, h
<1>6. Engine!Reversed(1, x, c) => l < y
  BY <1>2, <1>3, <1>4
<1>7. Engine!Reversed(-1, x, c) => y < h
  BY <1>2, <1>3, <1>5
<1> QED BY <1>6, <1>7 DEF y, l, h

\* An extreme of one of the n candles seen so far.
Extreme(x, n) == x.price \in Nat \ {0} /\ x.at \in 1..n

DetectorInv ==
    /\ Len(candles) \in Nat /\ List(candles) /\ tracking \in {0, 1, -1} /\ Series(pivots)
    /\ tracking = 0 <=> pivots = <<>>
    /\ candles = <<>> => tracking = 0
    /\ candles # <<>> => Extreme(high, Len(candles)) /\ Extreme(low, Len(candles))
    /\ tracking = -1 => /\ pivots[Len(pivots)].kind = 1
                        /\ low.price < pivots[Len(pivots)].price
                        /\ pivots[Len(pivots)].at < low.at
    /\ tracking = 1 => /\ pivots[Len(pivots)].kind = -1
                       /\ pivots[Len(pivots)].price < high.price
                       /\ pivots[Len(pivots)].at < high.at

LEMMA CandleSeen ==
  ASSUME DetectorInv, NEW c \in Shapes, candles' = Append(candles, c)
  PROVE  Len(candles') = Len(candles) + 1 /\ List(candles') /\ candles' # <<>>
<1>1. PICK S : candles \in Seq(S)
  BY DEF DetectorInv, List
<1> DEFINE T == S \cup {c}
<1>2. candles \in Seq(T) /\ c \in T
  BY <1>1, SeqMonotone
<1> HIDE DEF T
<1>3. candles' \in Seq(T) /\ Len(candles') = Len(candles) + 1 /\ Len(candles) \in Nat
  BY <1>2, AppendProperties, LenProperties
<1>4. candles' # <<>>
  BY <1>3
<1> QED BY <1>3, <1>4 DEF List

LEMMA CandleShape ==
  ASSUME NEW c \in Shapes
  PROVE  c.low \in Nat \ {0} /\ c.high \in Nat \ {0}
BY ShapesAssumption

\* A candle without a pivot only moves the candidates outwards.
LEMMA ExtendsInv ==
  ASSUME DetectorInv, NEW c \in Shapes, Engine!CandleExtends(c)
  PROVE  DetectorInv'
<1> DEFINE n == Len(candles)
           l == pivots[Len(pivots)]
<1>1. /\ candles' = Append(candles, c) /\ UNCHANGED <<tracking, pivots>>
      /\ high' = IF n + 1 = 1 THEN Engine!Candidate(c.high, n + 1) ELSE Engine!Higher(c, n + 1)
      /\ low' = IF n + 1 = 1 THEN Engine!Candidate(c.low, n + 1) ELSE Engine!Lower(c, n + 1)
  BY DEF Engine!CandleExtends, Engine!ExtendExtremes, Engine!Now
<1>2. Len(candles') = n + 1 /\ List(candles') /\ candles' # <<>> /\ n \in Nat
  BY <1>1, CandleSeen DEF DetectorInv
<1>3. c.low \in Nat \ {0} /\ c.high \in Nat \ {0}
  BY CandleShape
<1>4. CASE n = 0
  <2>1. candles = <<>>
    <3>1. PICK S : candles \in Seq(S)
      BY DEF DetectorInv, List
    <3> QED BY <1>4, <3>1
  <2>2. tracking' = 0
    BY <1>1, <2>1 DEF DetectorInv
  <2>3. high' = Engine!Candidate(c.high, n + 1) /\ low' = Engine!Candidate(c.low, n + 1)
    BY <1>1, <1>4
  <2>4. Extreme(high', n + 1) /\ Extreme(low', n + 1)
    BY <1>2, <1>3, <2>3 DEF Extreme, Engine!Candidate
  <2> QED BY <1>1, <1>2, <2>2, <2>4 DEF DetectorInv
<1>5. CASE n # 0
  <2>1. candles # <<>>
    BY <1>5
  <2>2. Extreme(high, n) /\ Extreme(low, n)
    BY <2>1 DEF DetectorInv
  <2>3. high' = Engine!Higher(c, n + 1) /\ low' = Engine!Lower(c, n + 1)
    BY <1>1, <1>2, <1>5
  <2>4. Extreme(high', n + 1) /\ high.price <= high'.price /\ high.at <= high'.at
    <3>1. CASE high' = high
      BY <1>2, <2>2, <3>1 DEF Extreme
    <3>2. CASE high' = Engine!Candidate(c.high, n + 1) /\ c.high > high.price
      <4>1. high'.price = c.high /\ high'.at = n + 1
        BY <3>2 DEF Engine!Candidate
      <4> QED BY <1>2, <1>3, <2>2, <3>2, <4>1 DEF Extreme
    <3> QED BY <2>3, <3>1, <3>2 DEF Engine!Higher
  <2>5. Extreme(low', n + 1) /\ low'.price <= low.price /\ low.at <= low'.at
    <3>1. CASE low' = low
      BY <1>2, <2>2, <3>1 DEF Extreme
    <3>2. CASE low' = Engine!Candidate(c.low, n + 1) /\ c.low < low.price
      <4>1. low'.price = c.low /\ low'.at = n + 1
        BY <3>2 DEF Engine!Candidate
      <4> QED BY <1>2, <1>3, <2>2, <3>2, <4>1 DEF Extreme
    <3> QED BY <2>3, <3>1, <3>2 DEF Engine!Lower
  <2>6. pivots # <<>> => l.price \in Int /\ l.at \in Int
    <3>1. pivots \in Seq(PivotRecords)
      BY DEF DetectorInv, Series, Alternating, PivotsAt
    <3>2. pivots # <<>> => l \in PivotRecords
      BY <3>1
    <3> QED BY <3>2 DEF PivotRecords
  <2>7. tracking = -1 => l.kind = 1 /\ low'.price < l.price /\ l.at < low'.at
    <3> HAVE tracking = -1
    <3>1. pivots # <<>> /\ l.kind = 1 /\ low.price < l.price /\ l.at < low.at
      BY DEF DetectorInv
    <3> HIDE DEF l
    <3> QED BY <2>2, <2>5, <2>6, <3>1 DEF Extreme
  <2>8. tracking = 1 => l.kind = -1 /\ l.price < high'.price /\ l.at < high'.at
    <3> HAVE tracking = 1
    <3>1. pivots # <<>> /\ l.kind = -1 /\ l.price < high.price /\ l.at < high.at
      BY DEF DetectorInv
    <3> HIDE DEF l
    <3> QED BY <2>2, <2>4, <2>6, <3>1 DEF Extreme
  <2> QED BY <1>1, <1>2, <2>4, <2>5, <2>7, <2>8 DEF DetectorInv
<1> QED BY <1>4, <1>5

\* A pivot continues the series, and the other side is tracked beyond it.
LEMMA ConfirmsInv ==
  ASSUME DetectorInv, NEW c \in Shapes, NEW k \in {1, -1}, Engine!CandleConfirms(c, k)
  PROVE  DetectorInv' /\ \E p \in PivotRecords : pivots' = Append(pivots, p) /\ p.kind = k
<1> DEFINE n == Len(candles)
           x == IF k = 1 THEN high ELSE low
           p == Engine!PivotOf(k, x, n + 1)
<1>1. /\ n > 0 /\ candles' = Append(candles, c)
      /\ Engine!Confirms(k, c, n + 1) /\ tracking' = -k
      /\ high' = Engine!Candidate(c.high, n + 1) /\ low' = Engine!Candidate(c.low, n + 1)
      /\ pivots' = Append(pivots, Engine!PivotOf(k, IF k = 1 THEN Engine!Higher(c, n + 1)
                                                    ELSE Engine!Lower(c, n + 1), n + 1))
  BY DEF Engine!CandleConfirms, Engine!ConfirmPivot, Engine!Now
<1>2. Len(candles') = n + 1 /\ List(candles') /\ candles' # <<>> /\ n \in Nat
  BY <1>1, CandleSeen DEF DetectorInv
<1>3. c.low \in Nat \ {0} /\ c.high \in Nat \ {0}
  BY CandleShape
<1>4. tracking \in {0, k} /\ Engine!Reversed(k, x, c) /\ pivots' = Append(pivots, p)
  BY <1>1 DEF Engine!Confirms
<1>5. candles # <<>>
  BY <1>1
<1>6. Extreme(high, n) /\ Extreme(low, n) /\ Extreme(x, n)
  BY <1>5 DEF DetectorInv
<1>7. x.price \in Nat \ {0} /\ x.at \in 1..n
  BY <1>6 DEF Extreme
<1>8. p \in PivotRecords /\ p.kind = k /\ p.at = x.at /\ p.price = x.price
  BY <1>2, <1>7 DEF PivotRecords, Engine!PivotOf
<1>9. pivots # <<>> => Follows(pivots[Len(pivots)], p)
  <2> HAVE pivots # <<>>
  <2>1. tracking = k
    BY <1>4 DEF DetectorInv
  <2>2. CASE k = 1
    BY <1>8, <2>1, <2>2 DEF DetectorInv, Follows
  <2>3. CASE k = -1
    BY <1>8, <2>1, <2>3 DEF DetectorInv, Follows
  <2> QED BY <2>2, <2>3
<1>10. Series(pivots) /\ pivots \in Seq(PivotRecords)
  BY DEF DetectorInv, Series, Alternating, PivotsAt
<1>11. Series(pivots')
  BY <1>4, <1>8, <1>9, <1>10, SeriesGrows
<1>12. pivots' # <<>> /\ pivots'[Len(pivots')] = p
  <2>1. Len(pivots') = Len(pivots) + 1 /\ pivots'[Len(pivots) + 1] = p /\ Len(pivots) \in Nat
        /\ pivots' \in Seq(PivotRecords)
    BY <1>4, <1>8, <1>10, AppendProperties, LenProperties
  <2> QED BY <2>1
<1>13. /\ high'.price = c.high /\ low'.price = c.low /\ high'.at = n + 1 /\ low'.at = n + 1
  BY <1>1 DEF Engine!Candidate
<1>14. Extreme(high', n + 1) /\ Extreme(low', n + 1)
  BY <1>2, <1>3, <1>13 DEF Extreme
<1>15. k = 1 => c.low < x.price
  BY <1>4, <1>7, ReversalMoves
<1>16. k = -1 => x.price < c.high
  BY <1>4, <1>7, ReversalMoves
<1>17. x.at < n + 1
  BY <1>2, <1>7
<1> HIDE DEF n, x, p
<1>18. tracking' \in {0, 1, -1} /\ tracking' # 0 /\ (tracking' = 1 => k = -1) /\ (tracking' = -1 => k = 1)
  BY <1>1
<1>19. tracking' = -1 => /\ p.kind = 1 /\ low'.price < p.price /\ p.at < low'.at
  BY <1>8, <1>13, <1>15, <1>17, <1>18
<1>20. tracking' = 1 => /\ p.kind = -1 /\ p.price < high'.price /\ p.at < high'.at
  BY <1>8, <1>13, <1>16, <1>17, <1>18
<1> QED BY <1>2, <1>4, <1>8, <1>11, <1>12, <1>14, <1>18, <1>19, <1>20 DEF DetectorInv, n

-----------------------------------------------------------------------------
(* The chain: legs between neighbouring pivots, each after the other.      *)

LiesOn(ps, w) ==
    \E j \in 2..Len(ps) : ps[j - 1].at = w.from /\ ps[j].at = w.to

ChainOk(ch, ps) ==
    /\ List(ch) /\ \A i \in 1..Len(ch) : LiesOn(ps, ch[i])
    /\ \A i, j \in 1..Len(ch) : i < j => ch[i].to <= ch[j].from

\* What lies between pivots does so when another is found.
LEMMA StillLies ==
  ASSUME NEW ps \in Seq(PivotRecords), NEW p \in PivotRecords, NEW w, LiesOn(ps, w)
  PROVE  LiesOn(Append(ps, p), w)
<1>1. PICK j \in 2..Len(ps) : ps[j - 1].at = w.from /\ ps[j].at = w.to
  BY DEF LiesOn
<1> DEFINE qs == Append(ps, p)
<1>2. Len(ps) \in Nat /\ Len(qs) = Len(ps) + 1 /\ \A i \in 1..Len(ps) : qs[i] = ps[i]
  BY AppendProperties, LenProperties
<1> HIDE DEF qs
<1>3. j \in 2..Len(qs) /\ j - 1 \in 1..Len(ps) /\ j \in 1..Len(ps)
  BY <1>2
<1>4. qs[j - 1].at = w.from /\ qs[j].at = w.to
  BY <1>1, <1>2, <1>3
<1> QED BY <1>3, <1>4 DEF LiesOn, qs

LEMMA LiesInTime ==
  ASSUME NEW ps, Series(ps), NEW w, LiesOn(ps, w)
  PROVE  w.from \in Nat /\ w.to \in Nat /\ w.from < w.to
<1>1. PICK j \in 2..Len(ps) : ps[j - 1].at = w.from /\ ps[j].at = w.to
  BY DEF LiesOn
<1>2. ps \in Seq(PivotRecords) /\ Len(ps) \in Nat
  BY DEF Series, Alternating, PivotsAt
<1>3. j - 1 \in 1..Len(ps) /\ j \in 1..Len(ps) /\ j - 1 < j
  BY <1>2
<1>4. ps[j - 1] \in PivotRecords /\ ps[j] \in PivotRecords
  BY <1>2, <1>3
<1>5. ps[j - 1].at < ps[j].at
  BY <1>3 DEF Series
<1> QED BY <1>1, <1>4, <1>5 DEF PivotRecords

\* The waves of a count lie on the pivots, one after the other.
LEMMA LegsInTime ==
  ASSUME NEW ps, Series(ps), NEW a \in 1..Len(ps) - 1, NEW ws, LegsFrom(ps, a, ws)
  PROVE  ChainOk(ws, ps)
<1> DEFINE n == Len(ws)
<1>1. ps \in Seq(PivotRecords) /\ Len(ps) \in Nat /\ a \in Nat
  BY DEF Series, Alternating, PivotsAt
<1>2. List(ws) /\ n \in Nat /\ a + n <= Len(ps)
  <2>1. List(ws) /\ n \in 1..8 /\ a + n <= Len(ps)
    BY DEF LegsFrom
  <2> QED BY <2>1
<1>3. \A m \in 1..n : ws[m].from = ps[a + m - 1].at /\ ws[m].to = ps[a + m].at
  BY DEF LegsFrom
<1> HIDE DEF n
<1>4. ASSUME NEW m \in 1..n PROVE LiesOn(ps, ws[m])
  <2> DEFINE j == a + m
  <2>1. j \in 2..Len(ps)
    BY <1>1, <1>2
  <2>2. ps[j - 1].at = ws[m].from /\ ps[j].at = ws[m].to
    BY <1>3
  <2> HIDE DEF j
  <2> QED BY <2>1, <2>2 DEF LiesOn
<1>5. ASSUME NEW l \in 1..n, NEW m \in 1..n, l < m PROVE ws[l].to <= ws[m].from
  <2> DEFINE i == a + l
             j == a + m - 1
  <2>1. i \in 1..Len(ps) /\ j \in 1..Len(ps) /\ i <= j
    BY <1>1, <1>2, <1>5
  <2>2. ws[l].to = ps[i].at /\ ws[m].from = ps[j].at
    BY <1>3
  <2> HIDE DEF i, j
  <2>3. CASE i = j
    <3>1. ps[i] \in PivotRecords
      BY <1>1, <2>1
    <3> QED BY <2>2, <2>3, <3>1 DEF PivotRecords
  <2>4. CASE i < j
    <3>1. ps[i].at < ps[j].at
      BY <2>1, <2>4 DEF Series
    <3>2. ps[i] \in PivotRecords /\ ps[j] \in PivotRecords
      BY <1>1, <2>1
    <3> QED BY <2>2, <3>1, <3>2 DEF PivotRecords
  <2> QED BY <1>1, <2>1, <2>3, <2>4
<1> QED BY <1>2, <1>4, <1>5 DEF ChainOk, n

\* The first waves of a chain are one.
LEMMA ShorterChain ==
  ASSUME NEW ps, NEW ch, ChainOk(ch, ps), NEW n \in 0..Len(ch)
  PROVE  ChainOk(SubSeq(ch, 1, n), ps) /\ Len(SubSeq(ch, 1, n)) = n
<1>1. PICK S : ch \in Seq(S)
  BY DEF ChainOk, List
<1> DEFINE t == SubSeq(ch, 1, n)
<1>2. Len(ch) \in Nat /\ n \in Nat /\ n <= Len(ch)
  BY <1>1
<1>3. /\ t \in Seq(S) /\ Len(t) = n
      /\ \A i \in 1..n : t[i] = ch[i] /\ i \in 1..Len(ch)
  BY <1>1, <1>2
<1> HIDE DEF t
<1>4. \A i \in 1..Len(t) : LiesOn(ps, t[i])
  BY <1>3 DEF ChainOk
<1>5. \A i, j \in 1..Len(t) : i < j => t[i].to <= t[j].from
  BY <1>3 DEF ChainOk
<1> QED BY <1>3, <1>4, <1>5 DEF ChainOk, List, t

\* A selection of a chain is one.
LEMMA SparserChain ==
  ASSUME NEW ps, NEW ch, ChainOk(ch, ps), NEW P \in SUBSET (1..Len(ch))
  PROVE  /\ ChainOk(Picked(ch, P), ps)
         /\ \A k \in 1..Len(Picked(ch, P)) : \E i \in P : Picked(ch, P)[k] = ch[i]
<1>1. PICK S : ch \in Seq(S)
  BY DEF ChainOk, List
<1> DEFINE t == Picked(ch, P)
           N == Cardinality(P)
<1>2. /\ t \in Seq(S) /\ Len(t) = N
      /\ \A k \in 1..N : Nth(P, k) \in P /\ t[k] = ch[Nth(P, k)]
      /\ \A k, l \in 1..N : k < l => Nth(P, k) < Nth(P, l)
  BY <1>1, PickedElements
<1> HIDE DEF t, N
<1>3. \A k \in 1..N : LiesOn(ps, t[k])
  <2> TAKE k \in 1..N
  <2>1. Nth(P, k) \in 1..Len(ch) /\ t[k] = ch[Nth(P, k)]
    BY <1>2
  <2> QED BY <2>1 DEF ChainOk
<1>4. \A k, l \in 1..N : k < l => t[k].to <= t[l].from
  <2> SUFFICES ASSUME NEW k \in 1..N, NEW l \in 1..N, k < l PROVE t[k].to <= t[l].from
    OBVIOUS
  <2>1. /\ Nth(P, k) \in 1..Len(ch) /\ t[k] = ch[Nth(P, k)]
        /\ Nth(P, l) \in 1..Len(ch) /\ t[l] = ch[Nth(P, l)] /\ Nth(P, k) < Nth(P, l)
    BY <1>2
  <2> QED BY <2>1 DEF ChainOk
<1>5. ChainOk(t, ps)
  BY <1>2, <1>3, <1>4 DEF ChainOk, List
<1>6. \A k \in 1..Len(t) : \E i \in P : t[k] = ch[i]
  BY <1>2
<1> QED BY <1>5, <1>6 DEF t

\* One chain after another is one, if the first ends where the second begins.
LEMMA JoinedChains ==
  ASSUME NEW ps, Series(ps), NEW s, ChainOk(s, ps), NEW t, ChainOk(t, ps), Len(t) >= 1,
         \A i \in 1..Len(s) : s[i].to <= t[1].from
  PROVE  ChainOk(s \o t, ps)
<1>1. PICK A : s \in Seq(A)
  BY DEF ChainOk, List
<1>2. PICK B : t \in Seq(B)
  BY DEF ChainOk, List
<1> DEFINE u == s \o t
           m == Len(s)
           n == Len(t)
<1>3. s \in Seq(A \cup B) /\ t \in Seq(A \cup B)
  BY <1>1, <1>2, SeqMonotone
<1>4. /\ u \in Seq(A \cup B) /\ Len(u) = m + n /\ m \in Nat /\ n \in Nat /\ n >= 1
      /\ \A i \in 1..m + n : u[i] = IF i <= m THEN s[i] ELSE t[i - m]
  BY <1>3, ConcatProperties, LenProperties
<1> HIDE DEF u, m, n
<1>5. ASSUME NEW i \in 1..m + n
      PROVE  \/ i \in 1..m /\ u[i] = s[i]
             \/ i - m \in 1..n /\ u[i] = t[i - m]
  BY <1>4
<1>6. \A i \in 1..Len(u) : LiesOn(ps, u[i])
  BY <1>4, <1>5 DEF ChainOk, m, n
<1>7. ASSUME NEW i \in 1..m + n, NEW j \in 1..m + n, i < j
      PROVE  u[i].to <= u[j].from
  <2>1. CASE j <= m
    <3>1. i \in 1..m /\ j \in 1..m /\ u[i] = s[i] /\ u[j] = s[j]
      BY <1>4, <1>7, <2>1
    <3> QED BY <1>7, <3>1 DEF ChainOk, m
  <2>2. CASE i > m
    <3>1. /\ i - m \in 1..n /\ j - m \in 1..n /\ u[i] = t[i - m] /\ u[j] = t[j - m]
          /\ i - m < j - m
      BY <1>4, <1>7, <2>2
    <3> QED BY <3>1 DEF ChainOk, n
  <2>3. CASE i <= m /\ j > m
    <3> DEFINE l == j - m
    <3>1. i \in 1..m /\ l \in 1..n /\ 1 \in 1..n /\ u[i] = s[i] /\ u[j] = t[l]
      BY <1>4, <1>7, <2>3
    <3> HIDE DEF l
    <3>2. s[i].to <= t[1].from
      BY <3>1 DEF m
    <3>3. LiesOn(ps, s[i]) /\ LiesOn(ps, t[1]) /\ LiesOn(ps, t[l])
      BY <3>1 DEF ChainOk, m, n
    <3>4. s[i].to \in Nat /\ t[1].from \in Nat /\ t[1].to \in Nat /\ t[1].from < t[1].to /\ t[l].from \in Nat
      BY <3>3, LiesInTime
    <3>5. t[1].from <= t[l].from
      <4>1. CASE l = 1
        BY <3>4, <4>1
      <4>2. CASE 1 < l
        <5>1. t[1].to <= t[l].from
          BY <3>1, <4>2 DEF ChainOk, n
        <5> QED BY <3>4, <5>1
      <4> QED BY <3>1, <4>1, <4>2
    <3> QED BY <3>1, <3>2, <3>4, <3>5
  <2> QED BY <1>4, <2>1, <2>2, <2>3
<1> QED BY <1>4, <1>6, <1>7 DEF ChainOk, List, u

LEMMA EngineSelections == \A s, P : Engine!Picked(s, P) = Picked(s, P)
<1>1. \A P, k : Engine!Nth(P, k) = Nth(P, k)
  BY EngineCardinality DEF Engine!Nth, Nth
<1> QED BY <1>1, EngineCardinality, Zenon DEF Engine!Picked, Picked

\* The best survivor, without its last wave, replaces what it reaches back to.
LEMMA ExtendedOk ==
  ASSUME NEW ps, Series(ps), NEW old, ChainOk(old, ps), NEW d, NEW sv, List(sv),
         \A i \in 1..Len(sv) : GoodCount(ps, d, sv[i])
  PROVE  ChainOk(Engine!Extended(old, sv), ps)
<1> DEFINE ws == sv[1].waves
           completed == Engine!Front(ws)
           P == {i \in DOMAIN old : old[i].to <= completed[1].from}
<1>1. CASE sv = <<>> \/ (sv # <<>> /\ completed = <<>>)
  BY <1>1 DEF Engine!Extended
<1>2. CASE sv # <<>> /\ completed # <<>>
  <2>1. 1 \in 1..Len(sv)
    BY <1>2 DEF List
  <2>2. PICK a \in 1..Len(ps) - 1 : LegsFrom(ps, a, ws)
    BY <2>1 DEF GoodCount
  <2>3. ChainOk(ws, ps) /\ Len(ws) \in 1..8
    BY <2>2, LegsInTime DEF LegsFrom
  <2>4. completed = SubSeq(ws, 1, Len(ws) - 1)
    BY DEF Engine!Front
  <2>5. Len(ws) - 1 \in 0..Len(ws)
    <3> DEFINE n == Len(ws)
    <3>1. n \in 1..8
      BY <2>3
    <3> HIDE DEF n
    <3>2. n - 1 \in 0..n
      BY <3>1
    <3> QED BY <3>2 DEF n
  <2>6. ChainOk(completed, ps) /\ Len(completed) = Len(ws) - 1
    BY <2>3, <2>4, <2>5, ShorterChain
  <2>7. Len(completed) >= 1
    <3>1. PICK S : completed \in Seq(S)
      BY <2>6 DEF ChainOk, List
    <3> HIDE DEF completed
    <3> QED BY <1>2, <3>1
  <2>8. DOMAIN old = 1..Len(old)
    BY DEF ChainOk, List
  <2> HIDE DEF completed, ws
  <2>9. P \in SUBSET (1..Len(old)) /\ \A i \in P : old[i].to <= completed[1].from
    BY <2>8
  <2>10. Engine!Extended(old, sv) = Picked(old, P) \o completed
    BY <1>2, EngineSelections DEF Engine!Extended, Engine!Truncated, completed, ws
  <2> HIDE DEF P
  <2>11. /\ ChainOk(Picked(old, P), ps)
         /\ \A k \in 1..Len(Picked(old, P)) : \E i \in P : Picked(old, P)[k] = old[i]
    BY <2>9, SparserChain
  <2>12. \A k \in 1..Len(Picked(old, P)) : Picked(old, P)[k].to <= completed[1].from
    BY <2>9, <2>11
  <2> QED BY <2>6, <2>7, <2>10, <2>11, <2>12, JoinedChains
<1> QED BY <1>1, <1>2

-----------------------------------------------------------------------------
(* The engine.                                                             *)

EngineInv ==
    /\ DetectorInv /\ trend \in {0, 1, -1}
    /\ ChainOk(chain, pivots) /\ Engine!ScenariosAreLegal

LEMMA EngineStarts == Engine!Init => EngineInv
<1> SUFFICES ASSUME Engine!Init PROVE EngineInv
  OBVIOUS
<1>1. /\ candles = <<>> /\ tracking = 0 /\ pivots = <<>> /\ trend = 0
      /\ scenarios = <<>> /\ chain = <<>>
  BY DEF Engine!Init
<1>2. Series(<<>>) /\ ChainOk(<<>>, <<>>)
  BY DEF Series, Alternating, PivotsAt, ChainOk, List
<1>3. DetectorInv
  BY <1>1, <1>2 DEF DetectorInv, List
<1>4. Engine!ScenariosAreLegal
  BY <1>1 DEF Engine!ScenariosAreLegal
<1> QED BY <1>1, <1>2, <1>3, <1>4 DEF EngineInv

LEMMA EngineStep == EngineInv /\ Engine!Next => EngineInv'
<1> SUFFICES ASSUME EngineInv, Engine!Next PROVE EngineInv'
  OBVIOUS
<1>1. ASSUME NEW c \in Shapes, Engine!CandleExtends(c) PROVE EngineInv'
  <2>1. DetectorInv'
    BY <1>1, ExtendsInv DEF EngineInv
  <2>2. UNCHANGED <<pivots, trend, scenarios, chain>>
    BY <1>1 DEF Engine!CandleExtends, Engine!ExtendExtremes, Engine!structure, Engine!counts
  <2>3. Engine!ScenariosAreLegal'
    BY <2>2 DEF EngineInv, Engine!ScenariosAreLegal
  <2> QED BY <2>1, <2>2, <2>3 DEF EngineInv
<1>2. ASSUME NEW c \in Shapes, NEW k \in {1, -1}, Engine!CandleConfirms(c, k) PROVE EngineInv'
  <2> DEFINE d == IF trend' = 0 THEN 1 ELSE trend'
  <2>1. DetectorInv'
    BY <1>2, ConfirmsInv DEF EngineInv
  <2>2. PICK p \in PivotRecords : pivots' = Append(pivots, p) /\ p.kind = k
    BY <1>2, ConfirmsInv DEF EngineInv
  <2>3. /\ Engine!OnPivot(Engine!Last(pivots')) /\ scenarios' = Engine!Survivors(pivots', d)
        /\ chain' = Engine!Extended(chain, scenarios')
    BY <1>2 DEF Engine!CandleConfirms
  <2>4. Series(pivots') /\ Alternating(pivots') /\ pivots \in Seq(PivotRecords)
    BY <2>1 DEF DetectorInv, Series, EngineInv, Alternating, PivotsAt
  <2>5. Engine!Last(pivots') = p
    <3>1. Len(pivots') = Len(pivots) + 1 /\ pivots'[Len(pivots) + 1] = p
      BY <2>2, <2>4, AppendProperties
    <3> QED BY <3>1 DEF Engine!Last
  <2>6. trend' \in {0, 1, -1}
    BY <2>2, <2>3, <2>5 DEF Engine!OnPivot, EngineInv
  <2>7. d \in {1, -1}
    BY <2>6
  <2> HIDE DEF d
  <2>8. /\ List(scenarios') /\ DOMAIN scenarios' = 1..Len(scenarios')
        /\ \A i \in 1..Len(scenarios') : GoodCount(pivots', d, scenarios'[i])
    BY <2>3, <2>4, <2>7, SurvivorsAre
  <2>9. Engine!ScenariosAreLegal'
    BY <2>8 DEF Engine!ScenariosAreLegal, GoodCount
  <2>10. ChainOk(chain, pivots')
    <3>1. \A i \in 1..Len(chain) : LiesOn(pivots', chain[i])
      BY <2>2, <2>4, StillLies DEF EngineInv, ChainOk
    <3> QED BY <3>1 DEF EngineInv, ChainOk
  <2>11. ChainOk(chain', pivots')
    BY <2>3, <2>4, <2>8, <2>10, ExtendedOk
  <2> QED BY <2>1, <2>6, <2>9, <2>11 DEF EngineInv
<1> QED BY <1>1, <1>2 DEF Engine!Next, Engine!Kinds

LEMMA EngineStays ==
  EngineInv /\ [StudiesNext]_<<part, vars, engineOwn, sessionVars>> => EngineInv'
<1> SUFFICES ASSUME EngineInv, [StudiesNext]_<<part, vars, engineOwn, sessionVars>>
             PROVE  EngineInv'
  OBVIOUS
<1>1. CASE Engine!Next
  BY <1>1, EngineStep
<1>2. CASE UNCHANGED engineOwn
  <2>1. UNCHANGED <<candles, tracking, high, low, pivots, trend, scenarios, chain>>
    BY <1>2 DEF engineOwn
  <2>2. DetectorInv' /\ Engine!ScenariosAreLegal'
    BY <2>1 DEF EngineInv, DetectorInv, Engine!ScenariosAreLegal
  <2> QED BY <2>1, <2>2 DEF EngineInv
<1> QED BY <1>1, <1>2 DEF StudiesNext

\* Whatever the candles, and whatever the deviation, a scenario that survives
\* rebuild is a legal count of its own structure (scenario.py).
THEOREM CountsAreLegal == StudiesSpec => []ScenariosAreLegal
<1>1. StudiesInit => EngineInv
  BY EngineStarts DEF StudiesInit
<1>2. EngineInv => ScenariosAreLegal
  BY DEF EngineInv, ScenariosAreLegal
<1> QED BY <1>1, <1>2, EngineStays, PTL DEF StudiesSpec

\* Whatever the candles, the confirmed chain holds legs between neighbouring
\* pivots of the detector, no two of which overlap (_extend_confirmed_chain).
THEOREM ChainHolds == StudiesSpec => []ChainIsOneReading
<1>1. StudiesInit => EngineInv
  BY EngineStarts DEF StudiesInit
<1>2. EngineInv => ChainIsOneReading
  <2> SUFFICES ASSUME EngineInv PROVE ChainIsOneReading
    OBVIOUS
  <2>1. Len(chain) \in Nat /\ DOMAIN chain = 1..Len(chain)
    BY DEF EngineInv, ChainOk, List
  <2>2. \A i \in 1..Len(chain) - 1 : chain[i].to <= chain[i + 1].from
    <3> TAKE i \in 1..Len(chain) - 1
    <3>1. i \in 1..Len(chain) /\ i + 1 \in 1..Len(chain) /\ i < i + 1
      BY <2>1
    <3> QED BY <3>1 DEF EngineInv, ChainOk
  <2>3. \A i \in DOMAIN chain : LiesOn(pivots, chain[i])
    BY <2>1 DEF EngineInv, ChainOk
  <2> QED BY <2>2, <2>3 DEF ChainIsOneReading, Engine!ChainIsOneReading, LiesOn
<1> QED BY <1>1, <1>2, EngineStays, PTL DEF StudiesSpec
=============================================================================
