-------------------------- MODULE LeadViewsProofs --------------------------
(***************************************************************************)
(* What holds of the frame of one symbol for any number of callers, with   *)
(* and without force, and every interval and limit.  FramesInv is the      *)
(* inductive invariant: types, who holds the lock, that the frame is the   *)
(* last one made, and that who computes without force came an interval     *)
(* after it.  WallsInv is that of the walls: each book comes from the one  *)
(* before by one step, the mirror is one of them, and what was executed    *)
(* and removed is bounded by the steps that arrived.  StructureInv is      *)
(* that of the series of bars: each start once, in the order of time; and  *)
(* MinutesInv that the exchange's series is the newest bars of what was    *)
(* heard.                                                                  *)
(***************************************************************************)
EXTENDS LeadViews, SelectionProofs

FrameType == [at : Int, enabled : BOOLEAN, book : Nat]
ReaderType ==
    {Frames!Idle} \cup [step : {"waiting", "computing"}, now : Nat]
                  \cup [step : {"served"}, now : Nat, frame : FrameType]

Sample == [at : Nat, forced : BOOLEAN]

FramesTypes ==
    /\ now \in Nat /\ last \in [{"book", "trade", "ticker"} -> Nat] /\ synced \in BOOLEAN
    /\ frame \in FrameType
    /\ made \in Seq(Sample)
    /\ reader \in [Readers -> ReaderType]
    /\ lock \subseteq Readers

LockIsHeld == \A r \in Readers : reader[r].step = "computing" <=> lock = {r}

FrameIsLast ==
    IF made = <<>> THEN frame = Frames!None ELSE made[Len(made)].at = frame.at

\* The second look: what is computed without force is due.
ComputesWhenDue ==
    \A r \in Readers \ Forced :
        reader[r].step = "computing" => frame = Frames!None \/ reader[r].now - frame.at >= Interval

FrameIsFresh == frame.enabled => frame.at - frame.book <= BookLimit

FramesInv ==
    FramesTypes /\ LockIsHeld /\ FrameIsLast /\ ComputesWhenDue /\ FrameIsFresh
    /\ SampledOnce /\ ServedFrameIsFresh
-----------------------------------------------------------------------------
(* One lemma for each action of LeadFrames.                                *)

\* Nobody asks at the start.
LEMMA FramesStart == ViewsInit => FramesInv
<1> SUFFICES ASSUME ViewsInit
             PROVE  FramesInv
  OBVIOUS
<1>1. Frames!Init
  BY DEF ViewsInit
<1>2. FramesTypes
  <2>1. frame \in FrameType
    BY <1>1 DEF Frames!Init, Frames!None, FrameType
  <2>2. reader \in [Readers -> ReaderType]
    BY <1>1 DEF Frames!Init, ReaderType
  <2>3. last \in [{"book", "trade", "ticker"} -> Nat] /\ now \in Nat /\ synced \in BOOLEAN
    BY <1>1 DEF Frames!Init
  <2>4. made \in Seq(Sample) /\ lock \subseteq Readers
    BY <1>1 DEF Frames!Init
  <2> QED BY <2>1, <2>2, <2>3, <2>4 DEF FramesTypes
<1>3. LockIsHeld /\ ComputesWhenDue /\ ServedFrameIsFresh
  BY <1>1 DEF Frames!Init, Frames!Idle, LockIsHeld, ComputesWhenDue, ServedFrameIsFresh,
              Frames!ServedFrameIsFresh
<1>4. FrameIsLast /\ FrameIsFresh /\ SampledOnce
  BY <1>1 DEF Frames!Init, Frames!None, FrameIsLast, FrameIsFresh, SampledOnce, Frames!SampledOnce
<1> QED BY <1>2, <1>3, <1>4 DEF FramesInv

\* Another part runs.
LEMMA FramesRest == FramesInv /\ UNCHANGED frameVars => FramesInv'
  BY DEF FramesInv, FramesTypes, LockIsHeld, FrameIsLast, ComputesWhenDue, FrameIsFresh, SampledOnce,
         Frames!SampledOnce, ServedFrameIsFresh, Frames!ServedFrameIsFresh, frameVars

\* What arrives changes what the next frame says, and no frame.
LEMMA ArrivalKeeps == FramesInv /\ (Frames!Arrive \/ Frames!ResetBook) => FramesInv'
<1> SUFFICES ASSUME FramesInv, Frames!Arrive \/ Frames!ResetBook
             PROVE  FramesInv'
  OBVIOUS
<1>1. UNCHANGED <<now, frame, made, reader, lock>>
  BY DEF Frames!Arrive, Frames!ResetBook
<1>2. last' \in [{"book", "trade", "ticker"} -> Nat] /\ synced' \in BOOLEAN
  BY DEF Frames!Arrive, Frames!ResetBook, FramesInv, FramesTypes
<1> QED BY <1>1, <1>2 DEF FramesInv, FramesTypes, LockIsHeld, FrameIsLast, ComputesWhenDue,
           FrameIsFresh, SampledOnce, Frames!SampledOnce, ServedFrameIsFresh, Frames!ServedFrameIsFresh

\* A step of one reader that makes no frame disturbs only what is said of it.
LEMMA ReaderSteps ==
  ASSUME FramesInv, NEW r \in Readers, NEW new \in ReaderType,
         reader' = [reader EXCEPT ![r] = new],
         UNCHANGED <<last, synced, frame, made>>, now' \in Nat, lock' \subseteq Readers,
         LockIsHeld',
         r \notin Forced /\ new.step = "computing" => frame = Frames!None \/ new.now - frame.at >= Interval,
         new.step = "served" /\ new.frame.enabled => new.now - new.frame.book < BookLimit + Interval
  PROVE  FramesInv'
<1>1. FramesTypes'
  BY DEF FramesInv, FramesTypes
<1>2. \A q \in Readers : reader'[q] = IF q = r THEN new ELSE reader[q]
  BY DEF FramesInv, FramesTypes
<1>3. ComputesWhenDue'
  BY <1>2 DEF FramesInv, ComputesWhenDue
<1>4. ServedFrameIsFresh'
  BY <1>2 DEF FramesInv, ServedFrameIsFresh, Frames!ServedFrameIsFresh
<1>5. FrameIsLast' /\ FrameIsFresh' /\ SampledOnce'
  BY DEF FramesInv, FrameIsLast, FrameIsFresh, SampledOnce, Frames!SampledOnce
<1> QED BY <1>1, <1>3, <1>4, <1>5 DEF FramesInv

\* A frame that is near enough to be served brings a book that is.
LEMMA HitIsFresh ==
  ASSUME FramesInv, NEW r \in Readers, NEW asked \in Nat, Frames!Hit(r, asked), frame.enabled
  PROVE  asked - frame.book < BookLimit + Interval
<1>1. asked - frame.at < Interval /\ frame.at - frame.book <= BookLimit
  BY DEF Frames!Hit, FramesInv, FrameIsFresh
<1>2. frame.at \in Int /\ frame.book \in Nat
  BY DEF FramesInv, FramesTypes, FrameType
<1> QED BY <1>1, <1>2, ViewsAssumption

\* A reader that computes neither before nor after leaves the lock as it is.
LEMMA LockUntouched ==
  ASSUME FramesInv, NEW r \in Readers, NEW new, reader' = [reader EXCEPT ![r] = new],
         reader[r].step # "computing", new.step # "computing", UNCHANGED lock
  PROVE  LockIsHeld'
<1>1. \A q \in Readers : reader'[q] = IF q = r THEN new ELSE reader[q]
  BY DEF FramesInv, FramesTypes
<1> QED BY <1>1 DEF FramesInv, LockIsHeld

\* The steps of a caller, one by one.
LEMMA AskKeeps == ASSUME FramesInv, NEW r \in Readers, Frames!Ask(r) PROVE FramesInv'
<1>1. reader[r].step # "computing" /\ now \in Nat /\ now' \in Nat /\ frame \in FrameType
  BY DEF Frames!Ask, Frames!Idle, FramesInv, FramesTypes
<1>2. lock' \subseteq Readers /\ UNCHANGED <<last, synced, frame, made, lock>>
  BY DEF Frames!Ask, FramesInv, FramesTypes
<1>3. CASE Frames!Hit(r, now)
  <2> DEFINE new == [step |-> "served", now |-> now, frame |-> frame]
  <2>1. reader' = [reader EXCEPT ![r] = new] /\ new \in ReaderType
    BY <1>1, <1>3 DEF Frames!Ask, Frames!Served, ReaderType
  <2>2. new.frame.enabled => new.now - new.frame.book < BookLimit + Interval
    BY <1>1, <1>3, HitIsFresh
  <2>3. new.step = "served"
    OBVIOUS
  <2> HIDE DEF new
  <2>4. LockIsHeld'
    BY <1>1, <1>2, <2>1, <2>3, LockUntouched
  <2> QED BY <1>1, <1>2, <2>1, <2>2, <2>3, <2>4, ReaderSteps
<1>4. CASE ~Frames!Hit(r, now)
  <2> DEFINE new == [step |-> "waiting", now |-> now]
  <2>1. reader' = [reader EXCEPT ![r] = new] /\ new \in ReaderType
    BY <1>1, <1>4 DEF Frames!Ask, ReaderType
  <2>2. new.step = "waiting"
    OBVIOUS
  <2> HIDE DEF new
  <2>3. LockIsHeld'
    BY <1>1, <1>2, <2>1, <2>2, LockUntouched
  <2> QED BY <1>1, <1>2, <2>1, <2>2, <2>3, ReaderSteps
<1> QED BY <1>3, <1>4

\* It leaves with what is there.
LEMMA LeaveKeeps == ASSUME FramesInv, NEW r \in Readers, Frames!Leave(r) PROVE FramesInv'
<1>1. /\ reader[r].step # "computing" /\ reader' = [reader EXCEPT ![r] = Frames!Idle]
      /\ UNCHANGED <<now, last, synced, frame, made, lock>>
  BY DEF Frames!Leave
<1>2. Frames!Idle \in ReaderType /\ Frames!Idle.step = "idle"
  BY DEF Frames!Idle, ReaderType
<1>3. LockIsHeld'
  BY <1>1, <1>2, LockUntouched
<1>4. now' \in Nat /\ lock' \subseteq Readers
  BY <1>1 DEF FramesInv, FramesTypes
<1> QED BY <1>1, <1>2, <1>3, <1>4, ReaderSteps

\* Who waits bears the time it asked at.
LEMMA WaiterTyped ==
  ASSUME FramesInv, NEW r \in Readers, reader[r].step \in {"waiting", "computing"}
  PROVE  reader[r] \in [step : {"waiting", "computing"}, now : Nat]
  BY DEF FramesInv, FramesTypes, ReaderType, Frames!Idle

\* It enters, and computes or reuses.
LEMMA EnterKeeps == ASSUME FramesInv, NEW r \in Readers, Frames!Enter(r) PROVE FramesInv'
<1>1. /\ reader[r].step = "waiting" /\ lock = {}
      /\ UNCHANGED <<now, last, synced, frame, made>>
  BY DEF Frames!Enter
<1>2. reader[r] \in [step : {"waiting", "computing"}, now : Nat]
  BY <1>1, WaiterTyped
<1>3. now' \in Nat /\ frame \in FrameType
  BY <1>1 DEF FramesInv, FramesTypes
<1>4. CASE Frames!StillHit(r)
  <2> DEFINE new == [step |-> "served", now |-> reader[r].now, frame |-> frame]
  <2>1. reader' = [reader EXCEPT ![r] = new] /\ new \in ReaderType /\ lock' = lock
    BY <1>2, <1>3, <1>4 DEF Frames!Enter, Frames!Served, ReaderType
  <2>2. new.frame.enabled => new.now - new.frame.book < BookLimit + Interval
    BY <1>2, <1>4, HitIsFresh DEF Frames!StillHit
  <2>3. new.step = "served"
    OBVIOUS
  <2> HIDE DEF new
  <2>4. LockIsHeld' /\ lock' \subseteq Readers
    BY <1>1, <2>1, <2>3, LockUntouched
  <2> QED BY <1>1, <1>3, <2>1, <2>2, <2>3, <2>4, ReaderSteps
<1>5. CASE ~Frames!StillHit(r)
  <2> DEFINE new == [reader[r] EXCEPT !.step = "computing"]
  <2>1. reader' = [reader EXCEPT ![r] = new] /\ lock' = {r}
    BY <1>5 DEF Frames!Enter
  <2>2. new \in ReaderType /\ new.step = "computing" /\ new.now = reader[r].now
    BY <1>2 DEF ReaderType
  <2>3. r \notin Forced => frame = Frames!None \/ new.now - frame.at >= Interval
    <3>1. frame.at \in Int /\ new.now \in Nat
      BY <1>2, <1>3, <2>2 DEF FrameType
    <3> QED BY <1>5, <2>2, <3>1, ViewsAssumption DEF Frames!StillHit, Frames!Hit
  <2> HIDE DEF new
  <2>4. \A q \in Readers : reader'[q] = IF q = r THEN new ELSE reader[q]
    BY <2>1 DEF FramesInv, FramesTypes
  <2>5. LockIsHeld'
    BY <1>1, <2>1, <2>2, <2>4 DEF FramesInv, LockIsHeld
  <2> QED BY <1>1, <1>3, <2>1, <2>2, <2>3, <2>5, ReaderSteps
<1> QED BY <1>4, <1>5

\* A frame is stamped with the time its caller came, so the second look makes
\* it an interval later than the one before, unless it is forced.
LEMMA PublishKeeps == ASSUME FramesInv, NEW r \in Readers, Frames!Publish(r) PROVE FramesInv'
<1> DEFINE at == reader[r].now
           f == [at |-> at, enabled |-> Frames!SignalsEnabled(at), book |-> last.book]
           new == [step |-> "served", now |-> at, frame |-> f]
           m == [at |-> at, forced |-> r \in Forced]
<1>1. /\ reader[r].step = "computing" /\ frame' = f /\ reader' = [reader EXCEPT ![r] = new]
      /\ made' = Append(made, m) /\ lock' = {}
      /\ UNCHANGED <<now, last, synced>>
  BY DEF Frames!Publish, Frames!Served
<1>2. at \in Nat
  BY <1>1, WaiterTyped
<1>3. last.book \in Nat
  BY DEF FramesInv, FramesTypes
<1>4. Frames!SignalsEnabled(at) \in BOOLEAN
  BY DEF Frames!SignalsEnabled, FramesInv, FramesTypes
<1>5. Frames!SignalsEnabled(at) => at - last.book <= BookLimit
  BY <1>2, <1>3, ViewsAssumption DEF Frames!SignalsEnabled, Frames!Silent
<1>6. f \in FrameType /\ f.at = at /\ f.book = last.book /\ f.enabled = Frames!SignalsEnabled(at)
  BY <1>2, <1>3, <1>4 DEF FrameType
<1> HIDE DEF f
<1>7. new \in ReaderType /\ new.step = "served" /\ new.now = at /\ new.frame = f
  BY <1>2, <1>6 DEF ReaderType
<1>8. m \in Sample /\ m.at = at /\ m.forced = (r \in Forced)
  BY <1>2 DEF Sample
<1> HIDE DEF new, m
<1>9. \A q \in Readers : reader'[q] = IF q = r THEN new ELSE reader[q]
  BY <1>1 DEF FramesInv, FramesTypes
<1>10. FramesTypes'
  BY <1>1, <1>6, <1>7, <1>8 DEF FramesInv, FramesTypes
<1>11. LockIsHeld' /\ ComputesWhenDue'
  <2>1. \A q \in Readers : reader'[q].step # "computing"
    BY <1>1, <1>7, <1>9 DEF FramesInv, LockIsHeld
  <2> QED BY <1>1, <2>1 DEF LockIsHeld, ComputesWhenDue
<1>12. /\ Len(made') = Len(made) + 1 /\ made'[Len(made')] = m
       /\ \A i \in 1..Len(made) : made'[i] = made[i]
       /\ made \in Seq(Sample) /\ Len(made) \in Nat
       /\ DOMAIN made = 1..Len(made) /\ DOMAIN made' = 1..Len(made')
  BY <1>1, <1>8 DEF FramesInv, FramesTypes
<1>13. FrameIsLast'
  BY <1>1, <1>6, <1>8, <1>12 DEF FrameIsLast
<1>14. FrameIsFresh'
  BY <1>1, <1>5, <1>6 DEF FrameIsFresh
<1>15. ServedFrameIsFresh'
  <2>1. new.frame.enabled => new.now - new.frame.book < BookLimit + Interval
    BY <1>2, <1>3, <1>5, <1>6, <1>7, ViewsAssumption
  <2> QED BY <1>9, <2>1 DEF FramesInv, ServedFrameIsFresh, Frames!ServedFrameIsFresh
<1>16. SampledOnce'
  <2> SUFFICES ASSUME NEW i \in DOMAIN made', NEW j \in DOMAIN made', i < j,
                      \A k \in i..j : ~made'[k].forced
               PROVE  made'[j].at - made'[i].at >= Interval
    BY DEF SampledOnce, Frames!SampledOnce
  <2>1. CASE j <= Len(made)
    <3>1. i \in DOMAIN made /\ j \in DOMAIN made /\ \A k \in i..j : made'[k] = made[k]
      BY <1>12, <2>1
    <3>2. i \in i..j /\ j \in i..j
      BY <1>12
    <3> QED BY <3>1, <3>2 DEF FramesInv, SampledOnce, Frames!SampledOnce
  <2>2. CASE j > Len(made)
    <3> DEFINE n == Len(made)
    <3>1. j = n + 1 /\ made'[j] = m /\ i \in 1..n /\ n \in i..j /\ j \in i..j
      BY <1>12, <2>2
    <3>2. r \notin Forced /\ made # <<>> /\ made'[i] = made[i]
      <4>1. ~m.forced
        BY <3>1
      <4>2. r \notin Forced
        BY <1>8, <4>1
      <4>3. made # <<>> /\ made'[i] = made[i]
        BY <1>12, <3>1
      <4> QED BY <4>2, <4>3
    <3>3. ASSUME NEW k \in 1..n PROVE made[k].at \in Nat
      <4>1. made \in Seq(Sample) /\ k \in 1..Len(made)
        BY <1>12
      <4>2. made[k] \in Sample
        BY <4>1
      <4> QED BY <4>2 DEF Sample
    <3>4. frame.at = made[n].at /\ frame # Frames!None
      <4>1. frame.at = made[n].at
        BY <3>2 DEF FramesInv, FrameIsLast
      <4> QED BY <3>1, <3>3, <4>1 DEF Frames!None
    <3>5. at - made[n].at >= Interval
      BY <1>1, <3>2, <3>4 DEF FramesInv, ComputesWhenDue
    <3>6. CASE i = n
      BY <1>8, <3>1, <3>2, <3>5, <3>6
    <3>7. CASE i < n
      <4>1. \A k \in i..n : ~made[k].forced
        BY <1>12, <3>1
      <4>2. made[n].at - made[i].at >= Interval
        BY <1>12, <3>1, <3>7, <4>1 DEF FramesInv, SampledOnce, Frames!SampledOnce
      <4>3. made[n].at \in Nat /\ made[i].at \in Nat
        BY <1>12, <3>1, <3>3
      <4>4. at - made[i].at >= Interval
        <5>1. Interval \in Nat
          BY ViewsAssumption
        <5> QED BY <1>2, <3>5, <4>2, <4>3, <5>1
      <4>5. made'[j].at = at /\ made'[i].at = made[i].at
        <5>1. m.at = at
          BY <1>8
        <5> QED BY <3>1, <3>2, <5>1
      <4> QED BY <4>4, <4>5
    <3> QED BY <3>1, <3>6, <3>7
  <2> QED BY <1>12, <2>1, <2>2
<1> QED BY <1>10, <1>11, <1>13, <1>14, <1>15, <1>16 DEF FramesInv
-----------------------------------------------------------------------------
(* The theorems.                                                           *)

\* Types, the lock, and the frame being the last one made, hold whoever asks
\* in whatever order (SymbolState.snapshot).
THEOREM FramesKeep == ViewsSpec => []FramesInv
<1>1. FramesInv /\ Frames!Next => FramesInv'
  BY ArrivalKeeps, AskKeeps, EnterKeeps, PublishKeeps, LeaveKeeps DEF Frames!Next
<1>2. FramesInv /\ [ViewsNext]_<<part, vars, frameVars, wallVars, scoreVars>> => FramesInv'
  BY <1>1, FramesRest DEF ViewsNext
<1> QED BY FramesStart, <1>2, PTL DEF ViewsSpec

\* Between two frames that nobody forced lies an interval, for any number of
\* callers that found the first one stale (the second look under
\* _snapshot_lock).
THEOREM TickSampledOnce == ViewsSpec => []SampledOnce
<1>1. FramesInv => SampledOnce
  BY DEF FramesInv
<1> QED BY FramesKeep, <1>1, PTL

\* Nobody is served a frame that allows signals on a book older than the two
\* limits together (assess, snapshot).
THEOREM FramesServedFresh == ViewsSpec => []ServedFrameIsFresh
<1>1. FramesInv => ServedFrameIsFresh
  BY DEF FramesInv
<1> QED BY FramesKeep, <1>1, PTL
-----------------------------------------------------------------------------
(* The walls: what leaves a side was taken or withdrawn.                   *)

Sides == {"bid", "ask"}
StepType == [kind : {"add", "pull", "fill"}, side : Sides, price : WallPrices, size : 0..MaxSize]
BookType == [Sides -> [WallPrices -> 0..MaxSize]]

\* Book c comes from b by step s.
Moves(s, b, c) ==
    \A side \in Sides, p \in WallPrices :
        c[side][p] = IF side # s.side \/ p # s.price THEN b[side][p]
                     ELSE IF s.kind = "add" THEN b[side][p] + s.size ELSE b[side][p] - s.size

\* The units of a side that the first n steps of some kinds were about, and the
\* units that it has in book b and not in c.
Parts(st, kinds, side, n) ==
    {u \in (1..n) \X (1..MaxSize) :
        st[u[1]].kind \in kinds /\ st[u[1]].side = side /\ u[2] <= st[u[1]].size}
Lost(b, c, side) ==
    {u \in WallPrices \X (1..MaxSize) : c[side][u[1]] < u[2] /\ u[2] <= b[side][u[1]]}

Gone == {"pull", "fill"}
Count(st, kinds, side, n) == Cardinality(Parts(st, kinds, side, n))

\* What the assumptions say of the walls.
LEMMA WallConstants == MaxSize \in Nat /\ WallPrices \subseteq Nat /\ IsFiniteSet(WallPrices) /\ Lots \subseteq Nat
  BY ViewsAssumption

\* A level of a book is a natural within the bound.
LEMMA BookLevels ==
  ASSUME NEW b \in BookType, NEW side \in Sides, NEW p \in WallPrices
  PROVE  b[side][p] \in Nat /\ b[side][p] <= MaxSize
BY WallConstants DEF BookType

\* The units of one step, or of one price.
LEMMA UnitsOfOne ==
  ASSUME NEW x, NEW a \in Nat, NEW b \in Nat, a <= b
  PROVE  /\ IsFiniteSet({x} \X (a + 1..b))
         /\ Cardinality({x} \X (a + 1..b)) = b - a
<1>1. IsFiniteSet({x}) /\ Cardinality({x}) = 1
  BY FS_Singleton
<1>2. IsFiniteSet(a + 1..b) /\ Cardinality(a + 1..b) = b - a
  <2> DEFINE c == a + 1
  <2>1. c \in Int /\ b \in Int /\ (c > b => b - a = 0) /\ b - c + 1 = b - a
    OBVIOUS
  <2> HIDE DEF c
  <2>2. IsFiniteSet(c..b) /\ Cardinality(c..b) = IF c > b THEN 0 ELSE b - c + 1
    BY <2>1, FS_Interval
  <2> QED BY <2>1, <2>2 DEF c
<1>3. /\ IsFiniteSet({x} \X (a + 1..b))
      /\ Cardinality({x} \X (a + 1..b)) = Cardinality({x}) * Cardinality(a + 1..b)
  BY <1>1, <1>2, FS_Product, Zenon
<1> QED BY <1>1, <1>2, <1>3

\* The units that were moved are finite.
LEMMA UnitsFinite ==
  ASSUME NEW st, NEW kinds, NEW side, NEW n \in Nat
  PROVE  IsFiniteSet(Parts(st, kinds, side, n)) /\ Count(st, kinds, side, n) \in Nat
<1>1. IsFiniteSet(1..n) /\ IsFiniteSet(1..MaxSize)
  BY FS_Interval, WallConstants, n \in Int, MaxSize \in Int
<1>2. IsFiniteSet((1..n) \X (1..MaxSize))
  BY <1>1, FS_Product
<1>3. Parts(st, kinds, side, n) \in SUBSET ((1..n) \X (1..MaxSize))
  BY DEF Parts
<1>4. IsFiniteSet(Parts(st, kinds, side, n))
  BY <1>2, <1>3, FS_Subset
<1> QED BY <1>4, FS_CardinalityType DEF Count

\* One step more.
LEMMA UnitsGrow ==
  ASSUME NEW st \in Seq(StepType), NEW kinds, NEW side, NEW n \in Nat, n + 1 <= Len(st)
  PROVE  Count(st, kinds, side, n + 1) =
           IF st[n + 1].kind \in kinds /\ st[n + 1].side = side
           THEN Count(st, kinds, side, n) + st[n + 1].size ELSE Count(st, kinds, side, n)
<1> DEFINE s == st[n + 1]
           N == {n + 1} \X (0 + 1..s.size)
<1>1. s \in StepType /\ s.size \in Nat /\ s.size <= MaxSize /\ MaxSize \in Nat
  <2>1. n + 1 \in 1..Len(st) /\ Len(st) \in Nat
    OBVIOUS
  <2>2. s \in StepType
    BY <2>1
  <2> QED BY <2>2, ViewsAssumption DEF StepType
<1>2. CASE s.kind \in kinds /\ s.side = side
  <2>1. Parts(st, kinds, side, n + 1) = Parts(st, kinds, side, n) \cup N
    BY <1>1, <1>2 DEF Parts
  <2>2. Parts(st, kinds, side, n) \cap N = {}
    BY DEF Parts
  <2>3. IsFiniteSet(N) /\ Cardinality(N) = s.size
    <3>1. 0 \in Nat /\ s.size \in Nat /\ 0 <= s.size /\ s.size - 0 = s.size
      BY <1>1
    <3> HIDE DEF s
    <3> QED BY <3>1, UnitsOfOne
  <2> HIDE DEF N
  <2>4. Count(st, kinds, side, n + 1) = Count(st, kinds, side, n) + Cardinality(N) - Cardinality({})
    BY <2>1, <2>2, <2>3, UnitsFinite, FS_Union DEF Count
  <2>5. Count(st, kinds, side, n) \in Nat
    BY UnitsFinite
  <2> QED BY <1>1, <1>2, <2>3, <2>4, <2>5, FS_EmptySet
<1>3. CASE ~(s.kind \in kinds /\ s.side = side)
  <2>1. Parts(st, kinds, side, n + 1) = Parts(st, kinds, side, n)
    BY <1>3 DEF Parts
  <2> QED BY <1>3, <2>1 DEF Count
<1> QED BY <1>2, <1>3

\* Between two books a side loses no more than was taken or withdrawn meanwhile.
LEMMA LossIsTaken ==
  ASSUME NEW st \in Seq(StepType), NEW bk, \A i \in 1..Len(st) + 1 : bk[i] \in BookType,
         \A i \in 1..Len(st) : Moves(st[i], bk[i], bk[i + 1]),
         NEW side \in Sides, NEW n \in 0..Len(st), NEW m \in 0..Len(st), n <= m
  PROVE  /\ Cardinality(Lost(bk[n + 1], bk[m + 1], side)) \in Nat
         /\ Count(st, Gone, side, n) + Cardinality(Lost(bk[n + 1], bk[m + 1], side)) <= Count(st, Gone, side, m)
<1> DEFINE D(k) == Lost(bk[n + 1], bk[k + 1], side)
           Fine(k) == Count(st, Gone, side, n) + Cardinality(D(k)) <= Count(st, Gone, side, k)
           S == {k \in Nat : n + k <= m => Fine(n + k)}
<1>0. Len(st) \in Nat
  OBVIOUS
<1>1. \A k : IsFiniteSet(D(k)) /\ Cardinality(D(k)) \in Nat
  <2> SUFFICES ASSUME NEW k PROVE IsFiniteSet(D(k)) /\ Cardinality(D(k)) \in Nat
    OBVIOUS
  <2>1. IsFiniteSet(WallPrices) /\ IsFiniteSet(1..MaxSize)
    BY FS_Interval, WallConstants, MaxSize \in Int
  <2>2. IsFiniteSet(WallPrices \X (1..MaxSize))
    BY <2>1, FS_Product
  <2>3. D(k) \in SUBSET (WallPrices \X (1..MaxSize))
    BY DEF Lost
  <2> HIDE DEF D
  <2>4. IsFiniteSet(D(k))
    BY <2>2, <2>3, FS_Subset
  <2> QED BY <2>4, FS_CardinalityType
<1>2. 0 \in S
  <2>1. D(n) = {}
    <3>1. \A p \in WallPrices : bk[n + 1][side][p] \in Nat
      <4>1. n + 1 \in 1..Len(st) + 1
        OBVIOUS
      <4>2. bk[n + 1] \in BookType
        BY <4>1
      <4> QED BY <4>2, BookLevels
    <3> QED BY <3>1 DEF Lost
  <2>2. Cardinality(D(n)) = 0
    BY <2>1, FS_EmptySet
  <2> HIDE DEF D
  <2>3. Count(st, Gone, side, n) \in Nat
    BY UnitsFinite
  <2>4. n + 0 = n
    OBVIOUS
  <2> QED BY <2>2, <2>3, <2>4
<1>3. ASSUME NEW k \in 0..(m - n - 1), k \in S
      PROVE  k + 1 \in S
  <2> DEFINE j == n + k
             s == st[j + 1]
             b == bk[j + 1]
             c == bk[j + 2]
  <2>1. /\ j \in Nat /\ j + 1 \in 1..Len(st) /\ j + 1 <= m /\ n + (k + 1) = j + 1
        /\ j + 1 <= Len(st) /\ (j + 1) + 1 = j + 2
    BY <1>0
  <2>2. Fine(j)
    BY <1>3, <2>1
  <2>3. s \in StepType /\ b \in BookType /\ c \in BookType /\ Moves(s, b, c)
    <3>1. j + 1 \in 1..Len(st) + 1 /\ j + 2 \in 1..Len(st) + 1
      BY <1>0, <2>1
    <3> QED BY <2>1, <3>1
  <2>4. bk[n + 1] \in BookType
    <3>1. n + 1 \in 1..Len(st) + 1
      BY <1>0
    <3> QED BY <3>1
  <2> DEFINE a == bk[n + 1]
             lo == b[side][s.price] - s.size
             hi == b[side][s.price]
             X == {s.price} \X (lo + 1..hi)
  <2>5. /\ s.price \in WallPrices /\ s.size \in Nat /\ s.kind \in {"add", "pull", "fill"}
        /\ \A p \in WallPrices : a[side][p] \in Nat /\ b[side][p] \in Nat /\ c[side][p] \in Nat
    <3>1. s.price \in WallPrices /\ s.size \in Nat /\ s.kind \in {"add", "pull", "fill"}
      BY <2>3, WallConstants DEF StepType
    <3> HIDE DEF s, b, c, a
    <3>2. a \in BookType
      BY <2>4 DEF a
    <3>3. \A p \in WallPrices : a[side][p] \in Nat /\ b[side][p] \in Nat /\ c[side][p] \in Nat
      BY <2>3, <3>2, BookLevels
    <3> QED BY <3>1, <3>3
  <2>6. \A p \in WallPrices :
          c[side][p] = IF side # s.side \/ p # s.price THEN b[side][p]
                       ELSE IF s.kind = "add" THEN b[side][p] + s.size ELSE b[side][p] - s.size
    BY <2>3 DEF Moves
  <2>7. D(j + 1) = Lost(a, c, side) /\ D(j) = Lost(a, b, side)
    BY <2>1
  <2>8. CASE s.kind \in Gone /\ s.side = side
    <3>1. c[side][s.price] = lo /\ lo \in Nat /\ hi \in Nat /\ lo <= hi /\ s.kind # "add"
      <4> DEFINE x == b[side][s.price]
                 y == c[side][s.price]
      <4>1. s.price \in WallPrices /\ s.kind # "add" /\ s.side = side
        BY <2>5, <2>8 DEF Gone
      <4>2. y = x - s.size
        BY <2>6, <4>1
      <4>3. x \in Nat /\ y \in Nat /\ s.size \in Nat
        BY <2>5
      <4> HIDE DEF x, y, s
      <4>4. x - s.size \in Nat /\ x - s.size <= x
        BY <4>2, <4>3
      <4> QED BY <4>1, <4>2, <4>3, <4>4 DEF x, y
    <3>2. IsFiniteSet(X) /\ Cardinality(X) = hi - lo
      BY <3>1, UnitsOfOne
    <3>3. Lost(a, c, side) \subseteq Lost(a, b, side) \cup X
      <4>1. \A p \in WallPrices : p # s.price => c[side][p] = b[side][p]
        BY <2>6
      <4>2. ASSUME NEW u \in Lost(a, c, side), u \notin Lost(a, b, side)
            PROVE  u \in X
        <5>1. /\ u \in WallPrices \X (1..MaxSize)
              /\ c[side][u[1]] < u[2] /\ u[2] <= a[side][u[1]] /\ ~(b[side][u[1]] < u[2])
          BY <4>2 DEF Lost
        <5>2. u = <<u[1], u[2]>> /\ u[1] \in WallPrices /\ u[2] \in 1..MaxSize
          BY <5>1
        <5>3. u[1] = s.price
          BY <4>1, <5>1, <5>2
        <5> HIDE DEF lo, hi
        <5>4. lo < u[2] /\ u[2] <= hi
          <6>1. b[side][u[1]] \in Nat /\ u[2] \in Int
            BY <2>5, <5>2
          <6>2. c[side][u[1]] = lo /\ b[side][u[1]] = hi
            BY <3>1, <5>3 DEF hi
          <6> DEFINE x == u[2]
          <6>3. x \in Int /\ hi \in Nat /\ lo \in Nat /\ lo < x /\ ~(hi < x)
            BY <3>1, <5>1, <6>1, <6>2
          <6> HIDE DEF x
          <6> QED BY <6>3 DEF x
        <5>5. u[2] \in lo + 1..hi
          BY <3>1, <5>2, <5>4
        <5> QED BY <5>2, <5>3, <5>5
      <4> QED BY <4>2
    <3> HIDE DEF X, D
    <3>4. Cardinality(D(j + 1)) <= Cardinality(D(j)) + Cardinality(X)
      <4>1. /\ IsFiniteSet(D(j) \cup X)
            /\ Cardinality(D(j) \cup X) = Cardinality(D(j)) + Cardinality(X) - Cardinality(D(j) \cap X)
        BY <1>1, <3>2, FS_Union
      <4>2. IsFiniteSet(D(j) \cap X)
        BY <1>1, FS_Intersection
      <4>3. Cardinality(D(j) \cap X) \in Nat
        BY <4>2, FS_CardinalityType
      <4>4. D(j + 1) \in SUBSET (D(j) \cup X)
        BY <2>7, <3>3
      <4>5. Cardinality(D(j + 1)) <= Cardinality(D(j) \cup X)
        BY <4>1, <4>4, FS_Subset
      <4>6. Cardinality(X) \in Nat
        BY <3>1, <3>2
      <4>7. Cardinality(D(j)) \in Nat /\ Cardinality(D(j + 1)) \in Nat
        BY <1>1
      <4> QED BY <4>1, <4>3, <4>5, <4>6, <4>7
    <3>5. hi - lo = s.size
      BY <2>5
    <3>6. Count(st, Gone, side, j + 1) = Count(st, Gone, side, j) + s.size
      BY <2>1, <2>8, UnitsGrow
    <3>7. /\ Count(st, Gone, side, n) \in Nat /\ Count(st, Gone, side, j) \in Nat
          /\ Cardinality(D(j)) \in Nat /\ Cardinality(D(j + 1)) \in Nat
      BY <1>1, <2>1, UnitsFinite
    <3> HIDE DEF lo, hi, s
    <3>8. Fine(j + 1)
      BY <2>2, <2>5, <3>2, <3>4, <3>5, <3>6, <3>7
    <3> QED BY <2>1, <3>8
  <2>9. CASE ~(s.kind \in Gone /\ s.side = side)
    <3>1. \A p \in WallPrices : b[side][p] <= c[side][p]
      <4> SUFFICES ASSUME NEW p \in WallPrices
                   PROVE  b[side][p] <= c[side][p]
        OBVIOUS
      <4> DEFINE x == b[side][p]
                 y == c[side][p]
      <4>1. x \in Nat /\ y \in Nat /\ s.size \in Nat
        BY <2>5
      <4>2. y = x \/ y = x + s.size
        <5>1. s.kind = "add" \/ side # s.side
          BY <2>5, <2>9 DEF Gone
        <5> QED BY <2>6, <5>1
      <4> HIDE DEF x, y, s
      <4>3. x <= y
        BY <4>1, <4>2
      <4> QED BY <4>3 DEF x, y
    <3>2. Lost(a, c, side) \subseteq Lost(a, b, side)
      <4> SUFFICES ASSUME NEW u \in Lost(a, c, side)
                   PROVE  u \in Lost(a, b, side)
        OBVIOUS
      <4>1. /\ u \in WallPrices \X (1..MaxSize) /\ u[1] \in WallPrices /\ u[2] \in 1..MaxSize
            /\ c[side][u[1]] < u[2] /\ u[2] <= a[side][u[1]]
        BY DEF Lost
      <4>2. b[side][u[1]] \in Nat /\ c[side][u[1]] \in Nat /\ b[side][u[1]] <= c[side][u[1]] /\ u[2] \in Int
        BY <2>5, <3>1, <4>1
      <4> HIDE DEF a, b, c
      <4>3. b[side][u[1]] < u[2]
        BY <4>1, <4>2
      <4> QED BY <4>1, <4>3 DEF Lost
    <3> HIDE DEF D
    <3>3. Cardinality(D(j + 1)) <= Cardinality(D(j))
      BY <1>1, <2>7, <3>2, FS_Subset
    <3>4. Count(st, Gone, side, j + 1) = Count(st, Gone, side, j)
      BY <2>1, <2>9, UnitsGrow
    <3>5. /\ Count(st, Gone, side, n) \in Nat /\ Count(st, Gone, side, j) \in Nat
          /\ Cardinality(D(j)) \in Nat /\ Cardinality(D(j + 1)) \in Nat
      BY <1>1, <2>1, UnitsFinite
    <3>6. Fine(j + 1)
      BY <2>2, <3>3, <3>4, <3>5
    <3> QED BY <2>1, <3>6
  <2> QED BY <2>8, <2>9
<1> HIDE DEF S, D
<1>4. 0..(m - n) \subseteq S
  <2> DEFINE bound == m - n
  <2>1. bound \in Nat /\ \A k \in 0..(bound - 1) : k \in S => k + 1 \in S
    BY <1>0, <1>3
  <2> HIDE DEF bound
  <2>2. 0..bound \subseteq S
    BY <1>2, <2>1, Counting
  <2> QED BY <2>2 DEF bound
<1>5. m - n \in S /\ n + (m - n) = m
  BY <1>4
<1>6. Fine(m)
  BY <1>5 DEF S
<1> QED BY <1>1, <1>6 DEF D

FlowType == [added : Nat, removed : Nat, executed : Nat]

\* Types; each book comes from the one before by one step, and the mirror is one
\* of them.
WallTypes ==
    /\ steps \in Seq(StepType) /\ book \in Seq(BookType) /\ Len(book) = Len(steps) + 1
    /\ delivered = [book |-> delivered.book, trade |-> delivered.trade]
    /\ delivered.book \in 0..Len(steps) /\ delivered.trade \in 0..Len(steps)
    /\ pending \in [Sides -> Nat] /\ flow \in [Sides -> FlowType] /\ crossing \in BOOLEAN
BookMoves ==
    /\ \A i \in 1..Len(steps) : Moves(steps[i], book[i], book[i + 1])
    /\ mirror = book[delivered.book + 1]

\* As long as no snapshot tore them apart, what is executed or waits to be is
\* what the delivered prints told, and no more is removed than the delivered changes took.
FlowOk(side, f, p, st, d) ==
    /\ f.executed + p = Count(st, {"fill"}, side, d.trade)
    /\ f.removed <= Count(st, Gone, side, d.book)
FlowsOk == ~crossing => \A side \in Sides : FlowOk(side, flow[side], pending[side], steps, delivered)

\* The inductive invariant of the walls.
WallsInv == WallTypes /\ BookMoves /\ FlowsOk
-----------------------------------------------------------------------------
\* A finite set of naturals with a member has a greatest one.
LEMMA GreatestNatural ==
  ASSUME NEW T \in SUBSET Nat, IsFiniteSet(T), T # {}
  PROVE  \E x \in T : \A y \in T : y <= x
<1>1. PICK n \in Nat : ExistsBijection(1..n, T)
  BY FS_NatBijection
<1>2. PICK f \in [1..n -> T] : \A y \in T : \E i \in 1..n : f[i] = y
  BY <1>1 DEF ExistsBijection, Bijection, Injection, Surjection
<1>3. \A i \in 1..n : f[i] \in Nat
  BY <1>2
<1>4. (1..n) \in SUBSET (1..n) /\ 1..n # {}
  BY <1>2
<1>5. PICK i \in 1..n : \A j \in 1..n : f[j] <= f[i]
  BY <1>3, <1>4, GreatestHeld
<1> QED BY <1>2, <1>5

\* The best price of a side is one of its prices.
LEMMA BestHeld ==
  ASSUME NEW b \in BookType, NEW side, Walls!LevelsOf(side, b) # {}
  PROVE  Walls!Best(side, b) \in WallPrices
<1> DEFINE L == Walls!LevelsOf(side, b)
<1>1. L \in SUBSET WallPrices
  BY DEF Walls!LevelsOf
<1>2. L \in SUBSET Nat /\ IsFiniteSet(L) /\ L # {}
  BY <1>1, WallConstants, FS_Subset
<1> HIDE DEF L
<1>3. Walls!Highest(L) \in L
  <2>1. \E x \in L : \A y \in L : y <= x
    BY <1>2, GreatestNatural
  <2> QED BY <2>1 DEF Walls!Highest
<1>4. Walls!Lowest(L) \in L
  <2>1. \E x \in L : \A y \in L : x <= y
    BY <1>2, LeastNatural
  <2>2. \E x \in L : \A y \in L : y >= x
    BY <1>2, <2>1
  <2> QED BY <2>2 DEF Walls!Lowest
<1> QED BY <1>1, <1>3, <1>4 DEF Walls!Best, L

\* What a side lost is finite.
LEMMA LostFinite == \A b, c, side : IsFiniteSet(Lost(b, c, side))
<1>1. IsFiniteSet(WallPrices) /\ IsFiniteSet(1..MaxSize)
  BY FS_Interval, WallConstants, MaxSize \in Int
<1>2. IsFiniteSet(WallPrices \X (1..MaxSize))
  BY <1>1, FS_Product
<1>3. \A b, c, side : Lost(b, c, side) \in SUBSET (WallPrices \X (1..MaxSize))
  BY DEF Lost
<1> QED BY <1>2, <1>3, FS_Subset

\* The instance's operators are the library's.
LEMMA SameWallOperators ==
  /\ \A P : Walls!Cardinality(P) = Cardinality(P)
  /\ \A q : Walls!Last(q) = q[Len(q)]
  /\ Walls!Sides = Sides
  BY DEF Walls!Cardinality, Cardinality, Walls!Last, Walls!Sides, Sides

\* What the types say of what they are used for.
LEMMA WallFacts ==
  ASSUME WallTypes
  PROVE  /\ Len(steps) \in Nat /\ DOMAIN steps = 1..Len(steps)
         /\ \A i \in 1..Len(steps) : steps[i] \in StepType
         /\ \A i \in 1..Len(steps) + 1 : book[i] \in BookType
         /\ \A side \in Sides : pending[side] \in Nat /\ flow[side] \in FlowType
         /\ \A side \in Sides : flow[side].removed \in Nat /\ flow[side].executed \in Nat /\ flow[side].added \in Nat
<1>1. /\ Len(steps) \in Nat /\ DOMAIN steps = 1..Len(steps)
      /\ \A i \in 1..Len(steps) : steps[i] \in StepType
  BY RangeIs, LenProperties DEF WallTypes
<1>2. \A i \in 1..Len(book) : book[i] \in BookType
  BY RangeIs DEF WallTypes
<1>3. \A side \in Sides : pending[side] \in Nat /\ flow[side] \in FlowType
  BY DEF WallTypes
<1>4. \A side \in Sides : flow[side].removed \in Nat /\ flow[side].executed \in Nat /\ flow[side].added \in Nat
  BY <1>3 DEF FlowType
<1> QED BY <1>1, <1>2, <1>3, <1>4 DEF WallTypes

\* Two lists of steps begin alike.
SameUpTo(st, more, n) == \A i \in 1..n : more[i] = st[i]

\* The units of the first steps do not depend on later ones.
LEMMA UnitsStand ==
  ASSUME NEW st, NEW more, NEW n \in Nat, SameUpTo(st, more, n), NEW kinds, NEW side
  PROVE  Count(more, kinds, side, n) = Count(st, kinds, side, n)
BY DEF Count, Parts, SameUpTo

\* An order is added, withdrawn or filled: nothing of it has arrived.
LEMMA StepHappens ==
  ASSUME WallsInv, NEW s \in StepType, NEW size \in 0..MaxSize, Walls!Happens(s, size),
         size = IF s.kind = "add" THEN book[Len(book)][s.side][s.price] + s.size
                ELSE book[Len(book)][s.side][s.price] - s.size
  PROVE  WallsInv'
<1> DEFINE n == Len(steps)
           b == book[n + 1]
           c == [b EXCEPT ![s.side][s.price] = size]
<1>1. /\ n \in Nat /\ Len(book) = n + 1
      /\ \A i \in 1..n : steps[i] \in StepType
      /\ \A i \in 1..n + 1 : book[i] \in BookType
      /\ steps \in Seq(StepType) /\ book \in Seq(BookType)
  BY WallFacts DEF WallsInv, WallTypes
<1>2. /\ steps' = Append(steps, s) /\ book' = Append(book, c)
      /\ delivered' = delivered /\ mirror' = mirror /\ pending' = pending /\ flow' = flow /\ crossing' = crossing
  <2>1. Walls!Now = b
    BY <1>1, SameWallOperators DEF Walls!Now
  <2> QED BY <2>1 DEF Walls!Happens
<1>3. b \in BookType /\ s.side \in Sides /\ s.price \in WallPrices /\ s.size \in Nat
  BY <1>1, WallConstants DEF StepType
<1>4. c \in BookType
  BY <1>3 DEF BookType
<1>5. Moves(s, b, c)
  BY <1>1, <1>3 DEF Moves, BookType
<1> HIDE DEF c
<1>6. /\ Len(steps') = n + 1 /\ \A i \in 1..n : steps'[i] = steps[i]
      /\ steps'[n + 1] = s /\ steps' \in Seq(StepType)
  BY <1>1, <1>2
<1>7. /\ Len(book') = n + 2 /\ \A i \in 1..n + 1 : book'[i] = book[i]
      /\ book'[n + 2] = c /\ book' \in Seq(BookType)
  BY <1>1, <1>2, <1>4
<1>8. WallTypes'
  <2>1. n \in Nat /\ delivered.book \in 0..n /\ delivered.trade \in 0..n
    BY <1>1 DEF WallsInv, WallTypes
  <2>2. delivered.book \in 0..n + 1 /\ delivered.trade \in 0..n + 1
    BY <2>1
  <2> QED BY <1>1, <1>2, <1>6, <1>7, <2>2 DEF WallsInv, WallTypes
<1>9. BookMoves'
  <2>1. \A i \in 1..n : Moves(steps[i], book[i], book[i + 1])
    BY DEF WallsInv, BookMoves
  <2>2. ASSUME NEW i \in 1..n + 1
        PROVE  Moves(steps'[i], book'[i], book'[i + 1])
    <3>1. CASE i = n + 1
      BY <1>1, <1>5, <1>6, <1>7, <3>1
    <3>2. CASE i # n + 1
      <4>1. i \in 1..n /\ i \in 1..n + 1 /\ i + 1 \in 1..n + 1
        BY <1>1, <3>2
      <4> QED BY <1>6, <1>7, <2>1, <4>1
    <3> QED BY <3>1, <3>2
  <2>3. mirror = book[delivered.book + 1] /\ delivered.book + 1 \in 1..n + 1
    BY <1>1 DEF WallsInv, BookMoves, WallTypes
  <2>4. mirror' = book'[delivered'.book + 1]
    BY <1>2, <1>7, <2>3
  <2> QED BY <1>6, <2>2, <2>4 DEF BookMoves
<1>10. FlowsOk'
  <2> SUFFICES ASSUME ~crossing, NEW side \in Sides
               PROVE  FlowOk(side, flow[side], pending[side], steps', delivered)
    BY <1>2 DEF FlowsOk
  <2>1. FlowOk(side, flow[side], pending[side], steps, delivered)
    BY DEF WallsInv, FlowsOk
  <2>2. delivered.book \in Nat /\ delivered.trade \in Nat /\ delivered.book <= n /\ delivered.trade <= n
    BY <1>1 DEF WallsInv, WallTypes
  <2>3. /\ \A i \in 1..delivered.book : steps'[i] = steps[i]
        /\ \A i \in 1..delivered.trade : steps'[i] = steps[i]
    BY <1>1, <1>6, <2>2
  <2>4. /\ Count(steps', {"fill"}, side, delivered.trade) = Count(steps, {"fill"}, side, delivered.trade)
        /\ Count(steps', Gone, side, delivered.book) = Count(steps, Gone, side, delivered.book)
    <3> DEFINE more == steps'
    <3>1. SameUpTo(steps, more, delivered.book) /\ SameUpTo(steps, more, delivered.trade)
      BY <2>3 DEF SameUpTo
    <3> HIDE DEF more
    <3>2. Count(more, {"fill"}, side, delivered.trade) = Count(steps, {"fill"}, side, delivered.trade)
      BY <2>2, <3>1, UnitsStand
    <3>3. Count(more, Gone, side, delivered.book) = Count(steps, Gone, side, delivered.book)
      BY <2>2, <3>1, UnitsStand
    <3> QED BY <3>2, <3>3 DEF more
  <2> QED BY <2>1, <2>4 DEF FlowOk
<1> QED BY <1>8, <1>9, <1>10 DEF WallsInv

\* The exchange's own steps.
LEMMA ExchangeSteps ==
  ASSUME WallsInv, Walls!Quote \/ Walls!Fill
  PROVE  WallsInv'
<1> DEFINE b == book[Len(book)]
<1>1. b \in BookType /\ Walls!Now = b /\ MaxSize \in Nat
  <2>1. Len(book) \in 1..Len(steps) + 1
    BY WallFacts DEF WallsInv, WallTypes
  <2> QED BY <2>1, WallFacts, SameWallOperators, WallConstants DEF WallsInv, Walls!Now
<1>2. \A side \in Sides, p \in WallPrices : b[side][p] \in Nat /\ b[side][p] <= MaxSize
  BY <1>1, BookLevels
<1> HIDE DEF b
<1>3. CASE Walls!Quote
  <2>1. PICK side \in Sides, p \in WallPrices, n \in Lots :
          \/ b[side][p] + n <= MaxSize /\ Walls!Happens(Walls!Step("add", side, p, n), b[side][p] + n)
          \/ b[side][p] >= n /\ Walls!Happens(Walls!Step("pull", side, p, n), b[side][p] - n)
    BY <1>1, <1>3, SameWallOperators DEF Walls!Quote
  <2>2. n \in Nat /\ b[side][p] \in Nat /\ b[side][p] <= MaxSize
    BY <1>2, WallConstants
  <2> DEFINE add == Walls!Step("add", side, p, n)
             pull == Walls!Step("pull", side, p, n)
  <2>3. CASE b[side][p] + n <= MaxSize /\ Walls!Happens(add, b[side][p] + n)
    <3>1. add \in StepType /\ add.kind = "add" /\ add.side = side /\ add.price = p /\ add.size = n
      BY <1>1, <2>2, <2>3 DEF StepType, Walls!Step
    <3>2. b[side][p] + n \in 0..MaxSize
      BY <1>1, <2>2, <2>3
    <3> HIDE DEF add
    <3> QED BY <2>3, <3>1, <3>2, StepHappens DEF b
  <2>4. CASE b[side][p] >= n /\ Walls!Happens(pull, b[side][p] - n)
    <3>1. pull \in StepType /\ pull.kind = "pull" /\ pull.side = side /\ pull.price = p /\ pull.size = n
      BY <1>1, <2>2, <2>4 DEF StepType, Walls!Step
    <3>2. b[side][p] - n \in 0..MaxSize
      BY <1>1, <2>2, <2>4
    <3> HIDE DEF pull
    <3> QED BY <2>4, <3>1, <3>2, StepHappens DEF b
  <2> QED BY <2>1, <2>3, <2>4
<1>4. CASE Walls!Fill
  <2>1. PICK side \in Sides, n \in Lots :
          /\ Walls!LevelsOf(side, b) # {} /\ b[side][Walls!Best(side, b)] >= n
          /\ Walls!Happens(Walls!Step("fill", side, Walls!Best(side, b), n), b[side][Walls!Best(side, b)] - n)
    BY <1>1, <1>4, SameWallOperators DEF Walls!Fill
  <2> DEFINE p == Walls!Best(side, b)
             fill == Walls!Step("fill", side, p, n)
  <2>2. p \in WallPrices
    BY <2>1, BestHeld, <1>1
  <2> HIDE DEF p
  <2>3. n \in Nat /\ b[side][p] \in Nat /\ b[side][p] <= MaxSize /\ b[side][p] >= n
    BY <1>2, <2>1, <2>2, WallConstants DEF p
  <2>4. fill \in StepType /\ fill.kind = "fill" /\ fill.side = side /\ fill.price = p /\ fill.size = n
    BY <1>1, <2>2, <2>3 DEF StepType, Walls!Step
  <2>5. b[side][p] - n \in 0..MaxSize
    BY <1>1, <2>3
  <2>6. Walls!Happens(fill, b[side][p] - n)
    BY <2>1 DEF p
  <2> HIDE DEF fill
  <2> QED BY <2>4, <2>5, <2>6, StepHappens DEF b
<1> QED BY <1>3, <1>4

\* A delta with every change up to the m-th.
LEMMA DeltaArrives ==
  ASSUME WallsInv, NEW m, Walls!Delta(m)
  PROVE  WallsInv'
<1> DEFINE n == delivered.book
           b == book[m + 1]
<1>1. /\ n \in Nat /\ m \in n + 1..Len(steps) /\ Len(steps) \in Nat
      /\ mirror = book[n + 1]
      /\ steps' = steps /\ book' = book /\ crossing' = crossing /\ mirror' = b
  BY WallFacts DEF Walls!Delta, WallsInv, WallTypes, BookMoves
<1>2. /\ flow' = [side \in Sides |->
                    [added |-> flow[side].added + Walls!Grew(side, mirror, b),
                     removed |-> flow[side].removed + Walls!Grew(side, b, mirror),
                     executed |-> flow[side].executed + pending[side]]]
      /\ pending' = [side \in Sides |-> 0]
      /\ delivered' = [delivered EXCEPT !.book = m]
  BY SameWallOperators DEF Walls!Delta
<1>3. delivered' = [book |-> m, trade |-> delivered.trade]
  BY <1>2 DEF WallsInv, WallTypes
<1>4. /\ n \in 0..Len(steps) /\ m \in 0..Len(steps) /\ n <= m
      /\ m + 1 \in 1..Len(steps) + 1 /\ n + 1 \in 1..Len(steps) + 1
  BY <1>1
<1>5. \A c, d, side : Walls!Grew(side, c, d) = Cardinality(Lost(d, c, side))
  BY SameWallOperators DEF Walls!Grew, Lost
<1>6. \A c, d \in BookType, side \in Sides : Cardinality(Lost(d, c, side)) \in Nat
  <2> SUFFICES ASSUME NEW c, NEW d, NEW side
               PROVE  Cardinality(Lost(d, c, side)) \in Nat
    OBVIOUS
  <2>1. IsFiniteSet(Lost(d, c, side))
    BY LostFinite
  <2> QED BY <2>1, FS_CardinalityType
<1>7. b \in BookType /\ mirror \in BookType
  BY <1>1, <1>4, WallFacts DEF WallsInv
<1>8. flow' \in [Sides -> FlowType] /\ pending' \in [Sides -> Nat]
  <2>1. ASSUME NEW side \in Sides
        PROVE  /\ flow[side].added + Walls!Grew(side, mirror, b) \in Nat
               /\ flow[side].removed + Walls!Grew(side, b, mirror) \in Nat
               /\ flow[side].executed + pending[side] \in Nat
    <3>1. Walls!Grew(side, mirror, b) \in Nat /\ Walls!Grew(side, b, mirror) \in Nat
      BY <1>5, <1>6, <1>7
    <3>2. flow[side].added \in Nat /\ flow[side].removed \in Nat /\ flow[side].executed \in Nat /\ pending[side] \in Nat
      BY WallFacts DEF WallsInv
    <3> QED BY <3>1, <3>2
  <2> QED BY <1>2, <2>1 DEF FlowType
<1>9. WallTypes'
  BY <1>1, <1>3, <1>4, <1>8 DEF WallsInv, WallTypes
<1>10. BookMoves'
  <2>1. delivered'.book = m
    BY <1>3
  <2> QED BY <1>1, <2>1 DEF WallsInv, BookMoves
<1>11. FlowsOk'
  <2> SUFFICES ASSUME ~crossing, NEW side \in Sides
               PROVE  FlowOk(side, flow[side], pending[side], steps, delivered)'
    BY <1>1 DEF FlowsOk
  <2>1. FlowOk(side, flow[side], pending[side], steps, delivered)
    BY DEF WallsInv, FlowsOk
  <2>2. /\ flow'[side].executed = flow[side].executed + pending[side]
        /\ flow'[side].removed = flow[side].removed + Cardinality(Lost(mirror, b, side))
        /\ pending'[side] = 0
    BY <1>2, <1>5
  <2>3. /\ Cardinality(Lost(mirror, b, side)) \in Nat
        /\ Count(steps, Gone, side, n) + Cardinality(Lost(mirror, b, side)) <= Count(steps, Gone, side, m)
    <3>1. /\ steps \in Seq(StepType) /\ \A i \in 1..Len(steps) + 1 : book[i] \in BookType
          /\ \A i \in 1..Len(steps) : Moves(steps[i], book[i], book[i + 1])
      BY WallFacts DEF WallsInv, WallTypes, BookMoves
    <3> DEFINE bk == book
               st == steps
    <3>2. /\ Cardinality(Lost(bk[n + 1], bk[m + 1], side)) \in Nat
          /\ Count(st, Gone, side, n) + Cardinality(Lost(bk[n + 1], bk[m + 1], side)) <= Count(st, Gone, side, m)
      <4> HIDE DEF n
      <4> QED BY <1>4, <3>1, LossIsTaken
    <3> QED BY <1>1, <3>2
  <2>4. /\ flow[side].removed \in Nat /\ flow[side].executed \in Nat /\ pending[side] \in Nat
        /\ Count(steps, Gone, side, n) \in Nat /\ Count(steps, Gone, side, m) \in Nat
    BY <1>1, <1>4, WallFacts, UnitsFinite DEF WallsInv
  <2>5. /\ flow[side].executed + pending[side] = Count(steps, {"fill"}, side, delivered.trade)
        /\ flow[side].removed <= Count(steps, Gone, side, n)
    BY <2>1 DEF FlowOk
  <2> DEFINE lost == Cardinality(Lost(mirror, b, side))
  <2>6. flow'[side].removed <= Count(steps, Gone, side, m)
    <3>1. lost \in Nat /\ Count(steps, Gone, side, n) + lost <= Count(steps, Gone, side, m)
          /\ flow'[side].removed = flow[side].removed + lost
      BY <2>2, <2>3
    <3> HIDE DEF lost, n
    <3> QED BY <2>4, <2>5, <3>1
  <2>7. flow'[side].executed + pending'[side] = Count(steps, {"fill"}, side, delivered.trade)
    BY <2>2, <2>4, <2>5
  <2> QED BY <1>1, <1>3, <2>6, <2>7 DEF FlowOk
<1> QED BY <1>9, <1>10, <1>11 DEF WallsInv

\* A print arrives.
LEMMA ExecutionArrives ==
  ASSUME WallsInv, Walls!Execution
  PROVE  WallsInv'
<1> DEFINE Later == {j \in Walls!Fills : j > delivered.trade}
           i == Walls!Lowest(Later)
           s == steps[i]
<1>1. /\ Walls!Fills = {j \in 1..Len(steps) : steps[j].kind = "fill"} /\ Len(steps) \in Nat
      /\ delivered.trade \in Nat
  BY WallFacts DEF Walls!Fills, WallsInv, WallTypes
<1>2. Later \in SUBSET (1..Len(steps)) /\ Later # {}
  BY <1>1 DEF Walls!Execution
<1>3. i \in Later /\ \A j \in Later : j >= i
  <2>1. Later \in SUBSET Nat
    BY <1>1, <1>2
  <2> HIDE DEF Later
  <2>2. \E x \in Later : \A y \in Later : x <= y
    BY <1>2, <2>1, LeastNatural
  <2>3. \E x \in Later : \A y \in Later : y >= x
    BY <2>1, <2>2
  <2> QED BY <2>3 DEF Walls!Lowest
<1>4. /\ i \in 1..Len(steps) /\ i > delivered.trade /\ s.kind = "fill"
      /\ \A j \in delivered.trade + 1..i - 1 : steps[j].kind # "fill"
  <2>1. i \in 1..Len(steps) /\ i > delivered.trade /\ s.kind = "fill"
    BY <1>1, <1>3
  <2>2. ASSUME NEW j \in delivered.trade + 1..i - 1, steps[j].kind = "fill"
        PROVE  FALSE
    <3>1. j \in Nat /\ i \in Nat /\ j < i /\ j > delivered.trade /\ j \in 1..Len(steps)
      <4> HIDE DEF i
      <4> QED BY <1>1, <2>1
    <3>2. j \in Later
      BY <1>1, <2>2, <3>1
    <3>3. j >= i
      BY <1>3, <3>2
    <3> HIDE DEF i
    <3> QED BY <3>1, <3>3
  <2> QED BY <2>1, <2>2
<1>5. /\ pending' = [pending EXCEPT ![s.side] = @ + s.size]
      /\ delivered' = [delivered EXCEPT !.trade = i]
      /\ steps' = steps /\ book' = book /\ mirror' = mirror /\ flow' = flow /\ crossing' = crossing
  BY DEF Walls!Execution, Walls!Consumed
<1>6. delivered' = [book |-> delivered.book, trade |-> i]
  BY <1>5 DEF WallsInv, WallTypes
<1> HIDE DEF i, Later
<1>7. s.side \in Sides /\ s.size \in Nat
  BY <1>4, WallFacts, WallConstants DEF WallsInv, StepType
<1> HIDE DEF s
<1>8. pending' \in [Sides -> Nat]
  <2>1. pending \in [Sides -> Nat]
    BY DEF WallsInv, WallTypes
  <2> QED BY <1>5, <1>7, <2>1
<1>9. WallTypes'
  <2>1. i \in 0..Len(steps)
    BY <1>1, <1>4
  <2> QED BY <1>5, <1>6, <1>8, <2>1 DEF WallsInv, WallTypes
<1>10. BookMoves'
  BY <1>5, <1>6 DEF WallsInv, BookMoves
<1>11. FlowsOk'
  <2> SUFFICES ASSUME ~crossing, NEW side \in Sides
               PROVE  FlowOk(side, flow[side], pending[side], steps, delivered)'
    BY <1>5 DEF FlowsOk
  <2>1. FlowOk(side, flow[side], pending[side], steps, delivered)
    BY DEF WallsInv, FlowsOk
  <2>2. Count(steps, {"fill"}, side, i) =
          IF s.side = side THEN Count(steps, {"fill"}, side, delivered.trade) + s.size
          ELSE Count(steps, {"fill"}, side, delivered.trade)
    <3> DEFINE k == i - 1
    <3>1. k \in Nat /\ k + 1 = i /\ k + 1 <= Len(steps) /\ delivered.trade <= k
      BY <1>1, <1>4
    <3>2. Parts(steps, {"fill"}, side, k) = Parts(steps, {"fill"}, side, delivered.trade)
      <4>1. \A j \in 1..k : steps[j].kind = "fill" => j \in 1..delivered.trade
        BY <1>1, <1>4, <3>1
      <4>2. \A j \in 1..delivered.trade : j \in 1..k
        BY <1>1, <3>1
      <4> HIDE DEF k
      <4> QED BY <4>1, <4>2 DEF Parts
    <3>3. steps \in Seq(StepType)
      BY DEF WallsInv, WallTypes
    <3> HIDE DEF k
    <3> DEFINE K == {"fill"}
    <3>4. s = steps[k + 1] /\ s.kind \in K
      BY <1>4, <3>1 DEF s
    <3> HIDE DEF K
    <3>5. Count(steps, K, side, k + 1) =
            IF steps[k + 1].kind \in K /\ steps[k + 1].side = side
            THEN Count(steps, K, side, k) + steps[k + 1].size ELSE Count(steps, K, side, k)
      BY <3>1, <3>3, UnitsGrow
    <3>6. Count(steps, K, side, k) = Count(steps, K, side, delivered.trade)
      BY <3>2 DEF Count, K
    <3> QED BY <3>1, <3>4, <3>5, <3>6 DEF K
  <2>3. pending'[side] = IF s.side = side THEN pending[side] + s.size ELSE pending[side]
    BY <1>5, <1>7 DEF WallsInv, WallTypes
  <2>4. flow[side].executed \in Nat /\ pending[side] \in Nat /\ Count(steps, {"fill"}, side, delivered.trade) \in Nat
    BY <1>1, WallFacts, UnitsFinite DEF WallsInv
  <2>5. flow[side].executed + pending'[side] = Count(steps, {"fill"}, side, i)
    BY <1>7, <2>1, <2>2, <2>3, <2>4 DEF FlowOk
  <2> QED BY <1>5, <1>6, <2>1, <2>5 DEF FlowOk
<1> QED BY <1>9, <1>10, <1>11 DEF WallsInv

\* A new snapshot.
LEMMA BookResyncs ==
  ASSUME WallsInv, Walls!Resync
  PROVE  WallsInv'
<1> DEFINE n == Len(steps)
<1>1. /\ n \in Nat /\ Len(book) = n + 1 /\ Walls!Now = book[n + 1]
      /\ delivered.book \in 0..n /\ delivered.trade \in 0..n
  BY WallFacts, SameWallOperators DEF WallsInv, WallTypes, Walls!Now
<1>2. /\ mirror' = book[n + 1] /\ pending' = [side \in Sides |-> 0]
      /\ crossing' = (crossing \/ ~Walls!Printed(n) \/ pending # [side \in Sides |-> 0])
      /\ delivered' = [book |-> n, trade |-> delivered.trade]
      /\ book' = book /\ steps' = steps /\ flow' = flow
  BY <1>1, SameWallOperators DEF Walls!Resync, WallsInv, WallTypes
<1>3. WallTypes'
  <2>1. crossing' \in BOOLEAN
    BY <1>2 DEF WallsInv, WallTypes
  <2>2. pending' \in [Sides -> Nat]
    BY <1>2
  <2>3. n \in 0..n
    BY <1>1
  <2> QED BY <1>1, <1>2, <2>1, <2>2, <2>3 DEF WallsInv, WallTypes
<1>4. BookMoves'
  BY <1>2 DEF WallsInv, BookMoves
<1>5. FlowsOk'
  <2> SUFFICES ASSUME ~crossing', NEW side \in Sides
               PROVE  FlowOk(side, flow[side], pending[side], steps, delivered)'
    BY DEF FlowsOk
  <2>1. ~crossing /\ pending = [q \in Sides |-> 0]
    BY <1>2 DEF WallsInv, WallTypes
  <2>2. FlowOk(side, flow[side], pending[side], steps, delivered)
    BY <2>1 DEF WallsInv, FlowsOk
  <2>3. pending'[side] = pending[side]
    BY <1>2, <2>1
  <2>4. Count(steps, Gone, side, delivered.book) <= Count(steps, Gone, side, n)
    <3>1. Parts(steps, Gone, side, delivered.book) \in SUBSET Parts(steps, Gone, side, n)
      BY <1>1 DEF Parts
    <3>2. IsFiniteSet(Parts(steps, Gone, side, n))
      BY <1>1, UnitsFinite
    <3> QED BY <3>1, <3>2, FS_Subset DEF Count
  <2>5. /\ Count(steps, Gone, side, delivered.book) \in Nat /\ Count(steps, Gone, side, n) \in Nat
        /\ flow[side].removed \in Nat
    BY <1>1, UnitsFinite, WallFacts DEF WallsInv
  <2>6. flow[side].removed <= Count(steps, Gone, side, n)
    <3>1. flow[side].removed <= Count(steps, Gone, side, delivered.book)
      BY <2>2 DEF FlowOk
    <3> QED BY <2>4, <2>5, <3>1
  <2> QED BY <1>2, <2>2, <2>3, <2>6 DEF FlowOk
<1> QED BY <1>3, <1>4, <1>5 DEF WallsInv

\* Another part runs.
LEMMA WallsRest == ASSUME WallsInv, UNCHANGED wallVars PROVE WallsInv'
BY DEF WallsInv, wallVars, WallTypes, BookMoves, FlowsOk, FlowOk

\* Books and mirror agree at the start.
LEMMA WallsBegin == ASSUME Walls!Init PROVE WallsInv
<1>1. /\ steps = <<>> /\ delivered = [book |-> 0, trade |-> 0] /\ mirror = book[1]
      /\ pending = [side \in Sides |-> 0] /\ crossing = FALSE
      /\ flow = [side \in Sides |-> [added |-> 0, removed |-> 0, executed |-> 0]]
  BY SameWallOperators DEF Walls!Init
<1>2. PICK b \in WallBooks : book = <<b>>
  BY DEF Walls!Init
<1>3. b \in BookType
  BY ViewsAssumption DEF BookType, Sides
<1>4. book \in Seq(BookType) /\ Len(book) = 1
  BY <1>2, <1>3
<1>5. steps \in Seq(StepType) /\ Len(steps) = 0
  BY <1>1
<1>6. flow \in [Sides -> FlowType] /\ pending \in [Sides -> Nat]
  BY <1>1 DEF FlowType
<1>7. WallTypes
  <2>1. delivered.book = 0 /\ delivered.trade = 0 /\ crossing \in BOOLEAN
    BY <1>1
  <2>2. 0 \in 0..Len(steps)
    BY <1>5
  <2>3. Len(book) = Len(steps) + 1
    BY <1>4, <1>5
  <2> QED BY <1>1, <1>4, <1>5, <1>6, <2>1, <2>2, <2>3 DEF WallTypes
<1>8. BookMoves
  BY <1>1, <1>5 DEF BookMoves
<1>9. FlowsOk
  <2>1. \A kinds, side : Count(steps, kinds, side, 0) = 0
    <3>1. \A kinds, side : Parts(steps, kinds, side, 0) = {}
      BY DEF Parts
    <3> QED BY <3>1, FS_EmptySet DEF Count
  <2> QED BY <1>1, <2>1 DEF FlowsOk, FlowOk
<1> QED BY <1>7, <1>8, <1>9 DEF WallsInv

\* Every step of the walls.
LEMMA WallsGoOn ==
  ASSUME WallsInv, [ViewsNext]_<<part, vars, frameVars, wallVars, scoreVars>>
  PROVE  WallsInv'
<1>1. CASE Walls!Next
  BY <1>1, ExchangeSteps, DeltaArrives, ExecutionArrives, BookResyncs DEF Walls!Next
<1>2. CASE UNCHANGED wallVars
  BY <1>2, WallsRest
<1> QED BY <1>1, <1>2 DEF ViewsNext

\* Trading is not read as pulling: once prints and changes have both arrived no
\* more counts as cancelled on a side than was withdrawn, whatever is delivered
\* when, unless a snapshot tore them apart (note_trade, LevelFlow.cancelled).
THEOREM NoTradeIsAPull == ViewsSpec => []PullsAreReal
<1>1. ViewsInit => WallsInv
  BY WallsBegin DEF ViewsInit
<1>2. WallsInv /\ [ViewsNext]_<<part, vars, frameVars, wallVars, scoreVars>> => WallsInv'
  BY WallsGoOn
<1>3. WallsInv => PullsAreReal
  <2> SUFFICES ASSUME WallsInv, Walls!Printed(delivered.book), pending = [q \in Sides |-> 0], ~crossing,
                      NEW side \in Sides
               PROVE  Walls!Cancelled(side) <= Walls!Pulled(side)
    BY SameWallOperators DEF PullsAreReal, Walls!PullsAreReal
  <2> DEFINE n == delivered.book
             filled == Count(steps, {"fill"}, side, n)
             pulled == Count(steps, {"pull"}, side, n)
             f == flow[side]
  <2>1. n \in Nat /\ delivered.trade \in Nat /\ n <= Len(steps) /\ delivered.trade <= Len(steps)
        /\ Len(steps) \in Nat
    BY WallFacts DEF WallsInv, WallTypes
  <2>2. Count(steps, {"fill"}, side, delivered.trade) = filled
    <3>1. \A i \in 1..Len(steps) : steps[i].kind = "fill" => (i <= delivered.trade <=> i <= n)
      BY WallFacts DEF WallsInv, Walls!Printed, Walls!Fills
    <3>2. Parts(steps, {"fill"}, side, delivered.trade) = Parts(steps, {"fill"}, side, n)
      <4>1. \A i \in 1..delivered.trade : steps[i].kind = "fill" => i \in 1..n
        BY <2>1, <3>1
      <4>2. \A i \in 1..n : steps[i].kind = "fill" => i \in 1..delivered.trade
        BY <2>1, <3>1
      <4> HIDE DEF n
      <4> QED BY <4>1, <4>2 DEF Parts
    <3> QED BY <3>2 DEF Count
  <2>3. Count(steps, Gone, side, n) = filled + pulled
    <3> DEFINE F == Parts(steps, {"fill"}, side, n)
               P == Parts(steps, {"pull"}, side, n)
    <3>1. Parts(steps, Gone, side, n) = F \cup P /\ F \cap P = {}
      BY DEF Parts, Gone
    <3>2. IsFiniteSet(F) /\ IsFiniteSet(P)
      BY <2>1, UnitsFinite
    <3> HIDE DEF F, P
    <3>3. Cardinality(F \cup P) = Cardinality(F) + Cardinality(P) - Cardinality({})
      BY <3>1, <3>2, FS_Union
    <3>4. Cardinality(F) \in Nat /\ Cardinality(P) \in Nat /\ Cardinality({}) = 0
      BY <3>2, FS_CardinalityType, FS_EmptySet
    <3> QED BY <3>1, <3>3, <3>4 DEF Count, F, P
  <2>4. FlowOk(side, f, 0, steps, delivered)
    <3>1. pending[side] = 0
      OBVIOUS
    <3> QED BY <3>1 DEF WallsInv, FlowsOk
  <2>5. f.executed \in Nat /\ f.removed \in Nat /\ filled \in Nat /\ pulled \in Nat
    BY <2>1, UnitsFinite, WallFacts DEF WallsInv
  <2>6. Walls!Pulled(side) = pulled
    BY SameWallOperators DEF Walls!Pulled, Walls!Units, Count, Parts
  <2>7. f.executed = filled /\ f.removed <= filled + pulled
    BY <2>2, <2>3, <2>4, <2>5 DEF FlowOk
  <2> HIDE DEF filled, pulled
  <2> QED BY <2>5, <2>6, <2>7 DEF Walls!Cancelled
<1> QED BY <1>1, <1>2, <1>3, PTL DEF ViewsSpec
-----------------------------------------------------------------------------
(* The series of bars.                                                     *)

\* A bar.
Bar == [start : Int, open : Int, high : Int, low : Int, close : Int, closed : BOOLEAN]

\* Each start once, in the order of time.
InOrder(s) == \A i, j \in DOMAIN s : i < j => s[i].start < s[j].start
Series(s) == s \in Seq(Bar) /\ InOrder(s)

\* What a series is used for.
LEMMA SeriesFacts ==
  ASSUME NEW s, Series(s)
  PROVE  /\ Len(s) \in Nat /\ DOMAIN s = 1..Len(s) /\ s \in Seq(Bar)
         /\ \A i \in 1..Len(s) : s[i] \in Bar /\ s[i].start \in Int /\ s[i].closed \in BOOLEAN
         /\ \A i, j \in 1..Len(s) : i < j <=> s[i].start < s[j].start
         /\ \A i, j \in 1..Len(s) : s[i].start = s[j].start => i = j
         /\ \A c : c \in Range(s) <=> \E i \in 1..Len(s) : s[i] = c
<1>1. Len(s) \in Nat /\ DOMAIN s = 1..Len(s) /\ s \in Seq(Bar) /\ \A i \in 1..Len(s) : s[i] \in Bar
  BY RangeIs, LenProperties DEF Series
<1>2. \A i \in 1..Len(s) : s[i].start \in Int /\ s[i].closed \in BOOLEAN
  BY <1>1 DEF Bar
<1>3. \A i, j \in 1..Len(s) : i < j => s[i].start < s[j].start
  BY <1>1 DEF Series, InOrder
<1>4. ASSUME NEW i \in 1..Len(s), NEW j \in 1..Len(s)
      PROVE  /\ s[i].start < s[j].start => i < j
             /\ s[i].start = s[j].start => i = j
  <2>1. s[i].start \in Int /\ s[j].start \in Int
    BY <1>2
  <2>2. CASE i < j
    BY <1>3, <2>1, <2>2
  <2>3. CASE j < i
    BY <1>3, <2>1, <2>3
  <2>4. CASE i = j
    BY <2>1, <2>4
  <2> QED BY <2>2, <2>3, <2>4
<1>5. \A c : c \in Range(s) <=> \E i \in 1..Len(s) : s[i] = c
  BY <1>1 DEF Range
<1> QED BY <1>1, <1>2, <1>3, <1>4, <1>5

\* The bars at some positions are a series again.
LEMMA PickedSeries ==
  ASSUME NEW s, Series(s), NEW P \in SUBSET (1..Len(s))
  PROVE  /\ Series(Picked(s, P))
         /\ \A i \in P : s[i] \in Range(Picked(s, P))
         /\ \A x \in Range(Picked(s, P)) : \E i \in P : x = s[i]
<1> DEFINE t == Picked(s, P)
<1>1. P \subseteq DOMAIN s /\ s \in Seq(Bar)
  BY SeriesFacts
<1>2. /\ t \in Seq(Bar) /\ Len(t) = Cardinality(P)
      /\ \A k \in 1..Cardinality(P) : Nth(P, k) \in P /\ t[k] = s[Nth(P, k)]
      /\ \A k, l \in 1..Cardinality(P) : k < l => Nth(P, k) < Nth(P, l)
  BY <1>1, PickedElements
<1>3. /\ \A i \in P : s[i] \in Range(t)
      /\ \A x \in Range(t) : \E i \in P : x = s[i]
  BY <1>1, PickedFrom
<1> HIDE DEF t
<1>4. DOMAIN t = 1..Cardinality(P)
  BY <1>2, RangeIs
<1>5. InOrder(t)
  <2> SUFFICES ASSUME NEW k \in 1..Cardinality(P), NEW l \in 1..Cardinality(P), k < l
               PROVE  t[k].start < t[l].start
    BY <1>4 DEF InOrder
  <2>1. Nth(P, k) \in 1..Len(s) /\ Nth(P, l) \in 1..Len(s) /\ Nth(P, k) < Nth(P, l)
    BY <1>2
  <2>2. s[Nth(P, k)].start < s[Nth(P, l)].start
    BY <2>1, SeriesFacts
  <2> QED BY <1>2, <2>2
<1> QED BY <1>2, <1>3, <1>5 DEF Series, t

\* t is what is left of s when its first d elements are dropped.
EndOf(s, t, d) == Len(t) = Len(s) - d /\ \A k \in 1..Len(s) - d : t[k] = s[k + d]
\* How many go when n are kept.
Dropped(s, n) == IF Len(s) > n THEN Len(s) - n ELSE 0

\* The newest bars are the last ones.
LEMMA NewestAre ==
  ASSUME NEW S, NEW s \in Seq(S), NEW n \in Nat
  PROVE  /\ Newest(s, n) \in Seq(S) /\ EndOf(s, Newest(s, n), Dropped(s, n))
         /\ Dropped(s, n) \in 0..Len(s)
<1>1. Len(s) \in Nat /\ \A k \in 1..Len(s) : s[k] \in S
  OBVIOUS
<1>2. CASE Len(s) > n
  <2> DEFINE d == Dropped(s, n)
             e == d + 1
  <2>1. d = Len(s) - n /\ d \in 0..Len(s) /\ Len(s) - d = n
    BY <1>1, <1>2 DEF Dropped
  <2>2. e = Len(s) - n + 1 /\ e \in 1..Len(s) + 1 /\ Len(s) \in e - 1..Len(s) /\ Len(s) - e + 1 = n
    BY <1>1, <1>2, <2>1
  <2>3. Newest(s, n) = SubSeq(s, e, Len(s))
    BY <1>2, <2>2 DEF Newest
  <2>4. \A k \in 1..n : e + k - 1 = k + d
    BY <1>1, <2>1
  <2> HIDE DEF d, e
  <2>5. /\ SubSeq(s, e, Len(s)) \in Seq(S) /\ Len(SubSeq(s, e, Len(s))) = n
        /\ \A k \in 1..n : SubSeq(s, e, Len(s))[k] = s[e + k - 1]
    BY <1>1, <2>2, SubSeqProperties
  <2> QED BY <2>1, <2>3, <2>4, <2>5 DEF EndOf, d
<1>3. CASE ~(Len(s) > n)
  <2>1. Newest(s, n) = s /\ Dropped(s, n) = 0 /\ 0 \in 0..Len(s) /\ Len(s) - 0 = Len(s) /\ \A k \in 1..Len(s) : k + 0 = k
    BY <1>1, <1>3 DEF Newest, Dropped
  <2> QED BY <2>1 DEF EndOf
<1> QED BY <1>2, <1>3

\* The end of a series is one, and has every bar after one it has.
LEMMA EndSeries ==
  ASSUME NEW s, Series(s), NEW d \in 0..Len(s), NEW t \in Seq(Bar), EndOf(s, t, d)
  PROVE  /\ Series(t)
         /\ \A c \in Range(t) : c \in Range(s)
         /\ \A c \in Range(s), e \in Range(t) : e.start <= c.start => c \in Range(t)
<1>1. Len(s) \in Nat /\ s \in Seq(Bar) /\ DOMAIN s = 1..Len(s)
  BY SeriesFacts
<1>2. Len(t) = Len(s) - d /\ \A k \in 1..Len(s) - d : t[k] = s[k + d]
  BY DEF EndOf
<1>3. DOMAIN t = 1..Len(s) - d /\ \A k \in 1..Len(s) - d : k + d \in 1..Len(s) /\ k \in Int
  BY <1>1, <1>2, RangeIs
<1>4. Series(t)
  <2>1. ASSUME NEW k \in 1..Len(s) - d, NEW l \in 1..Len(s) - d, k < l
        PROVE  t[k].start < t[l].start
    <3>1. k + d \in 1..Len(s) /\ l + d \in 1..Len(s) /\ k + d < l + d
      BY <1>1, <1>3, <2>1
    <3>2. s[k + d].start < s[l + d].start
      BY <3>1, SeriesFacts
    <3> QED BY <1>2, <3>2
  <2> QED BY <1>3, <2>1 DEF Series, InOrder
<1>5. ASSUME NEW c \in Range(t)
      PROVE  \E k \in 1..Len(s) - d : c = s[k + d]
  BY <1>2, <1>3 DEF Range
<1>6. \A c \in Range(t) : c \in Range(s)
  BY <1>3, <1>5, SeriesFacts
<1>7. ASSUME NEW c \in Range(s), NEW e \in Range(t), e.start <= c.start
      PROVE  c \in Range(t)
  <2>1. PICK i \in 1..Len(s) : c = s[i]
    BY SeriesFacts
  <2>2. PICK k \in 1..Len(s) - d : e = s[k + d]
    BY <1>5
  <2>3. k + d <= i
    <3>1. CASE i < k + d
      <4>1. s[i].start < s[k + d].start
        BY <1>3, <3>1, SeriesFacts
      <4>2. s[i].start \in Int /\ s[k + d].start \in Int
        BY <1>3, SeriesFacts
      <4> QED BY <1>7, <2>1, <2>2, <4>1, <4>2
    <3> QED BY <1>1, <1>3, <3>1
  <2>4. i - d \in 1..Len(s) - d /\ (i - d) + d = i
    BY <1>1, <2>3
  <2>5. t[i - d] = c
    BY <1>2, <2>1, <2>4
  <2> QED BY <1>3, <2>4, <2>5 DEF Range
<1> QED BY <1>4, <1>6, <1>7

\* So the newest bars of a series are one, its end.
LEMMA NewestSeries ==
  ASSUME NEW s, Series(s), NEW n \in Nat
  PROVE  /\ Series(Newest(s, n))
         /\ \A c \in Range(Newest(s, n)) : c \in Range(s)
         /\ \A c \in Range(s), e \in Range(Newest(s, n)) : e.start <= c.start => c \in Range(Newest(s, n))
<1> DEFINE t == Newest(s, n)
           d == Dropped(s, n)
<1>1. s \in Seq(Bar)
  BY SeriesFacts
<1>2. t \in Seq(Bar) /\ d \in 0..Len(s) /\ EndOf(s, t, d)
  BY <1>1, NewestAre
<1> HIDE DEF t, d
<1>3. /\ Series(t)
      /\ \A c \in Range(t) : c \in Range(s)
      /\ \A c \in Range(s), e \in Range(t) : e.start <= c.start => c \in Range(t)
  BY <1>2, EndSeries
<1> QED BY <1>3 DEF t

\* The closed bars of a series.
LEMMA ClosedBars ==
  ASSUME NEW s, Series(s)
  PROVE  /\ Series(Closed(s))
         /\ \A c : c \in Range(Closed(s)) <=> c \in Range(s) /\ c.closed
<1> DEFINE P == {i \in DOMAIN s : s[i].closed}
<1>1. P \in SUBSET (1..Len(s)) /\ Closed(s) = Picked(s, P)
  BY SeriesFacts DEF Closed
<1>2. /\ Series(Closed(s))
      /\ \A i \in P : s[i] \in Range(Closed(s))
      /\ \A x \in Range(Closed(s)) : \E i \in P : x = s[i]
  BY <1>1, PickedSeries
<1> QED BY <1>2, SeriesFacts

\* All positions pick the whole list.
LEMMA AllPicked ==
  ASSUME NEW S, NEW s \in Seq(S)
  PROVE  Picked(s, DOMAIN s) = s
<1> DEFINE n == Len(s)
<1>1. n \in Nat /\ DOMAIN s = 1..n /\ s \in [1..n -> S]
  BY RangeIs, LenProperties
<1> HIDE DEF n
<1>2. \A i \in 1..n : {j \in 1..n : j <= i} = 1..i /\ i \in Int
  BY <1>1
<1>3. \A i \in 1..n : Cardinality(1..i) = i
  <2> SUFFICES ASSUME NEW i \in 1..n PROVE Cardinality(1..i) = i
    OBVIOUS
  <2>1. 1 \in Int /\ i \in Int /\ ~(1 > i) /\ i - 1 + 1 = i
    BY <1>1
  <2> QED BY <2>1, FS_Interval
<1>4. Cardinality(1..n) = n
  <2>1. 1 \in Int /\ n \in Int /\ (1 > n => n = 0) /\ n - 1 + 1 = n
    BY <1>1
  <2> QED BY <2>1, FS_Interval
<1>5. \A k \in 1..n : Nth(1..n, k) = k
  <2> SUFFICES ASSUME NEW k \in 1..n PROVE Nth(1..n, k) = k
    OBVIOUS
  <2>1. \A i \in 1..n : Cardinality({j \in 1..n : j <= i}) = i
    BY <1>2, <1>3
  <2> QED BY <2>1 DEF Nth
<1> QED BY <1>1, <1>4, <1>5 DEF Picked

\* The closed bars of closed bars are all of them.
LEMMA ClosedTwice ==
  ASSUME NEW s, Series(s)
  PROVE  Closed(Closed(s)) = Closed(s)
<1> DEFINE b == Closed(s)
<1>1. Series(b) /\ \A c \in Range(b) : c.closed
  BY ClosedBars
<1> HIDE DEF b
<1>2. {i \in DOMAIN b : b[i].closed} = DOMAIN b
  BY <1>1 DEF Range
<1>3. Closed(b) = Picked(b, DOMAIN b)
  BY <1>2 DEF Closed
<1> QED BY <1>1, <1>3, AllPicked DEF Series, b
-----------------------------------------------------------------------------
(* A bar finds its place.                                                  *)

\* t is series s with `bar` in the place of the bar of its start.
With(s, bar, t) ==
    /\ Series(t)
    /\ \A d : d \in Range(t) <=> d = bar \/ (d \in Range(s) /\ d.start # bar.start)

\* Placing a bar makes such a series, cut to its newest bars, in which a closed bar is final.
LEMMA Placed ==
  ASSUME NEW s, Series(s), NEW c \in Bar
  PROVE  \E bar \in Bar : \E t :
            /\ bar.start = c.start /\ With(s, bar, t) /\ Place(s, c) = Newest(t, MaxCandles)
            /\ bar = c \/ (bar \in Range(s) /\ bar.closed /\ ~c.closed)
            /\ \A d \in Range(s) : d.start = c.start /\ d.closed /\ ~c.closed => bar = d
<1> DEFINE O == {i \in DOMAIN s : s[i].start < c.start}
           N == {i \in DOMAIN s : s[i].start > c.start}
           older == Picked(s, O)
           newer == Picked(s, N)
           final == {d \in Range(s) : d.start = c.start /\ ~Supersedes(c, d)}
           bar == IF final = {} THEN c ELSE CHOOSE d \in final : TRUE
           t == older \o <<bar>> \o newer
<1>1. Place(s, c) = Newest(t, MaxCandles)
  BY DEF Place
<1>2. \A d \in final : d \in Range(s) /\ d.start = c.start /\ d.closed /\ ~c.closed
  BY DEF Supersedes
<1>3. \A d \in Range(s) : d \in Bar
  BY SeriesFacts
<1>4. bar \in Bar /\ bar.start = c.start /\ (bar = c \/ (bar \in Range(s) /\ bar.closed /\ ~c.closed))
  <2>1. CASE final = {}
    BY <2>1
  <2>2. CASE final # {}
    <3>1. bar \in final
      BY <2>2
    <3> QED BY <1>2, <1>3, <3>1
  <2> QED BY <2>1, <2>2
<1>5. ASSUME NEW d \in Range(s), d.start = c.start, d.closed, ~c.closed
      PROVE  bar = d
  <2>1. d \in final
    BY <1>5 DEF Supersedes
  <2>2. bar \in final
    BY <2>1
  <2>3. bar \in Range(s) /\ bar.start = d.start
    BY <1>2, <1>5, <2>2
  <2> HIDE DEF bar
  <2> QED BY <2>3, SeriesFacts
<1> HIDE DEF bar, final
<1>6. O \in SUBSET (1..Len(s)) /\ N \in SUBSET (1..Len(s))
  BY SeriesFacts
<1>7. /\ Series(older) /\ Series(newer)
      /\ \A i \in O : s[i] \in Range(older)
      /\ \A x \in Range(older) : \E i \in O : x = s[i]
      /\ \A i \in N : s[i] \in Range(newer)
      /\ \A x \in Range(newer) : \E i \in N : x = s[i]
  BY <1>6, PickedSeries
<1>8. /\ \A d : d \in Range(older) <=> d \in Range(s) /\ d.start < c.start
      /\ \A d : d \in Range(newer) <=> d \in Range(s) /\ d.start > c.start
  <2> HIDE DEF older, newer
  <2>1. \A i \in 1..Len(s) : s[i] \in Range(s)
    BY SeriesFacts
  <2>2. /\ \A i \in 1..Len(s) : i \in O <=> s[i].start < c.start
        /\ \A i \in 1..Len(s) : i \in N <=> s[i].start > c.start
    BY SeriesFacts
  <2> HIDE DEF O, N
  <2>3. ASSUME NEW d \in Range(s)
        PROVE  /\ d.start < c.start => d \in Range(older)
               /\ d.start > c.start => d \in Range(newer)
    <3>1. PICK i \in 1..Len(s) : s[i] = d
      BY SeriesFacts
    <3> QED BY <1>7, <2>2, <3>1
  <2>4. ASSUME NEW d \in Range(older)
        PROVE  d \in Range(s) /\ d.start < c.start
    <3>1. PICK i \in O : d = s[i]
      BY <1>7
    <3> QED BY <1>6, <2>1, <2>2, <3>1
  <2>5. ASSUME NEW d \in Range(newer)
        PROVE  d \in Range(s) /\ d.start > c.start
    <3>1. PICK i \in N : d = s[i]
      BY <1>7
    <3> QED BY <1>6, <2>1, <2>2, <3>1
  <2> QED BY <2>3, <2>4, <2>5
<1> HIDE DEF older, newer, O, N
<1> DEFINE m == Len(older)
           l == Len(newer)
<1>9. /\ m \in Nat /\ l \in Nat /\ t \in Seq(Bar) /\ Len(t) = m + 1 + l
      /\ \A k \in 1..m : t[k] = older[k]
      /\ t[m + 1] = bar
      /\ \A k \in 1..l : t[m + 1 + k] = newer[k]
  BY <1>4, <1>7, SeriesFacts
<1> HIDE DEF m, l, t
<1>10. DOMAIN t = 1..m + 1 + l /\ DOMAIN older = 1..m /\ DOMAIN newer = 1..l
  BY <1>7, <1>9, SeriesFacts, RangeIs DEF m, l
<1>11. /\ \A k \in 1..m : older[k] \in Range(older)
       /\ \A k \in 1..l : newer[k] \in Range(newer)
  BY <1>10 DEF Range
<1>12. \A k \in 1..m + 1 + l : k \in 1..m \/ k = m + 1 \/ \E q \in 1..l : k = m + 1 + q
  <2> SUFFICES ASSUME NEW k \in 1..m + 1 + l, k \notin 1..m, k # m + 1
               PROVE  \E q \in 1..l : k = m + 1 + q
    OBVIOUS
  <2>1. k - (m + 1) \in 1..l /\ k = m + 1 + (k - (m + 1))
    BY <1>9
  <2> QED BY <2>1
<1>13. \A d : d \in Range(t) <=> d = bar \/ (d \in Range(s) /\ d.start # bar.start)
  <2>1. \A d : d \in Range(t) <=> d = bar \/ d \in Range(older) \/ d \in Range(newer)
    <3>1. ASSUME NEW d \in Range(t)
          PROVE  d = bar \/ d \in Range(older) \/ d \in Range(newer)
      <4>1. PICK k \in 1..m + 1 + l : t[k] = d
        BY <1>10 DEF Range
      <4> QED BY <1>9, <1>11, <1>12, <4>1
    <3>2. bar \in Range(t)
      <4>1. m + 1 \in DOMAIN t
        BY <1>9, <1>10
      <4> QED BY <1>9, <4>1 DEF Range
    <3>3. ASSUME NEW d \in Range(older)
          PROVE  d \in Range(t)
      <4>1. PICK k \in 1..m : older[k] = d
        BY <1>10 DEF Range
      <4>2. k \in DOMAIN t /\ t[k] = d
        BY <1>9, <1>10, <4>1
      <4> QED BY <4>2 DEF Range
    <3>4. ASSUME NEW d \in Range(newer)
          PROVE  d \in Range(t)
      <4>1. PICK k \in 1..l : newer[k] = d
        BY <1>10 DEF Range
      <4>2. m + 1 + k \in DOMAIN t /\ t[m + 1 + k] = d
        BY <1>9, <1>10, <4>1
      <4> QED BY <4>2 DEF Range
    <3> QED BY <3>1, <3>2, <3>3, <3>4
  <2>2. \A d \in Range(s) : d.start \in Int /\ c.start \in Int
    BY SeriesFacts DEF Bar
  <2>3. \A d \in Range(s) : d.start # c.start <=> d.start < c.start \/ d.start > c.start
    BY <2>2
  <2> QED BY <1>4, <1>8, <2>1, <2>3
<1>14. InOrder(t)
  <2> SUFFICES ASSUME NEW i \in 1..m + 1 + l, NEW j \in 1..m + 1 + l, i < j
               PROVE  t[i].start < t[j].start
    BY <1>10 DEF InOrder
  <2>1. c.start \in Int
    BY DEF Bar
  <2>2. \A k \in 1..m : t[k].start < c.start /\ t[k].start \in Int
    <3>1. \A k \in 1..m : older[k] \in Bar
      BY <1>7, SeriesFacts DEF m
    <3> QED BY <1>8, <1>9, <1>11, <3>1 DEF Bar
  <2>3. \A k \in 1..l : t[m + 1 + k].start > c.start /\ t[m + 1 + k].start \in Int
    <3>1. \A k \in 1..l : newer[k] \in Bar
      BY <1>7, SeriesFacts DEF l
    <3> QED BY <1>8, <1>9, <1>11, <3>1 DEF Bar
  <2>4. t[m + 1].start = c.start
    BY <1>4, <1>9
  <2>5. CASE j \in 1..m
    <3>1. i \in 1..m
      BY <1>9, <2>5
    <3>2. older[i].start < older[j].start
      BY <1>7, <2>5, <3>1, SeriesFacts DEF m
    <3> QED BY <1>9, <2>5, <3>1, <3>2
  <2>6. CASE j = m + 1
    <3>1. i \in 1..m
      BY <1>9, <2>6
    <3> QED BY <2>2, <2>4, <2>6, <3>1
  <2>7. CASE \E q \in 1..l : j = m + 1 + q
    <3>1. PICK q \in 1..l : j = m + 1 + q
      BY <2>7
    <3>2. CASE i \in 1..m
      BY <2>1, <2>2, <2>3, <3>1, <3>2
    <3>3. CASE i = m + 1
      BY <2>3, <2>4, <3>1, <3>3
    <3>4. CASE \E p \in 1..l : i = m + 1 + p
      <4>1. PICK p \in 1..l : i = m + 1 + p
        BY <3>4
      <4>2. p < q
        BY <1>9, <3>1, <4>1
      <4>3. newer[p].start < newer[q].start
        BY <1>7, <4>2, SeriesFacts DEF l
      <4> QED BY <1>9, <3>1, <4>1, <4>3
    <3> QED BY <1>12, <3>2, <3>3, <3>4
  <2> QED BY <1>12, <2>5, <2>6, <2>7
<1>15. With(s, bar, t)
  BY <1>9, <1>13, <1>14 DEF With, Series
<1> QED BY <1>1, <1>4, <1>5, <1>15

\* The last bar is the latest.
LEMMA LatestIsLast ==
  ASSUME NEW s, Series(s), s # <<>>
  PROVE  /\ Last(s) = s[Len(s)] /\ Len(s) \in 1..Len(s)
         /\ \A i \in 1..Len(s) : s[i].start <= s[Len(s)].start
         /\ \A d \in Range(s) : d.start <= Last(s).start /\ d.start \in Int
<1>1. Last(s) = s[Len(s)] /\ Len(s) \in 1..Len(s)
  BY SeriesFacts DEF Last
<1>2. ASSUME NEW i \in 1..Len(s)
      PROVE  s[i].start <= s[Len(s)].start /\ s[i].start \in Int
  <2> DEFINE n == Len(s)
  <2>1. (i < n \/ i = n) /\ n \in 1..Len(s)
    BY <1>1
  <2>2. s[i].start \in Int /\ s[n].start \in Int
    BY <2>1, SeriesFacts
  <2> HIDE DEF n
  <2>3. i < n => s[i].start < s[n].start
    BY <2>1, SeriesFacts
  <2>4. s[i].start <= s[n].start
    BY <2>1, <2>2, <2>3
  <2> QED BY <2>2, <2>4 DEF n
<1>3. \A d \in Range(s) : \E i \in 1..Len(s) : s[i] = d
  BY SeriesFacts
<1> QED BY <1>1, <1>2, <1>3

\* Of a series, new has what comes after anything new has.
KeepsAfter(old, new) == \A d \in Range(old), e \in Range(new) : e.start <= d.start => d \in Range(new)

\* What is not dropped for its age, and stays closed, stays.
LEMMA PlacedKeeps ==
  ASSUME NEW s, Series(s), NEW c \in Bar, Grown(Closed(s), Closed(Place(s, c)))
  PROVE  /\ Series(Place(s, c))
         /\ KeepsAfter(Closed(s), Closed(Place(s, c)))
<1> DEFINE old == Closed(s)
           new == Closed(Place(s, c))
<1>0. MaxCandles \in Nat
  BY StructureAssumption
<1>1. PICK bar \in Bar : \E t :
            /\ bar.start = c.start /\ With(s, bar, t) /\ Place(s, c) = Newest(t, MaxCandles)
            /\ bar = c \/ (bar \in Range(s) /\ bar.closed /\ ~c.closed)
            /\ \A d \in Range(s) : d.start = c.start /\ d.closed /\ ~c.closed => bar = d
  BY Placed
<1>2. PICK t :
            /\ bar.start = c.start /\ With(s, bar, t) /\ Place(s, c) = Newest(t, MaxCandles)
            /\ bar = c \/ (bar \in Range(s) /\ bar.closed /\ ~c.closed)
            /\ \A d \in Range(s) : d.start = c.start /\ d.closed /\ ~c.closed => bar = d
  BY <1>1
<1>3. Series(t) /\ \A d : d \in Range(t) <=> d = bar \/ (d \in Range(s) /\ d.start # bar.start)
  BY <1>2 DEF With
<1>4. /\ Series(Place(s, c))
      /\ \A d \in Range(t), e \in Range(Place(s, c)) : e.start <= d.start => d \in Range(Place(s, c))
  BY <1>0, <1>2, <1>3, NewestSeries
<1>5. /\ Series(old) /\ Series(new)
      /\ \A d : d \in Range(old) <=> d \in Range(s) /\ d.closed
      /\ \A d : d \in Range(new) <=> d \in Range(Place(s, c)) /\ d.closed
  BY <1>4, ClosedBars
<1>6. old # <<>> /\ \A d \in Range(new) : d.start <= Last(old).start => d \in Range(old)
  BY DEF Grown
<1>7. \A d \in Range(old) : d.start <= Last(old).start /\ d.start \in Int
  BY <1>5, <1>6, LatestIsLast
<1> HIDE DEF old, new
<1>8. ASSUME NEW d \in Range(old), NEW e \in Range(new), e.start <= d.start
      PROVE  d \in Range(new)
  <2>1. d \in Range(s) /\ d.closed /\ e \in Range(Place(s, c))
    BY <1>5
  <2>2. CASE d \in Range(t)
    BY <1>4, <1>5, <1>8, <2>1, <2>2
  <2>3. CASE d \notin Range(t)
    <3>1. d.start = c.start /\ bar # d
      BY <1>2, <1>3, <2>1, <2>3
    <3>2. bar = c /\ c.closed /\ bar \in Range(t)
      BY <1>2, <1>3, <2>1, <3>1
    <3>3. bar \in Range(Place(s, c)) /\ bar \in Range(new)
      BY <1>2, <1>4, <1>5, <1>8, <2>1, <3>1, <3>2
    <3>4. bar \in Range(old)
      BY <1>2, <1>6, <1>7, <3>1, <3>3
    <3>5. bar = d
      BY <1>2, <1>5, <3>1, <3>4, SeriesFacts
    <3> QED BY <3>1, <3>5
  <2> QED BY <2>2, <2>3
<1> QED BY <1>4, <1>8 DEF KeepsAfter, old, new
-----------------------------------------------------------------------------
(* A swing that keeps its neighbours stays.                                *)

\* What the two have in common has common neighbours.
LEMMA NextToo ==
  ASSUME NEW old, Series(old), NEW new, Series(new), Grown(old, new), KeepsAfter(old, new),
         NEW i \in 1..Len(old), NEW j \in 1..Len(new), new[j] = old[i]
  PROVE  /\ i < Len(old) => j < Len(new) /\ new[j + 1] = old[i + 1]
         /\ j > 1 => i > 1 /\ new[j - 1] = old[i - 1]
<1>1. Len(old) \in Nat /\ Len(new) \in Nat
  BY SeriesFacts
<1>2. \A c \in Range(new) : c.start <= old[Len(old)].start => c \in Range(old)
  BY DEF Grown, Last
<1>3. \A q \in 1..Len(new) : new[q] \in Range(new) /\ new[q].start \in Int
  BY SeriesFacts
<1>4. \A r \in 1..Len(old) : old[r] \in Range(old) /\ old[r].start \in Int
  BY SeriesFacts
<1>5. \A r \in 1..Len(old) : old[r].start <= old[Len(old)].start
  BY LatestIsLast DEF Grown
<1>6. ASSUME i < Len(old)
      PROVE  j < Len(new) /\ new[j + 1] = old[i + 1]
  <2>1. i + 1 \in 1..Len(old) /\ i < i + 1
    BY <1>1, <1>6
  <2>2. old[i].start < old[i + 1].start
    BY <2>1, SeriesFacts
  <2>3. old[i + 1] \in Range(new)
    BY <1>3, <1>4, <2>1, <2>2 DEF KeepsAfter
  <2>4. PICK q \in 1..Len(new) : new[q] = old[i + 1]
    BY <2>3, SeriesFacts
  <2>5. j < q
    BY <2>2, <2>4, SeriesFacts
  <2>6. j + 1 \in 1..Len(new) /\ j < j + 1 /\ (j + 1 < q \/ j + 1 = q)
    BY <1>1, <2>5
  <2>7. new[j].start < new[j + 1].start
    BY <2>6, SeriesFacts
  <2>8. new[j + 1].start <= old[i + 1].start
    <3>1. j + 1 < q => new[j + 1].start < new[q].start
      BY <2>6, SeriesFacts
    <3> QED BY <1>3, <2>4, <2>6, <3>1
  <2>9. new[j + 1] \in Range(old)
    <3>1. new[j + 1].start <= old[Len(old)].start
      <4>1. new[j + 1].start \in Int /\ old[i + 1].start \in Int /\ old[Len(old)].start \in Int
        BY <1>1, <1>3, <1>4, <2>1, <2>6
      <4> QED BY <1>5, <2>1, <2>8, <4>1
    <3> QED BY <1>2, <1>3, <2>6, <3>1
  <2>10. PICK r \in 1..Len(old) : old[r] = new[j + 1]
    BY <2>9, SeriesFacts
  <2>11. i < r
    BY <2>7, <2>10, SeriesFacts
  <2>12. ~(i + 1 < r)
    <3>1. i + 1 < r => old[i + 1].start < old[r].start
      BY <2>1, SeriesFacts
    <3> QED BY <1>4, <2>1, <2>8, <2>10, <3>1
  <2>13. r = i + 1
    BY <2>11, <2>12
  <2> QED BY <1>1, <2>6, <2>10, <2>13
<1>7. ASSUME j > 1
      PROVE  i > 1 /\ new[j - 1] = old[i - 1]
  <2>1. j - 1 \in 1..Len(new) /\ j - 1 < j
    BY <1>1, <1>7
  <2>2. new[j - 1].start < new[j].start
    BY <2>1, SeriesFacts
  <2>3. new[j - 1] \in Range(old)
    <3>1. new[j - 1].start <= old[Len(old)].start
      <4>1. new[j - 1].start \in Int /\ old[i].start \in Int /\ old[Len(old)].start \in Int
        BY <1>1, <1>3, <1>4, <2>1
      <4> QED BY <1>5, <2>2, <4>1
    <3> QED BY <1>2, <1>3, <2>1, <3>1
  <2>4. PICK r \in 1..Len(old) : old[r] = new[j - 1]
    BY <2>3, SeriesFacts
  <2>5. r < i
    BY <2>2, <2>4, SeriesFacts
  <2>6. i - 1 \in 1..Len(old) /\ i - 1 < i /\ (r < i - 1 \/ r = i - 1)
    BY <1>1, <2>5
  <2>7. r = i - 1
    <3> SUFFICES ASSUME r < i - 1
                 PROVE  FALSE
      BY <2>6
    <3>1. old[r].start < old[i - 1].start /\ old[i - 1].start < old[i].start
      BY <2>6, SeriesFacts
    <3>2. old[i - 1] \in Range(new)
      BY <1>3, <1>4, <2>1, <2>4, <2>6, <3>1 DEF KeepsAfter
    <3>3. PICK q \in 1..Len(new) : new[q] = old[i - 1]
      BY <3>2, SeriesFacts
    <3>4. q < j /\ j - 1 < q
      BY <2>1, <2>4, <3>1, <3>3, SeriesFacts
    <3> QED BY <3>4
  <2> QED BY <1>1, <2>4, <2>6, <2>7
<1> QED BY <1>6, <1>7

\* What comes after two places, or before them, is the same.
AlikeAfter(old, i, new, j, n) == \A k \in 0..n : j + k <= Len(new) /\ new[j + k] = old[i + k]
AlikeBefore(old, i, new, j, n) == \A k \in 0..n : i - k >= 1 /\ new[j - k] = old[i - k]

\* Counting on, the neighbours near and far are common.
LEMMA NeighboursToo ==
  ASSUME NEW old, Series(old), NEW new, Series(new), Grown(old, new), KeepsAfter(old, new),
         NEW i \in 1..Len(old), NEW j \in 1..Len(new), new[j] = old[i], NEW n \in Nat
  PROVE  /\ i + n <= Len(old) => AlikeAfter(old, i, new, j, n)
         /\ j - n >= 1 => AlikeBefore(old, i, new, j, n)
<1>1. Len(old) \in Nat /\ Len(new) \in Nat
  BY SeriesFacts
<1>2. ASSUME i + n <= Len(old)
      PROVE  AlikeAfter(old, i, new, j, n)
  <2> DEFINE S == {k \in Nat : j + k <= Len(new) /\ new[j + k] = old[i + k]}
  <2>1. 0 \in S
    <3>1. j + 0 = j /\ i + 0 = i /\ j + 0 <= Len(new)
      BY <1>1
    <3> QED BY <3>1
  <2>2. ASSUME NEW k \in 0..(n - 1), k \in S
        PROVE  k + 1 \in S
    <3> DEFINE a == i + k
               b == j + k
    <3>1. a \in 1..Len(old) /\ b \in 1..Len(new) /\ new[b] = old[a] /\ a < Len(old) /\ k + 1 \in Nat
      BY <1>1, <1>2, <2>2
    <3>2. b + 1 = j + (k + 1) /\ a + 1 = i + (k + 1) /\ b \in Int
      BY <1>1, <3>1
    <3> HIDE DEF a, b
    <3>3. b < Len(new) /\ new[b + 1] = old[a + 1]
      BY <3>1, NextToo
    <3>4. b + 1 <= Len(new)
      BY <1>1, <3>2, <3>3
    <3> QED BY <3>1, <3>2, <3>3, <3>4
  <2> HIDE DEF S
  <2>3. 0..n \subseteq S
    BY <2>1, <2>2, Counting
  <2> QED BY <2>3 DEF S, AlikeAfter
<1>3. ASSUME j - n >= 1
      PROVE  AlikeBefore(old, i, new, j, n)
  <2> DEFINE S == {k \in Nat : i - k >= 1 /\ new[j - k] = old[i - k]}
  <2>1. 0 \in S
    <3>1. j - 0 = j /\ i - 0 = i /\ i - 0 >= 1
      BY <1>1
    <3> QED BY <3>1
  <2>2. ASSUME NEW k \in 0..(n - 1), k \in S
        PROVE  k + 1 \in S
    <3> DEFINE a == i - k
               b == j - k
    <3>1. a \in 1..Len(old) /\ b \in 1..Len(new) /\ new[b] = old[a] /\ b > 1 /\ k + 1 \in Nat
      BY <1>1, <1>3, <2>2
    <3>2. b - 1 = j - (k + 1) /\ a - 1 = i - (k + 1) /\ a \in Int
      BY <1>1, <3>1
    <3> HIDE DEF a, b
    <3>3. a > 1 /\ new[b - 1] = old[a - 1]
      BY <3>1, NextToo
    <3>4. a - 1 >= 1
      BY <1>1, <3>2, <3>3
    <3> QED BY <3>1, <3>2, <3>3, <3>4
  <2> HIDE DEF S
  <2>3. 0..n \subseteq S
    BY <2>1, <2>2, Counting
  <2> QED BY <2>3 DEF S, AlikeBefore
<1> QED BY <1>2, <1>3

\* A bar has as many bars before it as its position says.
LEMMA BarsBefore ==
  ASSUME NEW s, Series(s), NEW j \in 1..Len(s)
  PROVE  Cardinality({q \in DOMAIN s : s[q].start < s[j].start}) = j - 1
<1>1. Len(s) \in Nat /\ DOMAIN s = 1..Len(s)
  BY SeriesFacts
<1>2. {q \in DOMAIN s : s[q].start < s[j].start} = 1..(j - 1)
  <2>1. \A q \in 1..Len(s) : q < j <=> s[q].start < s[j].start
    BY SeriesFacts
  <2> QED BY <1>1, <2>1
<1>3. Cardinality(1..(j - 1)) = j - 1
  <2> DEFINE m == j - 1
  <2>1. 1 \in Int /\ m \in Int /\ (1 > m => m = 0) /\ m - 1 + 1 = m
    BY <1>1
  <2> HIDE DEF m
  <2>2. Cardinality(1..m) = IF 1 > m THEN 0 ELSE m - 1 + 1
    BY <2>1, FS_Interval
  <2> QED BY <2>1, <2>2 DEF m
<1> QED BY <1>2, <1>3

\* The swings of a series of closed bars are those of its inner bars that are an
\* extreme of one side only.
IsSwing(b, i) == i \in Inner(b) /\ IsHigh(b, i) # IsLow(b, i)

\* Nothing else is.
LEMMA SwingsAre ==
  ASSUME NEW s, Series(s)
  PROVE  \A x : x \in Range(Swings(Closed(s))) <=>
                  \E i \in 1..Len(Closed(s)) : IsSwing(Closed(s), i) /\ x = SwingOf(Closed(s), i)
<1> DEFINE b == Closed(s)
           at == {i \in DOMAIN b : i \in Inner(b) /\ IsHigh(b, i) # IsLow(b, i)}
<1>1. Series(b) /\ Closed(b) = b
  BY ClosedBars, ClosedTwice
<1>2. Swings(b) = [k \in 1..Cardinality(at) |-> SwingOf(b, Nth(at, k))]
  BY <1>1 DEF Swings
<1> HIDE DEF b
<1>3. DOMAIN b = 1..Len(b) /\ Len(b) \in Nat
  BY <1>1, SeriesFacts
<1>4. \A i : i \in at <=> i \in 1..Len(b) /\ IsSwing(b, i)
  BY <1>3 DEF IsSwing
<1>5. at \in SUBSET (1..Len(b))
  BY <1>4
<1> HIDE DEF at
<1>6. /\ \A k \in 1..Cardinality(at) : Nth(at, k) \in at
      /\ \A i \in at : \E k \in 1..Cardinality(at) : Nth(at, k) = i
  BY <1>3, <1>5, NthPosition
<1>7. \A x : x \in Range(Swings(b)) <=> \E k \in 1..Cardinality(at) : x = SwingOf(b, Nth(at, k))
  BY <1>2 DEF Range
<1>8. \A x : x \in Range(Swings(b)) <=> \E i \in at : x = SwingOf(b, i)
  BY <1>6, <1>7
<1> QED BY <1>4, <1>8 DEF b

\* So a swing of the one is a swing of the other.
LEMMA SwingStays ==
  ASSUME NEW old, Series(old), NEW new, Series(new), Grown(old, new), KeepsAfter(old, new),
         NEW i \in 1..Len(old), IsSwing(old, i), Kept(SwingOf(old, i), new)
  PROVE  \E j \in 1..Len(new) : IsSwing(new, j) /\ SwingOf(new, j) = SwingOf(old, i)
<1> DEFINE F == FractalWidth
<1>1. F \in Nat \ {0} /\ Len(old) \in Nat /\ Len(new) \in Nat
  BY SeriesFacts, StructureAssumption
<1>2. i - F >= 1 /\ i + F <= Len(old)
  BY <1>1 DEF IsSwing, Inner
<1>3. Cardinality({q \in DOMAIN new : new[q].start < old[i].start}) >= F
  BY DEF Kept, SwingOf
<1>4. PICK q \in 1..Len(new) : new[q].start < old[i].start
  <2> DEFINE B == {q \in DOMAIN new : new[q].start < old[i].start}
  <2>1. Cardinality(B) >= F /\ Cardinality({}) = 0
    BY <1>3, FS_EmptySet
  <2> HIDE DEF B, F
  <2>2. B = {} => Cardinality(B) = 0
    BY <2>1, Zenon
  <2>3. ~(0 >= F)
    BY <1>1
  <2>4. B # {}
    BY <2>1, <2>2, <2>3
  <2> QED BY <2>4, SeriesFacts DEF B
<1>5. old[i] \in Range(new)
  <2>1. old[i] \in Range(old) /\ new[q] \in Range(new) /\ old[i].start \in Int /\ new[q].start \in Int
    BY SeriesFacts
  <2> QED BY <1>4, <2>1 DEF KeepsAfter
<1>6. PICK j \in 1..Len(new) : new[j] = old[i]
  BY <1>5, SeriesFacts
<1>7. j - F >= 1
  <2>1. Cardinality({p \in DOMAIN new : new[p].start < new[j].start}) = j - 1
    BY BarsBefore
  <2> QED BY <1>1, <1>3, <1>6, <2>1
<1> HIDE DEF F
<1>8. /\ \A k \in 0..F : j + k <= Len(new) /\ new[j + k] = old[i + k]
      /\ \A k \in 0..F : i - k >= 1 /\ new[j - k] = old[i - k]
  <2>1. AlikeAfter(old, i, new, j, F) /\ AlikeBefore(old, i, new, j, F)
    BY <1>1, <1>2, <1>6, <1>7, NeighboursToo
  <2> QED BY <2>1 DEF AlikeAfter, AlikeBefore
<1>9. j + F <= Len(new)
  BY <1>1, <1>8
<1>10. j \in Inner(new)
  BY <1>1, <1>7, <1>9 DEF Inner, F
<1>11. /\ \A p \in j - F..j - 1 : p - j + i \in i - F..i - 1 /\ new[p] = old[p - j + i]
       /\ \A p \in i - F..i - 1 : p - i + j \in j - F..j - 1 /\ old[p] = new[p - i + j]
  <2>1. ASSUME NEW p \in j - F..j - 1
        PROVE  p - j + i \in i - F..i - 1 /\ new[p] = old[p - j + i]
    <3>1. j - p \in 0..F
      BY <1>1
    <3>2. PICK k \in 0..F : k = j - p
      BY <3>1
    <3>3. p = j - k /\ p - j + i = i - k /\ p - j + i \in i - F..i - 1
      BY <1>1, <3>2
    <3> QED BY <1>8, <3>3
  <2>2. ASSUME NEW p \in i - F..i - 1
        PROVE  p - i + j \in j - F..j - 1 /\ old[p] = new[p - i + j]
    <3>1. i - p \in 0..F
      BY <1>1
    <3>2. PICK k \in 0..F : k = i - p
      BY <3>1
    <3>3. p = i - k /\ p - i + j = j - k /\ p - i + j \in j - F..j - 1
      BY <1>1, <3>2
    <3> QED BY <1>8, <3>3
  <2> QED BY <2>1, <2>2
<1>12. /\ \A p \in j + 1..j + F : p - j + i \in i + 1..i + F /\ new[p] = old[p - j + i]
       /\ \A p \in i + 1..i + F : p - i + j \in j + 1..j + F /\ old[p] = new[p - i + j]
  <2>1. ASSUME NEW p \in j + 1..j + F
        PROVE  p - j + i \in i + 1..i + F /\ new[p] = old[p - j + i]
    <3>1. p - j \in 0..F
      BY <1>1
    <3>2. PICK k \in 0..F : k = p - j
      BY <3>1
    <3>3. p = j + k /\ p - j + i = i + k /\ p - j + i \in i + 1..i + F
      BY <1>1, <3>2
    <3> QED BY <1>8, <3>3
  <2>2. ASSUME NEW p \in i + 1..i + F
        PROVE  p - i + j \in j + 1..j + F /\ old[p] = new[p - i + j]
    <3>1. p - i \in 0..F
      BY <1>1
    <3>2. PICK k \in 0..F : k = p - i
      BY <3>1
    <3>3. p = i + k /\ p - i + j = j + k /\ p - i + j \in j + 1..j + F
      BY <1>1, <3>2
    <3> QED BY <1>8, <3>3
  <2> QED BY <2>1, <2>2
<1>13. Bottom(i + F, Len(old)) = i + F /\ Bottom(j + F, Len(new)) = j + F
  BY <1>1, <1>2, <1>9 DEF Bottom
<1>14. IsHigh(new, j) <=> IsHigh(old, i)
  BY <1>6, <1>11, <1>12, <1>13 DEF IsHigh, F
<1>15. IsLow(new, j) <=> IsLow(old, i)
  BY <1>6, <1>11, <1>12, <1>13 DEF IsLow, F
<1>16. IsHigh(new, j) \in BOOLEAN /\ IsHigh(old, i) \in BOOLEAN /\ IsLow(new, j) \in BOOLEAN /\ IsLow(old, i) \in BOOLEAN
  BY DEF IsHigh, IsLow
<1>17. IsSwing(new, j)
  BY <1>10, <1>14, <1>15, <1>16 DEF IsSwing
<1>18. SwingOf(new, j) = SwingOf(old, i)
  BY <1>6, <1>14, <1>16 DEF SwingOf
<1> QED BY <1>17, <1>18
-----------------------------------------------------------------------------
(* The steps.                                                              *)

\* What is remembered with a series.
EngineType(e) ==
    /\ e = [candles |-> e.candles, trend |-> e.trend, key |-> e.key, answer |-> e.answer, of |-> e.of]
    /\ Series(e.candles)

\* An end of a minute that the exchange has traded.
Confirmed(t) == t \in 1..clock /\ IsLast(t)

\* Types; the history holds ends of minutes that are over.
StructureTypes ==
    /\ tape \in Tapes /\ clock \in 0..Len(tape)
    /\ wire = [kline |-> wire.kline, trade |-> wire.trade]
    /\ wire.kline \in 0..clock /\ wire.trade \in 0..clock
    /\ fetched \in Seq(Nat) /\ \A k \in 1..Len(fetched) : Confirmed(fetched[k])
    /\ minute \in Bar
StructureInv == StructureTypes /\ EngineType(exchange) /\ EngineType(local)

\* A minute is two ticks.
LEMMA Halves ==
  ASSUME NEW t \in Nat \ {0}
  PROVE  /\ StartOf(t) \in Nat /\ StartOf(t) + 1 \in 1..t
         /\ (IsLast(t) /\ StartOf(t) = t - 2) \/ (~IsLast(t) /\ StartOf(t) = t - 1)
BY DEF StartOf, Bucket, IsLast

\* What is printed.
LEMMA TapePrices ==
  ASSUME tape \in Tapes
  PROVE  Len(tape) \in Nat /\ \A t \in 1..Len(tape) : tape[t] \in Nat \ {0}
<1>1. tape \in Seq(Nat \ {0})
  BY StructureAssumption
<1> QED BY <1>1, RangeIs

\* What an extended and a finished bar are.
LEMMA BarParts ==
  ASSUME NEW bar \in Bar, NEW p \in Int
  PROVE  /\ Extended(bar, p) \in Bar /\ Extended(bar, p).start = bar.start
         /\ Extended(bar, p) = [start |-> bar.start, open |-> bar.open, high |-> Top(bar.high, p),
                               low |-> Bottom(bar.low, p), close |-> p, closed |-> bar.closed]
         /\ Finished(bar) \in Bar /\ Finished(bar).start = bar.start /\ Finished(bar).closed = TRUE
         /\ Finished(bar) = [start |-> bar.start, open |-> bar.open, high |-> bar.high,
                            low |-> bar.low, close |-> bar.close, closed |-> TRUE]
<1> DEFINE s == bar.start
           o == bar.open
           g == bar.high
           w == bar.low
           e == bar.close
           c == bar.closed
           h == Top(g, p)
           l == Bottom(w, p)
<1>1. bar = [start |-> s, open |-> o, high |-> g, low |-> w, close |-> e, closed |-> c]
  BY DEF Bar
<1>2. s \in Int /\ o \in Int /\ g \in Int /\ w \in Int /\ e \in Int /\ c \in BOOLEAN
  BY DEF Bar
<1>3. h \in Int /\ l \in Int
  BY <1>2 DEF Top, Bottom
<1> DEFINE first == [bar EXCEPT !.high = h]
<1>4. Extended(bar, p) = [first EXCEPT !.low = Bottom(first.low, p), !.close = p]
  BY DEF Extended
<1>5. Finished(bar) = [bar EXCEPT !.closed = TRUE]
  BY DEF Finished
<1> HIDE DEF s, o, g, w, e, c, h, l
<1>6. Finished(bar) = [start |-> s, open |-> o, high |-> g, low |-> w, close |-> e, closed |-> TRUE]
  BY <1>1, <1>5
<1>7. first = [start |-> s, open |-> o, high |-> h, low |-> w, close |-> e, closed |-> c]
  BY <1>1
<1> HIDE DEF first
<1>8. first.low = w
  BY <1>7
<1>9. Extended(bar, p) = [first EXCEPT !.low = l, !.close = p]
  BY <1>4, <1>8 DEF l
<1>10. Extended(bar, p) = [start |-> s, open |-> o, high |-> h, low |-> l, close |-> p, closed |-> c]
  BY <1>7, <1>9
<1>11. /\ Finished(bar) \in Bar /\ Finished(bar).start = s /\ Finished(bar).closed = TRUE
       /\ Extended(bar, p) \in Bar /\ Extended(bar, p).start = s
  BY <1>2, <1>3, <1>6, <1>10 DEF Bar
<1> QED BY <1>6, <1>10, <1>11 DEF s, o, g, w, e, c, h, l

\* What of that the types need.
LEMMA BarsStay ==
  ASSUME NEW bar \in Bar, NEW p \in Int
  PROVE  /\ Extended(bar, p) \in Bar /\ Extended(bar, p).start = bar.start
         /\ Finished(bar) \in Bar /\ Finished(bar).start = bar.start /\ Finished(bar).closed = TRUE
BY BarParts, Zenon

\* The exchange's bar after a tick.
LEMMA BarsTyped ==
  ASSUME tape \in Tapes, NEW t \in 1..Len(tape)
  PROVE  BarAt(t) \in Bar /\ BarAt(t).start = StartOf(t) /\ (BarAt(t).closed <=> IsLast(t))
<1>1. Len(tape) \in Nat /\ t \in Nat \ {0} /\ StartOf(t) \in Nat /\ StartOf(t) + 1 \in 1..Len(tape)
  <2>1. Len(tape) \in Nat
    BY TapePrices
  <2>2. t \in Nat \ {0} /\ t <= Len(tape)
    BY <2>1
  <2>3. StartOf(t) \in Nat /\ StartOf(t) + 1 \in 1..t
    BY <2>2, Halves
  <2> QED BY <2>1, <2>2, <2>3
<1>2. tape[t] \in Nat /\ tape[StartOf(t) + 1] \in Nat
  BY <1>1, TapePrices
<1> DEFINE p == tape[t]
           o == tape[StartOf(t) + 1]
           a == StartOf(t)
<1>3. BarAt(t) = IF IsLast(t) THEN Finished(Extended(Opened(a, o), p)) ELSE Opened(a, o)
  BY DEF BarAt
<1>4. a \in Nat /\ o \in Nat /\ p \in Nat
  BY <1>1, <1>2
<1> HIDE DEF p, o, a
<1>5. Opened(a, o) \in Bar /\ Opened(a, o).start = a /\ Opened(a, o).closed = FALSE
  BY <1>4 DEF Opened, Bar
<1>6. /\ Finished(Extended(Opened(a, o), p)) \in Bar /\ Finished(Extended(Opened(a, o), p)).start = a
      /\ Finished(Extended(Opened(a, o), p)).closed = TRUE
  <2> HIDE DEF Bar
  <2>1. Extended(Opened(a, o), p) \in Bar /\ Extended(Opened(a, o), p).start = a
    <3>1. p \in Int
      BY <1>4
    <3> QED BY <1>5, <3>1, BarsStay, Zenon
  <2>2. 0 \in Int
    OBVIOUS
  <2> QED BY <2>1, <2>2, BarsStay, Zenon
<1> QED BY <1>3, <1>5, <1>6 DEF a

\* The minute in progress is a bar.
LEMMA FormingTyped ==
  ASSUME NEW bar \in Bar, NEW at \in Nat, NEW price \in Nat
  PROVE  /\ Forming(bar, [at |-> at, price |-> price], 2) \in Bar
         /\ Finished(bar) \in Bar
<1>1. Bucket(at, 2) \in Nat
  BY DEF Bucket
<1>2. Opened(Bucket(at, 2), price) \in Bar
  BY <1>1 DEF Opened, Bar
<1>3. Extended(bar, price) \in Bar /\ Finished(bar) \in Bar
  <2>1. price \in Int
    OBVIOUS
  <2> QED BY <2>1, BarsStay, Zenon
<1> QED BY <1>2, <1>3 DEF Forming

\* An update places the bar.
LEMMA EngineUpdated ==
  ASSUME NEW e, EngineType(e), NEW c \in Bar
  PROVE  /\ EngineType(Updated(e, c))
         /\ Updated(e, c).candles = Place(e.candles, c)
<1> DEFINE more == Place(e.candles, c)
<1>1. Series(more)
  <2>1. PICK bar \in Bar : \E t :
            /\ bar.start = c.start /\ With(e.candles, bar, t) /\ Place(e.candles, c) = Newest(t, MaxCandles)
            /\ bar = c \/ (bar \in Range(e.candles) /\ bar.closed /\ ~c.closed)
            /\ \A d \in Range(e.candles) : d.start = c.start /\ d.closed /\ ~c.closed => bar = d
    BY Placed DEF EngineType
  <2>2. PICK t : With(e.candles, bar, t) /\ more = Newest(t, MaxCandles)
    BY <2>1
  <2>3. Series(t) /\ MaxCandles \in Nat
    BY <2>2, StructureAssumption DEF With
  <2> QED BY <2>2, <2>3, NewestSeries
<1>2. Updated(e, c) = [candles |-> more, trend |-> e.trend, key |-> <<>>, answer |-> e.answer, of |-> e.of]
  <2> DEFINE first == [e EXCEPT !.candles = more]
  <2>1. e = [candles |-> e.candles, trend |-> e.trend, key |-> e.key, answer |-> e.answer, of |-> e.of]
    BY DEF EngineType
  <2>2. first = [candles |-> more, trend |-> e.trend, key |-> e.key, answer |-> e.answer, of |-> e.of]
    <3> HIDE DEF more
    <3> QED BY <2>1
  <2>3. Updated(e, c) = [first EXCEPT !.key = <<>>]
    BY DEF Updated
  <2> HIDE DEF first, more
  <2> QED BY <2>2, <2>3
<1> HIDE DEF more
<1> QED BY <1>1, <1>2 DEF EngineType, more

\* Reading leaves the bars alone.
LEMMA EngineRead ==
  ASSUME NEW e, EngineType(e)
  PROVE  EngineType(ReadState(e)) /\ ReadState(e).candles = e.candles
<1> DEFINE b == Closed(e.candles)
           r == [candles |-> e.candles, trend |-> TrendAfter(b, e.trend), key |-> KeyOf(b),
                 answer |-> <<StateOf(b, e.trend)>>, of |-> b]
<1>1. ReadState(e) = e \/ ReadState(e) = r
  BY DEF ReadState, EngineType
<1>2. EngineType(r) /\ r.candles = e.candles
  BY DEF EngineType
<1> QED BY <1>1, <1>2

\* The rows of an answer, but for the last, are ends of minutes that are over.
LEMMA RowsConfirmed ==
  ASSUME clock \in Nat, RowsNow # <<>>
  PROVE  /\ Front(RowsNow) \in Seq(Nat)
         /\ \A k \in 1..Len(Front(RowsNow)) : Confirmed(Front(RowsNow)[k])
<1> DEFINE m == (clock + 1) \div 2
           rows == [k \in 1..m |-> 2 * k]
           r == RowsNow
           d == Dropped(rows, BackfillBars)
<1>1. m \in Nat /\ clock \in Nat /\ (clock = 2 * m \/ clock + 1 = 2 * m)
  OBVIOUS
<1>2. BackfillBars \in Nat
  BY StructureAssumption
<1>3. r = Newest(rows, BackfillBars)
  BY DEF RowsNow
<1> HIDE DEF m
<1>4. rows \in Seq(Nat) /\ Len(rows) = m
  BY <1>1
<1>5. \A k \in 1..m : rows[k] = 2 * k
  OBVIOUS
<1> HIDE DEF rows, r
<1>6. r \in Seq(Nat) /\ EndOf(rows, r, d) /\ d \in 0..Len(rows)
  BY <1>2, <1>3, <1>4, NewestAre
<1> HIDE DEF d
<1>7. Len(r) = m - d /\ d \in 0..m /\ \A k \in 1..m - d : r[k] = rows[k + d]
  BY <1>4, <1>6 DEF EndOf
<1>8. m - d >= 1
  <2>1. Len(r) # 0
    BY <1>6 DEF r
  <2> QED BY <1>1, <1>7, <2>1
<1>9. /\ Front(r) \in Seq(Nat) /\ Len(Front(r)) = m - d - 1
      /\ \A k \in 1..m - d - 1 : Front(r)[k] = r[k]
  <2> DEFINE n == Len(r) - 1
  <2>1. n \in Int /\ 1 \in Int /\ n = m - d - 1 /\ n >= 0 /\ \A i \in 1..n : r[i] \in Nat
    <3>1. \A i \in 1..Len(r) : r[i] \in Nat
      BY <1>6
    <3> QED BY <1>1, <1>7, <1>8, <3>1
  <2>2. Front(r) = SubSeq(r, 1, n)
    BY DEF Front
  <2>6. n \in Nat
    BY <2>1
  <2> HIDE DEF n
  <2>3. /\ SubSeq(r, 1, n) \in Seq(Nat)
        /\ Len(SubSeq(r, 1, n)) = IF 1 <= n THEN n - 1 + 1 ELSE 0
        /\ \A i \in 1..n - 1 + 1 : SubSeq(r, 1, n)[i] = r[1 + i - 1]
    BY <2>1, SubSeqProperties
  <2>4. n - 1 + 1 = n /\ (~(1 <= n) => n = 0)
    BY <2>6
  <2>5. \A i \in 1..n : 1 + i - 1 = i
    BY <2>6
  <2> QED BY <2>1, <2>2, <2>3, <2>4, <2>5
<1>10. ASSUME NEW k \in 1..m - d - 1
       PROVE  Confirmed(Front(r)[k])
  <2>1. k \in 1..m - d /\ k + d \in 1..m - 1 /\ k + d \in 1..m
    BY <1>1, <1>7
  <2>2. Front(r)[k] = 2 * (k + d)
    BY <1>5, <1>7, <1>9, <2>1
  <2>3. 2 * (k + d) \in 1..clock /\ (2 * (k + d)) % 2 = 0
    BY <1>1, <2>1
  <2> QED BY <2>2, <2>3 DEF Confirmed, IsLast
<1> QED BY <1>9, <1>10 DEF r
-----------------------------------------------------------------------------
(* The invariant.                                                          *)

\* At the start there are no bars.
LEMMA StructureStarts == Init => StructureInv
<1> SUFFICES ASSUME Init
             PROVE  StructureInv
  OBVIOUS
<1>1. tape \in Tapes /\ clock \in 0..Len(tape)
  BY StructureAssumption DEF Init
<1>2. Len(tape) \in Nat
  BY <1>1, TapePrices
<1>3. wire = [kline |-> clock, trade |-> clock] /\ fetched = <<>> /\ minute = NoBar
      /\ exchange = NewEngine /\ local = NewEngine
  BY DEF Init
<1>4. NoBar \in Bar
  BY DEF NoBar, Bar
<1>5. StructureTypes
  BY <1>1, <1>2, <1>3, <1>4 DEF StructureTypes
<1>6. EngineType(NewEngine)
  BY DEF EngineType, NewEngine, Series, InOrder
<1> QED BY <1>3, <1>5, <1>6 DEF StructureInv

\* Nothing moves.
LEMMA StructureRests == ASSUME StructureInv, UNCHANGED vars PROVE StructureInv'
BY DEF StructureInv, StructureTypes, Confirmed, vars, EngineType

\* What is common to the steps that hear something.
LEMMA Hearing ==
  ASSUME StructureTypes
  PROVE  /\ Len(tape) \in Nat /\ clock \in Nat /\ clock <= Len(tape)
         /\ wire.kline \in Nat /\ wire.trade \in Nat
         /\ wire.kline < clock => wire.kline + 1 \in 1..clock /\ wire.kline + 1 \in 1..Len(tape)
         /\ wire.trade < clock => wire.trade + 1 \in 1..clock /\ wire.trade + 1 \in 1..Len(tape)
<1>1. Len(tape) \in Nat
  BY TapePrices DEF StructureTypes
<1> QED BY <1>1 DEF StructureTypes

\* Every step keeps the invariant and places at most one bar in each series.
LEMMA StructureSteps ==
  ASSUME StructureInv, [Next]_vars
  PROVE  /\ StructureInv'
         /\ exchange'.candles = exchange.candles \/ \E c \in Bar : exchange'.candles = Place(exchange.candles, c)
         /\ local'.candles = local.candles \/ \E c \in Bar : local'.candles = Place(local.candles, c)
<1>0. StructureTypes /\ EngineType(exchange) /\ EngineType(local)
  BY DEF StructureInv
<1> DEFINE w == wire
           Goal == /\ StructureInv'
                   /\ exchange'.candles = exchange.candles \/ \E c \in Bar : exchange'.candles = Place(exchange.candles, c)
                   /\ local'.candles = local.candles \/ \E c \in Bar : local'.candles = Place(local.candles, c)
<1>1. CASE Trade
  <2>1. /\ clock' = clock + 1 /\ clock' \in 0..Len(tape)
        /\ UNCHANGED <<tape, wire, fetched, minute, exchange, local>>
    BY <1>0, <1>1, Hearing DEF Trade, feeds
  <2>2. StructureTypes'
    BY <1>0, <2>1, Hearing DEF StructureTypes, Confirmed
  <2> QED BY <1>0, <2>1, <2>2 DEF StructureInv
<1>2. CASE Outage
  <2>1. wire' = [topic \in DOMAIN wire |-> clock] /\ UNCHANGED <<tape, clock, fetched, minute, exchange, local>>
    BY <1>2 DEF Outage, feeds
  <2>2. DOMAIN wire = {"kline", "trade"}
    BY <1>0 DEF StructureTypes
  <2>3. wire' = [kline |-> clock, trade |-> clock]
    BY <2>1, <2>2
  <2>4. StructureTypes'
    BY <1>0, <2>1, <2>3, Hearing DEF StructureTypes, Confirmed
  <2> QED BY <1>0, <2>1, <2>4 DEF StructureInv
<1>3. CASE Kline
  <2> DEFINE t == w.kline + 1
             c == BarAt(t)
  <2>1. /\ t \in 1..clock /\ t \in 1..Len(tape)
        /\ wire' = [wire EXCEPT !.kline = @ + 1] /\ exchange' = Updated(exchange, c)
        /\ UNCHANGED <<tape, clock, fetched, minute, local>>
    BY <1>0, <1>3, Hearing DEF Kline
  <2>2. c \in Bar
    BY <1>0, <2>1, BarsTyped DEF StructureTypes
  <2>3. wire' = [kline |-> w.kline + 1, trade |-> w.trade]
    BY <1>0, <2>1 DEF StructureTypes
  <2>4. StructureTypes'
    BY <1>0, <2>1, <2>3 DEF StructureTypes, Confirmed
  <2> HIDE DEF c
  <2>5. EngineType(exchange') /\ exchange'.candles = Place(exchange.candles, c)
    BY <1>0, <2>1, <2>2, EngineUpdated
  <2> QED BY <1>0, <2>1, <2>2, <2>4, <2>5 DEF StructureInv
<1>4. CASE PublicTrade
  <2> DEFINE t == w.trade + 1
             c == Finished(minute)
  <2>1. /\ t \in 1..clock /\ t \in 1..Len(tape)
        /\ wire' = [wire EXCEPT !.trade = @ + 1]
        /\ local' = local \/ local' = Updated(local, c)
        /\ minute' = Forming(minute, TradeAt(t), 2)
        /\ UNCHANGED <<tape, clock, fetched, exchange>>
    BY <1>0, <1>4, Hearing DEF PublicTrade
  <2>2. c \in Bar /\ minute' \in Bar
    <3>1. t - 1 \in Nat /\ tape[t] \in Nat /\ minute \in Bar
      BY <1>0, <2>1, TapePrices, Hearing DEF StructureTypes
    <3>2. TradeAt(t) = [at |-> t - 1, price |-> tape[t]]
      BY DEF TradeAt
    <3> QED BY <2>1, <3>1, <3>2, FormingTyped
  <2>3. wire' = [kline |-> w.kline, trade |-> w.trade + 1]
    BY <1>0, <2>1 DEF StructureTypes
  <2>4. StructureTypes'
    BY <1>0, <2>1, <2>2, <2>3 DEF StructureTypes, Confirmed
  <2> HIDE DEF c
  <2>5. EngineType(local') /\ (local'.candles = local.candles \/ local'.candles = Place(local.candles, c))
    BY <1>0, <2>1, <2>2, EngineUpdated
  <2> QED BY <1>0, <2>1, <2>2, <2>4, <2>5 DEF StructureInv
<1>5. CASE Fetch
  <2>1. /\ fetched' = IF RowsNow = <<>> THEN <<>> ELSE Front(RowsNow)
        /\ UNCHANGED <<tape, clock, wire, minute, exchange, local>>
    BY <1>5 DEF Fetch, feeds
  <2>2. fetched' \in Seq(Nat) /\ \A k \in 1..Len(fetched') : Confirmed(fetched'[k])
    <3>1. CASE RowsNow = <<>>
      BY <2>1, <3>1
    <3>2. CASE RowsNow # <<>>
      BY <1>0, <2>1, <3>2, RowsConfirmed, Hearing
    <3> QED BY <3>1, <3>2
  <2>3. StructureTypes'
    BY <1>0, <2>1, <2>2 DEF StructureTypes, Confirmed
  <2> QED BY <1>0, <2>1, <2>3 DEF StructureInv
<1>6. CASE Backfill
  <2> DEFINE t == Head(fetched)
             c == BarAt(t)
  <2>1. /\ fetched # <<>> /\ fetched' = Tail(fetched) /\ exchange' = Updated(exchange, c)
        /\ UNCHANGED <<tape, clock, wire, minute, local>>
    BY <1>6 DEF Backfill
  <2>2. fetched \in Seq(Nat) /\ \A k \in 1..Len(fetched) : Confirmed(fetched[k])
    BY <1>0 DEF StructureTypes
  <2>3. /\ Tail(fetched) \in Seq(Nat) /\ Len(Tail(fetched)) = Len(fetched) - 1 /\ Len(fetched) \in Nat
        /\ \A k \in 1..Len(fetched) - 1 : Tail(fetched)[k] = fetched[k + 1]
        /\ Head(fetched) = fetched[1] /\ 1 \in 1..Len(fetched)
    BY <2>1, <2>2
  <2>4. t \in 1..Len(tape)
    BY <1>0, <2>2, <2>3, Hearing DEF Confirmed
  <2>5. c \in Bar
    BY <1>0, <2>4, BarsTyped DEF StructureTypes
  <2>6. \A k \in 1..Len(Tail(fetched)) : Confirmed(Tail(fetched)[k])
    <3>1. \A k \in 1..Len(fetched) - 1 : k + 1 \in 1..Len(fetched)
      BY <2>3
    <3> QED BY <2>2, <2>3, <3>1
  <2>7. StructureTypes'
    BY <1>0, <2>1, <2>3, <2>6 DEF StructureTypes, Confirmed
  <2> HIDE DEF c
  <2>8. EngineType(exchange') /\ exchange'.candles = Place(exchange.candles, c)
    BY <1>0, <2>1, <2>5, EngineUpdated
  <2> QED BY <1>0, <2>1, <2>5, <2>7, <2>8 DEF StructureInv
<1>7. CASE Snapshot
  <2>1. /\ exchange' = exchange \/ exchange' = ReadState(exchange)
        /\ local' = local \/ local' = ReadState(local)
        /\ UNCHANGED <<tape, clock, wire, fetched, minute>>
    BY <1>7 DEF Snapshot
  <2>2. StructureTypes'
    BY <1>0, <2>1 DEF StructureTypes, Confirmed
  <2>3. EngineType(exchange') /\ exchange'.candles = exchange.candles
    BY <1>0, <2>1, EngineRead
  <2>4. EngineType(local') /\ local'.candles = local.candles
    BY <1>0, <2>1, EngineRead
  <2> QED BY <2>2, <2>3, <2>4 DEF StructureInv
<1>8. CASE UNCHANGED vars
  <2>1. exchange' = exchange /\ local' = local
    BY <1>8 DEF vars
  <2> QED BY <1>8, <2>1, StructureRests
<1> QED BY <1>1, <1>2, <1>3, <1>4, <1>5, <1>6, <1>7, <1>8 DEF Next

\* What is done to one series leaves its swings.
LEMMA SeriesStays ==
  ASSUME NEW s, Series(s), NEW c \in Bar, NEW t, t = s \/ t = Place(s, c), Closed(s) # Closed(t),
         Grown(Closed(s), Closed(t)), NEW swing \in Range(Swings(Closed(s))), Kept(swing, Closed(t))
  PROVE  swing \in Range(Swings(Closed(t)))
<1> DEFINE old == Closed(s)
           new == Closed(t)
<1>1. t = Place(s, c)
  OBVIOUS
<1>2. Series(t) /\ KeepsAfter(old, new)
  BY <1>1, PlacedKeeps
<1>3. Series(old) /\ Series(new)
  BY <1>2, ClosedBars
<1>4. PICK i \in 1..Len(old) : IsSwing(old, i) /\ swing = SwingOf(old, i)
  BY SwingsAre
<1>5. \E j \in 1..Len(new) : IsSwing(new, j) /\ SwingOf(new, j) = SwingOf(old, i)
  <2> HIDE DEF old, new
  <2>1. Grown(old, new) /\ Kept(SwingOf(old, i), new)
    BY <1>4 DEF old, new
  <2> QED BY <1>2, <1>3, <1>4, <2>1, SwingStays
<1> QED BY <1>2, <1>4, <1>5, SwingsAre

\* Structure does not repaint: a swing once read stays one while bars are only
\* added at the end, as long as its neighbours are kept, whatever the bars, the
\* order of klines and history and the length of the series (find_swings).
THEOREM SwingsStay == ViewsSpec => NoRepaint
<1>1. ViewsInit => StructureInv
  BY StructureStarts DEF ViewsInit
<1>2. ASSUME StructureInv, [ViewsNext]_<<part, vars, frameVars, wallVars, scoreVars>>
      PROVE  [Next]_vars
  BY <1>2 DEF ViewsNext
<1>3. StructureInv /\ [ViewsNext]_<<part, vars, frameVars, wallVars, scoreVars>> => StructureInv'
  BY <1>2, StructureSteps
<1>4. ASSUME StructureInv, [Next]_vars
      PROVE  \A series \in {<<exchange, exchange'>>, <<local, local'>>} :
                LET old == Closed(series[1].candles)
                    new == Closed(series[2].candles)
                IN  old # new /\ Grown(old, new) =>
                      \A swing \in Range(Swings(old)) : Kept(swing, new) => swing \in Range(Swings(new))
  <2>1. Series(exchange.candles) /\ Series(local.candles)
    BY <1>4 DEF StructureInv, EngineType
  <2>2. /\ exchange'.candles = exchange.candles \/ \E c \in Bar : exchange'.candles = Place(exchange.candles, c)
        /\ local'.candles = local.candles \/ \E c \in Bar : local'.candles = Place(local.candles, c)
    BY <1>4, StructureSteps
  <2>3. ASSUME NEW s, NEW t, Series(s), t = s \/ \E c \in Bar : t = Place(s, c),
               Closed(s) # Closed(t), Grown(Closed(s), Closed(t)),
               NEW swing \in Range(Swings(Closed(s))), Kept(swing, Closed(t))
        PROVE  swing \in Range(Swings(Closed(t)))
    <3>1. PICK c \in Bar : t = Place(s, c)
      BY <2>3
    <3> QED BY <2>3, <3>1, SeriesStays
  <2> QED BY <2>1, <2>2, <2>3
<1> QED BY <1>1, <1>2, <1>3, <1>4, PTL DEF ViewsSpec, NoRepaint
-----------------------------------------------------------------------------
(* The newest bars of a series.                                            *)

\* The starts of a series.
StartsOf(s) == {s[i].start : i \in 1..Len(s)}

\* A series has as many bars as starts.
LEMMA SeriesSize ==
  ASSUME NEW s, Series(s)
  PROVE  /\ IsFiniteSet(StartsOf(s)) /\ Cardinality(StartsOf(s)) = Len(s) /\ Len(s) \in Nat
         /\ \A x : x \in StartsOf(s) <=> \E d \in Range(s) : d.start = x
<1>1. /\ Len(s) \in Nat
      /\ \A i, j \in 1..Len(s) : s[i].start = s[j].start => i = j
      /\ \A c : c \in Range(s) <=> \E i \in 1..Len(s) : s[i] = c
  BY SeriesFacts
<1> DEFINE f == [i \in 1..Len(s) |-> s[i].start]
<1>2. f \in [1..Len(s) -> StartsOf(s)]
  BY DEF StartsOf
<1>3. \A i, j \in 1..Len(s) : f[i] = f[j] => i = j
  BY <1>1
<1>4. \A x \in StartsOf(s) : \E i \in 1..Len(s) : f[i] = x
  BY DEF StartsOf
<1> HIDE DEF f
<1>5. f \in Bijection(1..Len(s), StartsOf(s))
  BY <1>2, <1>3, <1>4 DEF Bijection, Injection, Surjection, IsInjective
<1>6. ExistsBijection(1..Len(s), StartsOf(s))
  BY <1>5 DEF ExistsBijection
<1>7. Cardinality(StartsOf(s)) = Len(s) /\ IsFiniteSet(StartsOf(s))
  BY <1>1, <1>6, FS_CountingElements, FS_NatBijection
<1>8. \A x : x \in StartsOf(s) <=> \E d \in Range(s) : d.start = x
  BY <1>1 DEF StartsOf
<1> QED BY <1>1, <1>7, <1>8

\* Of s, a series t has nothing but the last bars.
LEMMA WholeEnd ==
  ASSUME NEW s, Series(s), NEW t, Series(t), t # <<>>,
         \A c \in Range(t) : c \in Range(s), KeepsAfter(s, t)
  PROVE  /\ Len(t) <= Len(s) /\ EndOf(s, t, Len(s) - Len(t))
         /\ (\A c \in Range(s) : c \in Range(t)) => Len(t) = Len(s)
<1> DEFINE n == Len(t)
           m == Len(s)
<1>1. n \in Nat /\ m \in Nat /\ n \in 1..n /\ n >= 1
  BY SeriesFacts, LatestIsLast
<1>2. /\ \A i \in 1..m : s[i] \in Range(s) /\ s[i].start \in Int
      /\ \A i \in 1..n : t[i] \in Range(t) /\ t[i].start \in Int
  BY SeriesFacts
<1>3. PICK i \in 1..m : s[i] = t[n]
  <2>1. t[n] \in Range(s)
    BY <1>1, <1>2
  <2> QED BY <2>1, SeriesFacts
<1>4. i = m /\ m \in 1..m
  <2>1. m \in 1..m
    BY <1>1
  <2> SUFFICES ASSUME i < m
               PROVE  FALSE
    BY <1>1, <2>1
  <2>2. s[i].start < s[m].start
    BY <2>1, SeriesFacts
  <2>3. s[m] \in Range(t)
    BY <1>1, <1>2, <1>3, <2>1, <2>2 DEF KeepsAfter
  <2>4. PICK q \in 1..n : t[q] = s[m]
    BY <2>3, SeriesFacts
  <2>5. n < q
    BY <1>1, <1>3, <2>2, <2>4, SeriesFacts
  <2> QED BY <1>1, <2>5
<1>5. Grown(s, t)
  BY <1>1, <1>4 DEF Grown
<1>6. AlikeBefore(s, m, t, n, n - 1)
  <2> DEFINE k == n - 1
  <2>1. k \in Nat /\ n - k >= 1
    BY <1>1
  <2>2. t[n] = s[m]
    BY <1>3, <1>4
  <2> HIDE DEF k, n, m
  <2> QED BY <1>1, <1>4, <1>5, <2>1, <2>2, NeighboursToo DEF n, m, k
<1> HIDE DEF n, m
<1>7. \A k \in 0..n - 1 : m - k >= 1 /\ t[n - k] = s[m - k]
  BY <1>6 DEF AlikeBefore
<1>8. n <= m
  <2>1. n - 1 \in 0..n - 1
    BY <1>1
  <2> QED BY <1>1, <1>7, <2>1
<1>9. n = m - (m - n) /\ \A k \in 1..m - (m - n) : t[k] = s[k + (m - n)]
  <2>1. n = m - (m - n)
    BY <1>1
  <2>2. ASSUME NEW k \in 1..n
        PROVE  t[k] = s[k + (m - n)]
    <3>1. n - k \in 0..n - 1
      BY <1>1
    <3>2. PICK q \in 0..n - 1 : q = n - k
      BY <3>1
    <3>3. n - q = k /\ m - q = k + (m - n)
      BY <1>1, <3>2
    <3> QED BY <1>7, <3>3
  <2> QED BY <2>1, <2>2
<1>10. ASSUME \A c \in Range(s) : c \in Range(t)
       PROVE  n = m
  <2>1. /\ \A x : x \in StartsOf(s) <=> \E d \in Range(s) : d.start = x
        /\ \A x : x \in StartsOf(t) <=> \E d \in Range(t) : d.start = x
    BY SeriesSize
  <2>2. \A x : x \in StartsOf(s) <=> x \in StartsOf(t)
    BY <1>10, <2>1
  <2>3. StartsOf(s) = StartsOf(t)
    BY <2>2
  <2> QED BY <2>3, SeriesSize DEF n, m
<1> QED BY <1>8, <1>9, <1>10 DEF EndOf, n, m

\* So a full end of a series, or all of it, is its newest bars.
LEMMA IsNewest ==
  ASSUME NEW s, Series(s), NEW t, Series(t), NEW n \in Nat \ {0},
         \A c \in Range(t) : c \in Range(s), KeepsAfter(s, t),
         Len(t) <= n, \A c \in Range(s) : c \in Range(t) \/ Len(t) = n
  PROVE  t = Newest(s, n)
<1>1. /\ Len(s) \in Nat /\ Len(t) \in Nat /\ s \in Seq(Bar) /\ t \in Seq(Bar)
  BY SeriesFacts
<1>2. CASE t = <<>>
  <2>1. Len(t) # n
    BY <1>2
  <2>2. \A i \in 1..Len(s) : s[i] \in Range(t)
    BY <2>1, SeriesFacts
  <2>3. Range(t) = {}
    BY <1>2 DEF Range
  <2>4. Len(s) = 0
    <3>1. Len(s) > 0 => 1 \in 1..Len(s)
      BY <1>1
    <3> QED BY <1>1, <2>2, <2>3, <3>1
  <2>5. s = <<>>
    BY <1>1, <2>4
  <2> QED BY <1>2, <2>4, <2>5 DEF Newest
<1>3. CASE t # <<>>
  <2> DEFINE d == Dropped(s, n)
             u == Newest(s, n)
  <2>1. Len(t) <= Len(s) /\ EndOf(s, t, Len(s) - Len(t))
    BY <1>3, WholeEnd
  <2>2. d = Len(s) - Len(t)
    <3>1. CASE \A c \in Range(s) : c \in Range(t)
      <4>1. Len(t) = Len(s)
        BY <1>3, <3>1, WholeEnd
      <4> QED BY <1>1, <4>1 DEF Dropped
    <3>2. CASE ~(\A c \in Range(s) : c \in Range(t))
      <4>1. Len(t) = n
        BY <3>2
      <4> QED BY <1>1, <2>1, <4>1 DEF Dropped
    <3> QED BY <3>1, <3>2
  <2>3. u \in Seq(Bar) /\ EndOf(s, u, d)
    BY <1>1, NewestAre
  <2> HIDE DEF d, u
  <2>4. /\ Len(u) = Len(s) - d /\ \A k \in 1..Len(s) - d : u[k] = s[k + d]
        /\ Len(t) = Len(s) - d /\ \A k \in 1..Len(s) - d : t[k] = s[k + d]
    BY <2>1, <2>2, <2>3 DEF EndOf
  <2>5. t \in [1..Len(t) -> Bar] /\ u \in [1..Len(u) -> Bar]
    BY <1>1, <2>3, LenProperties
  <2>6. t = u
    BY <2>4, <2>5
  <2> QED BY <2>6 DEF u
<1> QED BY <1>2, <1>3

\* What is kept of a series, and that it is all of it when there is room.
LEMMA NewestKeeps ==
  ASSUME NEW s, Series(s), NEW n \in Nat \ {0}
  PROVE  /\ Series(Newest(s, n)) /\ Len(Newest(s, n)) <= n
         /\ \A c \in Range(Newest(s, n)) : c \in Range(s)
         /\ KeepsAfter(s, Newest(s, n))
         /\ Len(Newest(s, n)) # n => Newest(s, n) = s
         /\ Len(s) <= n => Newest(s, n) = s
<1> DEFINE u == Newest(s, n)
<1>1. Len(s) \in Nat /\ s \in Seq(Bar) /\ n \in Nat
  BY SeriesFacts
<1>2. EndOf(s, u, Dropped(s, n))
  BY <1>1, NewestAre
<1>3. Len(u) = IF Len(s) > n THEN n ELSE Len(s)
  BY <1>1, <1>2 DEF EndOf, Dropped
<1>4. ~(Len(s) > n) => u = s
  BY DEF Newest
<1>5. /\ Series(u) /\ \A c \in Range(u) : c \in Range(s)
      /\ \A c \in Range(s), e \in Range(u) : e.start <= c.start => c \in Range(u)
  BY <1>1, NewestSeries
<1> HIDE DEF u
<1>6. KeepsAfter(s, u)
  BY <1>5 DEF KeepsAfter
<1>7. Len(u) <= n /\ (Len(u) # n => ~(Len(s) > n)) /\ (Len(s) <= n => ~(Len(s) > n))
  BY <1>1, <1>3
<1> QED BY <1>4, <1>5, <1>6, <1>7 DEF u

\* A bar more is a start more.
LEMMA StartsGrow ==
  ASSUME NEW s, Series(s), NEW bar, NEW t, With(s, bar, t)
  PROVE  StartsOf(t) = StartsOf(s) \cup {bar.start}
<1>1. Series(t) /\ \A d : d \in Range(t) <=> d = bar \/ (d \in Range(s) /\ d.start # bar.start)
  BY DEF With
<1>2. \A x : x \in StartsOf(t) <=> \E d \in Range(t) : d.start = x
  BY <1>1, SeriesSize
<1>3. \A x : x \in StartsOf(s) <=> \E d \in Range(s) : d.start = x
  BY SeriesSize
<1>4. \A x : x \in StartsOf(t) <=> x \in StartsOf(s) \/ x = bar.start
  BY <1>1, <1>2, <1>3
<1> QED BY <1>4

\* A full series has no room for an older bar.
LEMMA Overfull ==
  ASSUME NEW s, Series(s), NEW bar, NEW t, With(s, bar, t), NEW n \in Nat \ {0}, Len(s) = n,
         \A e \in Range(s) : bar.start < e.start
  PROVE  bar \notin Range(Newest(t, n)) /\ Len(Newest(t, n)) = n
<1>1. Series(t) /\ \A d : d \in Range(t) <=> d = bar \/ (d \in Range(s) /\ d.start # bar.start)
  BY DEF With
<1>2. bar \in Range(t) /\ bar \in Bar /\ bar.start \in Int
  BY <1>1, SeriesFacts
<1>3. Len(t) = n + 1
  <2>1. bar.start \notin StartsOf(s)
    <3>1. \A e \in Range(s) : e.start # bar.start
      BY <1>2, SeriesFacts
    <3> QED BY <3>1, SeriesSize
  <2>2. Cardinality(StartsOf(s) \cup {bar.start}) = n + 1
    BY <2>1, SeriesSize, FS_AddElement
  <2>3. Cardinality(StartsOf(t)) = Len(t)
    BY <1>1, SeriesSize
  <2> QED BY <2>2, <2>3, StartsGrow
<1>4. Dropped(t, n) = 1 /\ t \in Seq(Bar) /\ n \in Nat
  BY <1>1, <1>3, SeriesFacts DEF Dropped
<1>5. Newest(t, n) \in Seq(Bar) /\ Len(Newest(t, n)) = n /\ \A k \in 1..n : Newest(t, n)[k] = t[k + 1]
  <2>1. Newest(t, n) \in Seq(Bar) /\ EndOf(t, Newest(t, n), 1)
    BY <1>4, NewestAre
  <2>2. Len(t) - 1 = n
    BY <1>3
  <2> QED BY <2>1, <2>2 DEF EndOf
<1>6. ASSUME bar \in Range(Newest(t, n))
      PROVE  FALSE
  <2>1. PICK k \in 1..n : Newest(t, n)[k] = bar
    <3>1. DOMAIN Newest(t, n) = 1..n
      BY <1>5, RangeIs
    <3> QED BY <1>6, <3>1 DEF Range
  <2>2. k + 1 \in 1..Len(t) /\ 1 \in 1..Len(t) /\ 1 < k + 1 /\ t[k + 1] = bar
    BY <1>3, <1>5, <2>1
  <2>3. t[1].start < bar.start /\ t[1].start \in Int /\ t[1] \in Range(t)
    BY <1>1, <2>2, SeriesFacts
  <2>4. t[1] = bar \/ t[1] \in Range(s)
    BY <1>1, <2>3
  <2> QED BY <1>2, <2>3, <2>4
<1> QED BY <1>5, <1>6

\* Placing a bar among the newest of a series gives the newest of the series with
\* the bar: b is what becomes of the bars of its start, of which a closed one is final.
LEMMA PlacedNewest ==
  ASSUME NEW h, Series(h), NEW c \in Bar, NEW b, NEW more, With(h, b, more), b.start = c.start,
         b = c \/ (b \in Range(h) /\ b.closed /\ ~c.closed),
         \A d \in Range(h) : d.start = c.start /\ d.closed /\ ~c.closed => b = d
  PROVE  Place(Newest(h, MaxCandles), c) = Newest(more, MaxCandles)
<1> DEFINE n == MaxCandles
           s == Newest(h, n)
           u == Place(s, c)
<1>1. n \in Nat \ {0}
  BY StructureAssumption
<1>2. Series(more) /\ \A d : d \in Range(more) <=> d = b \/ (d \in Range(h) /\ d.start # b.start)
  BY DEF With
<1>3. /\ Series(s) /\ Len(s) <= n
      /\ \A d \in Range(s) : d \in Range(h)
      /\ KeepsAfter(h, s)
      /\ Len(s) # n => s = h
  BY <1>1, NewestKeeps
<1> HIDE DEF s
<1>4. PICK bar \in Bar : \E t :
            /\ bar.start = c.start /\ With(s, bar, t) /\ Place(s, c) = Newest(t, MaxCandles)
            /\ bar = c \/ (bar \in Range(s) /\ bar.closed /\ ~c.closed)
            /\ \A d \in Range(s) : d.start = c.start /\ d.closed /\ ~c.closed => bar = d
  BY <1>3, Placed
<1>5. PICK t : With(s, bar, t) /\ u = Newest(t, n)
  BY <1>4
<1>6. /\ bar.start = c.start
      /\ bar = c \/ (bar \in Range(s) /\ bar.closed /\ ~c.closed)
      /\ \A d \in Range(s) : d.start = c.start /\ d.closed /\ ~c.closed => bar = d
  BY <1>4
<1>7. Series(t) /\ \A d : d \in Range(t) <=> d = bar \/ (d \in Range(s) /\ d.start # bar.start)
  BY <1>5 DEF With
<1>8. /\ Series(u) /\ Len(u) <= n
      /\ \A d \in Range(u) : d \in Range(t)
      /\ KeepsAfter(t, u)
      /\ Len(u) # n => u = t
  BY <1>1, <1>5, <1>7, NewestKeeps
<1> HIDE DEF n, u
<1>9. \A d \in Range(h) : d.start \in Int
  BY SeriesFacts
<1>10. c.start \in Int
  BY DEF Bar
<1>11. \A d, e \in Range(h) : d.start = e.start => d = e
  BY SeriesFacts
\* A bar of the series that was not kept is older than all that were.
<1>12. \A d \in Range(h) : d \notin Range(s) => Len(s) = n /\ \A e \in Range(s) : d.start < e.start
  <2> SUFFICES ASSUME NEW d \in Range(h), d \notin Range(s), NEW e \in Range(s)
               PROVE  d.start < e.start
    BY <1>3
  <2>1. ~(e.start <= d.start)
    BY <1>3 DEF KeepsAfter
  <2> QED BY <1>3, <1>9, <2>1
<1>13. CASE bar = b
  <2>1. \A d \in Range(u) : d \in Range(more)
    BY <1>2, <1>3, <1>7, <1>8, <1>13
  <2>2. KeepsAfter(more, u)
    <3> SUFFICES ASSUME NEW x \in Range(more), NEW e \in Range(u), e.start <= x.start, x \notin Range(t)
                 PROVE  FALSE
      BY <1>8 DEF KeepsAfter
    <3>1. x \in Range(h) /\ x.start # c.start /\ x \notin Range(s)
      BY <1>2, <1>7, <1>13
    <3>2. Len(s) = n /\ \A d \in Range(s) : x.start < d.start
      BY <1>12, <3>1
    <3>3. \A d \in Range(s) : d.start \in Int
      BY <1>3, <1>9
    <3>4. e = bar
      BY <1>7, <1>8, <1>9, <3>1, <3>2, <3>3
    <3>5. \A d \in Range(s) : bar.start < d.start
      BY <1>6, <1>9, <1>10, <3>1, <3>2, <3>3, <3>4
    <3>6. bar \notin Range(u)
      BY <1>1, <1>3, <1>5, <3>2, <3>5, Overfull
    <3> QED BY <3>4, <3>6
  <2>3. \A d \in Range(more) : d \in Range(u) \/ Len(u) = n
    <3> SUFFICES ASSUME NEW x \in Range(more), x \notin Range(u), Len(u) # n
                 PROVE  FALSE
      OBVIOUS
    <3>1. u = t /\ Len(t) <= n /\ Len(t) # n
      BY <1>8
    <3>2. x \in Range(h) /\ x \notin Range(s)
      BY <1>2, <1>7, <1>13, <3>1
    <3>3. Len(s) = n
      BY <1>12, <3>2
    <3>4. StartsOf(s) \in SUBSET StartsOf(t) /\ IsFiniteSet(StartsOf(t))
      BY <1>3, <1>5, <1>7, StartsGrow, SeriesSize
    <3>5. Cardinality(StartsOf(s)) <= Cardinality(StartsOf(t))
      BY <3>4, FS_Subset
    <3>6. Len(s) <= Len(t) /\ Len(s) \in Nat /\ Len(t) \in Nat
      BY <1>3, <1>7, <3>5, SeriesSize
    <3> QED BY <1>1, <3>1, <3>3, <3>6
  <2>4. u = Newest(more, n)
    BY <1>1, <1>2, <1>8, <2>1, <2>2, <2>3, IsNewest
  <2> QED BY <2>4 DEF u, n, s
<1>14. CASE bar # b
  <2>1. bar = c /\ b \in Range(h) /\ b.closed /\ ~c.closed /\ b \notin Range(s)
    BY <1>3, <1>6, <1>14
  <2>2. Len(s) = n /\ \A e \in Range(s) : b.start < e.start
    BY <1>12, <2>1
  <2>3. bar \notin Range(u) /\ Len(u) = n
    BY <1>1, <1>3, <1>5, <1>6, <2>2, Overfull
  <2>4. ASSUME NEW d \in Range(u)
        PROVE  d \in Range(more) /\ d \in Range(s) /\ b.start < d.start
    <3>1. d \in Range(s) /\ d.start # bar.start
      BY <1>7, <1>8, <2>3
    <3> QED BY <1>2, <1>3, <1>6, <2>2, <3>1
  <2>5. KeepsAfter(more, u)
    <3> SUFFICES ASSUME NEW x \in Range(more), NEW e \in Range(u), e.start <= x.start
                 PROVE  x \in Range(u)
      BY DEF KeepsAfter
    <3>1. e \in Range(s) /\ b.start < e.start /\ e.start \in Int /\ b.start \in Int
      BY <1>3, <1>9, <2>1, <2>4
    <3>2. x # b
      BY <3>1
    <3>3. x \in Range(h) /\ x.start # b.start
      BY <1>2, <3>2
    <3>4. x \in Range(s)
      BY <1>3, <3>1, <3>3 DEF KeepsAfter
    <3>5. x \in Range(t)
      BY <1>6, <1>7, <3>3, <3>4
    <3> QED BY <1>8, <3>5 DEF KeepsAfter
  <2>6. u = Newest(more, n)
    BY <1>1, <1>2, <1>8, <2>3, <2>4, <2>5, IsNewest
  <2> QED BY <2>6 DEF u, n, s
<1> QED BY <1>13, <1>14
-----------------------------------------------------------------------------
(* What was heard.                                                         *)

\* HeardBars of the bars after each of n ticks and what h says was heard of each minute.
HeardIn(bars, h, n) ==
    LET minutes == [k \in 1..(n + 1) \div 2 |-> 2 * k - 2]
        all == Picked(minutes, {k \in DOMAIN minutes : h[minutes[k]] # {}})
    IN  [k \in DOMAIN all |-> bars[Max(h[all[k]])]]

\* Of a minute only its own ticks are heard, and a tick's bar is its minute's.
HeardType(h, n) ==
    /\ h \in [{StartOf(t) : t \in 1..n} -> SUBSET (1..n)]
    /\ \A s \in DOMAIN h : \A u \in h[s] : StartOf(u) = s
BarsType(bars, n) ==
    /\ bars \in [1..n -> Bar]
    /\ \A t \in 1..n : bars[t].start = StartOf(t) /\ (bars[t].closed <=> IsLast(t))

\* The last that was heard of a minute.
LEMMA LastHeard ==
  ASSUME NEW n \in Nat, NEW h, HeardType(h, n), NEW s \in DOMAIN h, h[s] # {}
  PROVE  /\ Max(h[s]) \in h[s] /\ Max(h[s]) \in 1..n /\ StartOf(Max(h[s])) = s
         /\ \A u \in h[s] : u <= Max(h[s]) /\ u \in Nat /\ u \in {s + 1, s + 2}
         /\ s \in Nat
<1> DEFINE T == h[s]
<1>1. T \in SUBSET (1..n) /\ T # {} /\ \A u \in T : StartOf(u) = s
  BY DEF HeardType
<1>2. \A u \in T : u \in Nat \ {0} /\ u \in {s + 1, s + 2} /\ s \in Nat
  <2> SUFFICES ASSUME NEW u \in T
               PROVE  u \in Nat \ {0} /\ u \in {s + 1, s + 2} /\ s \in Nat
    OBVIOUS
  <2>1. u \in Nat \ {0} /\ StartOf(u) = s
    BY <1>1
  <2>2. StartOf(u) \in Nat /\ (StartOf(u) = u - 2 \/ StartOf(u) = u - 1)
    BY <2>1, Halves
  <2> QED BY <2>1, <2>2
<1> HIDE DEF T
<1>3. PICK v \in T : TRUE
  BY <1>1
<1>4. s \in Nat
  BY <1>2, <1>3
<1>5. \E x \in T : \A y \in T : x >= y
  <2>1. CASE s + 2 \in T
    BY <1>2, <1>4, <2>1
  <2>2. CASE s + 2 \notin T
    BY <1>2, <1>3, <1>4, <2>2
  <2> QED BY <2>1, <2>2
<1>6. Max(T) \in T /\ \A y \in T : Max(T) >= y
  BY <1>5 DEF Max
<1> QED BY <1>1, <1>2, <1>4, <1>6 DEF T

\* A minute of the tape is one that is heard of.
LEMMA MinutesHeard ==
  ASSUME NEW n \in Nat, NEW h, HeardType(h, n), NEW k \in Nat \ {0}, 2 * k - 1 <= n
  PROVE  2 * k - 2 \in DOMAIN h
<1> DEFINE t == 2 * k - 1
<1>1. t \in 1..n /\ t \in Nat \ {0} /\ t % 2 = 1
  OBVIOUS
<1>2. StartOf(t) = 2 * k - 2
  <2>1. StartOf(t) = t - 1
    BY <1>1, Halves DEF IsLast
  <2> QED BY <2>1
<1> HIDE DEF t
<1> QED BY <1>1, <1>2 DEF HeardType

\* The bars that were heard of are a series.
LEMMA HeardSeries ==
  ASSUME NEW n \in Nat, NEW h, HeardType(h, n), NEW bars, BarsType(bars, n)
  PROVE  /\ Series(HeardIn(bars, h, n))
         /\ \A x : x \in Range(HeardIn(bars, h, n)) <=> \E s \in DOMAIN h : h[s] # {} /\ x = bars[Max(h[s])]
<1> DEFINE m == (n + 1) \div 2
           minutes == [k \in 1..m |-> 2 * k - 2]
           P == {k \in DOMAIN minutes : h[minutes[k]] # {}}
           all == Picked(minutes, P)
           b == HeardIn(bars, h, n)
<1>1. m \in Nat /\ (n = 2 * m \/ n + 1 = 2 * m)
  OBVIOUS
<1>2. b = [k \in DOMAIN all |-> bars[Max(h[all[k]])]]
  BY DEF HeardIn
<1> HIDE DEF m, b
<1>3. minutes \in Seq(Nat) /\ Len(minutes) = m /\ DOMAIN minutes = 1..m
  BY <1>1
<1>4. \A k \in 1..m : minutes[k] = 2 * k - 2
  OBVIOUS
<1> HIDE DEF minutes
<1>5. P \in SUBSET (1..Len(minutes)) /\ \A k : k \in P <=> k \in 1..m /\ h[minutes[k]] # {}
  BY <1>3
<1> HIDE DEF P
<1> DEFINE N == Cardinality(P)
<1>6. /\ all \in Seq(Nat) /\ Len(all) = N /\ N \in Nat
      /\ \A k \in 1..N : Nth(P, k) \in P /\ all[k] = minutes[Nth(P, k)]
      /\ \A k, l \in 1..N : k < l => Nth(P, k) < Nth(P, l)
      /\ \A i \in P : \E k \in 1..N : Nth(P, k) = i /\ all[k] = minutes[i]
  BY <1>3, <1>5, PickedElements
<1>7. DOMAIN all = 1..N
  BY <1>6, RangeIs
<1> HIDE DEF all, N
\* The minutes are the starts of the ticks.
<1>8. \A k \in 1..m : 2 * k - 2 \in DOMAIN h
  <2>1. \A k \in 1..m : k \in Nat \ {0} /\ 2 * k - 1 <= n
    BY <1>1
  <2> QED BY <2>1, MinutesHeard
<1>9. \A s \in DOMAIN h : \E k \in 1..m : s = 2 * k - 2
  <2> SUFFICES ASSUME NEW s \in DOMAIN h
               PROVE  \E k \in 1..m : s = 2 * k - 2
    OBVIOUS
  <2>1. PICK t \in 1..n : s = StartOf(t)
    BY DEF HeardType
  <2>2. s = ((t - 1) \div 2) * 2
    BY <2>1 DEF StartOf, Bucket
  <2> DEFINE q == (t - 1) \div 2
  <2>3. q \in Nat /\ q + 1 \in 1..m /\ s = 2 * (q + 1) - 2
    BY <1>1, <2>2
  <2> QED BY <2>3
<1>10. ASSUME NEW k \in 1..N
       PROVE  /\ Nth(P, k) \in 1..m /\ all[k] = 2 * Nth(P, k) - 2
              /\ all[k] \in DOMAIN h /\ h[all[k]] # {}
              /\ b[k] = bars[Max(h[all[k]])]
              /\ b[k] \in Bar /\ b[k].start = 2 * Nth(P, k) - 2
  <2>1. Nth(P, k) \in 1..m /\ all[k] = 2 * Nth(P, k) - 2 /\ h[all[k]] # {}
    <3>1. Nth(P, k) \in P /\ all[k] = minutes[Nth(P, k)]
      BY <1>6
    <3>2. PICK i \in P : i = Nth(P, k)
      BY <3>1
    <3>3. i \in 1..m /\ h[minutes[i]] # {}
      BY <1>5
    <3>4. minutes[i] = 2 * i - 2
      BY <1>4, <3>3
    <3> QED BY <3>1, <3>2, <3>3, <3>4
  <2>2. all[k] \in DOMAIN h
    BY <1>8, <2>1
  <2>3. Max(h[all[k]]) \in 1..n /\ StartOf(Max(h[all[k]])) = all[k]
    BY <2>1, <2>2, LastHeard
  <2>4. b[k] = bars[Max(h[all[k]])]
    BY <1>2, <1>7
  <2> QED BY <2>1, <2>2, <2>3, <2>4 DEF BarsType
<1>11. DOMAIN b = 1..N
  BY <1>2, <1>7
<1>12. b \in Seq(Bar)
  <2>1. b \in [1..N -> Bar]
    BY <1>2, <1>7, <1>10
  <2> QED BY <1>6, <2>1
<1>13. InOrder(b)
  <2> SUFFICES ASSUME NEW k \in 1..N, NEW l \in 1..N, k < l
               PROVE  b[k].start < b[l].start
    BY <1>11 DEF InOrder
  <2>1. Nth(P, k) < Nth(P, l)
    BY <1>6
  <2> QED BY <1>1, <1>10, <2>1
<1>14. ASSUME NEW x
       PROVE  x \in Range(b) <=> \E s \in DOMAIN h : h[s] # {} /\ x = bars[Max(h[s])]
  <2>1. ASSUME x \in Range(b)
        PROVE  \E s \in DOMAIN h : h[s] # {} /\ x = bars[Max(h[s])]
    <3>1. PICK k \in 1..N : x = b[k]
      BY <1>11, <2>1 DEF Range
    <3> QED BY <1>10, <3>1
  <2>2. ASSUME NEW s \in DOMAIN h, h[s] # {}, x = bars[Max(h[s])]
        PROVE  x \in Range(b)
    <3>1. PICK i \in 1..m : s = 2 * i - 2
      BY <1>9
    <3>2. i \in P /\ minutes[i] = s
      BY <1>4, <1>5, <2>2, <3>1
    <3>3. PICK k \in 1..N : all[k] = s
      BY <1>6, <3>2
    <3>4. b[k] = x /\ k \in DOMAIN b
      BY <1>10, <1>11, <2>2, <3>3
    <3> QED BY <3>4 DEF Range
  <2> QED BY <2>1, <2>2
<1> QED BY <1>12, <1>13, <1>14 DEF Series, b

\* One more is heard of a minute.
Hears(h, t) == [h EXCEPT ![StartOf(t)] = @ \cup {t}]

\* Another tick heard places its bar among them.
LEMMA HeardMore ==
  ASSUME NEW n \in Nat, NEW h, HeardType(h, n), NEW bars, BarsType(bars, n), NEW t \in 1..n
  PROVE  /\ HeardType(Hears(h, t), n)
         /\ \E b : /\ With(HeardIn(bars, h, n), b, HeardIn(bars, Hears(h, t), n))
                   /\ b.start = bars[t].start
                   /\ b = bars[t] \/ (b \in Range(HeardIn(bars, h, n)) /\ b.closed /\ ~bars[t].closed)
                   /\ \A d \in Range(HeardIn(bars, h, n)) :
                         d.start = bars[t].start /\ d.closed /\ ~bars[t].closed => b = d
<1> DEFINE s == StartOf(t)
           g == Hears(h, t)
           H == HeardIn(bars, h, n)
           G == HeardIn(bars, g, n)
           b == bars[Max(g[s])]
           c == bars[t]
<1>1. s \in DOMAIN h /\ DOMAIN g = DOMAIN h
  BY DEF HeardType, Hears
<1>2. g[s] = h[s] \cup {t} /\ \A r \in DOMAIN h : r # s => g[r] = h[r]
  BY <1>1 DEF Hears
<1>3. HeardType(g, n)
  <2>1. h \in [{StartOf(u) : u \in 1..n} -> SUBSET (1..n)]
    BY DEF HeardType
  <2>2. g \in [{StartOf(u) : u \in 1..n} -> SUBSET (1..n)]
    <3>1. h[s] \cup {t} \in SUBSET (1..n)
      BY <1>1, <2>1
    <3> QED BY <2>1, <3>1 DEF Hears
  <2> HIDE DEF g
  <2>3. \A r \in DOMAIN g : \A u \in g[r] : StartOf(u) = r
    BY <1>1, <1>2 DEF HeardType
  <2> QED BY <2>2, <2>3 DEF HeardType
<1> HIDE DEF g
<1>4. /\ Max(g[s]) \in g[s] /\ Max(g[s]) \in 1..n /\ StartOf(Max(g[s])) = s
      /\ \A u \in g[s] : u <= Max(g[s]) /\ u \in Nat /\ u \in {s + 1, s + 2}
      /\ s \in Nat
  <2>1. g[s] # {} /\ s \in DOMAIN g
    BY <1>1, <1>2
  <2> HIDE DEF s
  <2> QED BY <1>3, <2>1, LastHeard
<1>5. /\ Series(H) /\ \A x : x \in Range(H) <=> \E r \in DOMAIN h : h[r] # {} /\ x = bars[Max(h[r])]
      /\ Series(G) /\ \A x : x \in Range(G) <=> \E r \in DOMAIN h : g[r] # {} /\ x = bars[Max(g[r])]
  BY <1>1, <1>3, HeardSeries
<1>6. /\ c.start = s /\ (c.closed <=> IsLast(t)) /\ b.start = s /\ (b.closed <=> IsLast(Max(g[s])))
      /\ b \in Bar /\ c \in Bar
  BY <1>4 DEF BarsType
<1>7. \A r \in DOMAIN h : h[r] # {} => bars[Max(h[r])].start = r
  <2> SUFFICES ASSUME NEW r \in DOMAIN h, h[r] # {}
               PROVE  bars[Max(h[r])].start = r
    OBVIOUS
  <2>1. Max(h[r]) \in 1..n /\ StartOf(Max(h[r])) = r
    BY LastHeard
  <2> QED BY <2>1 DEF BarsType
<1> HIDE DEF H, G, s, c
<1>8. \A d : d \in Range(G) <=> d = b \/ (d \in Range(H) /\ d.start # b.start)
  <2>1. ASSUME NEW d \in Range(G)
        PROVE  d = b \/ (d \in Range(H) /\ d.start # b.start)
    <3>1. PICK r \in DOMAIN h : g[r] # {} /\ d = bars[Max(g[r])]
      BY <1>5
    <3>2. CASE r = s
      BY <3>1, <3>2
    <3>3. CASE r # s
      <4>1. g[r] = h[r]
        BY <1>2, <3>3
      <4>2. h[r] # {} /\ d = bars[Max(h[r])] /\ d.start = r
        BY <1>7, <3>1, <4>1
      <4> QED BY <1>5, <1>6, <3>3, <4>2
    <3> QED BY <3>2, <3>3
  <2>2. b \in Range(G)
    BY <1>1, <1>2, <1>5
  <2>3. ASSUME NEW d \in Range(H), d.start # b.start
        PROVE  d \in Range(G)
    <3>1. PICK r \in DOMAIN h : h[r] # {} /\ d = bars[Max(h[r])]
      BY <1>5
    <3>2. r # s
      BY <1>6, <1>7, <2>3, <3>1
    <3>3. g[r] = h[r]
      BY <1>2, <3>2
    <3> QED BY <1>5, <3>1, <3>3
  <2> QED BY <2>1, <2>2, <2>3
<1>9. With(H, b, G)
  BY <1>5, <1>8 DEF With
<1>10. t \in {s + 1, s + 2} /\ t <= Max(g[s]) /\ Max(g[s]) \in {s + 1, s + 2}
  BY <1>2, <1>4
<1>11. (t = s + 1 <=> ~IsLast(t)) /\ (Max(g[s]) = s + 1 <=> ~IsLast(Max(g[s])))
  <2>1. ASSUME NEW u \in 1..n, StartOf(u) = s
        PROVE  u = s + 1 <=> ~IsLast(u)
    <3>1. u \in Nat \ {0}
      OBVIOUS
    <3>2. (IsLast(u) /\ s = u - 2) \/ (~IsLast(u) /\ s = u - 1)
      BY <2>1, <3>1, Halves
    <3> QED BY <1>4, <3>1, <3>2
  <2> QED BY <1>4, <2>1 DEF s
<1>12. b = c \/ (b \in Range(H) /\ b.closed /\ ~c.closed)
  <2>1. CASE Max(g[s]) = t
    BY <2>1 DEF c
  <2>2. CASE Max(g[s]) # t
    <3>1. t = s + 1 /\ Max(g[s]) = s + 2 /\ Max(g[s]) \in h[s]
      BY <1>2, <1>4, <1>10, <2>2
    <3>2. Max(h[s]) = Max(g[s])
      <4>1. h[s] # {}
        BY <3>1
      <4>2. Max(h[s]) \in h[s] /\ \A u \in h[s] : u <= Max(h[s]) /\ u \in Nat /\ u \in {s + 1, s + 2}
        BY <1>1, <4>1, LastHeard
      <4> QED BY <1>4, <3>1, <4>2
    <3>3. b \in Range(H)
      BY <1>1, <1>5, <3>1, <3>2
    <3>4. s + 2 # s + 1
      BY <1>4
    <3> QED BY <1>6, <1>11, <3>1, <3>3, <3>4
  <2> QED BY <2>1, <2>2
<1>13. ASSUME NEW d \in Range(H), d.start = c.start, d.closed, ~c.closed
       PROVE  b = d
  <2>1. PICK r \in DOMAIN h : h[r] # {} /\ d = bars[Max(h[r])]
    BY <1>5
  <2>2. r = s
    BY <1>6, <1>7, <1>13, <2>1
  <2>3. /\ Max(h[s]) \in h[s] /\ Max(h[s]) \in 1..n /\ StartOf(Max(h[s])) = s
        /\ \A u \in h[s] : u <= Max(h[s]) /\ u \in Nat /\ u \in {s + 1, s + 2}
    BY <1>1, <2>1, <2>2, LastHeard
  <2>4. IsLast(Max(h[s]))
    BY <1>13, <2>1, <2>2, <2>3 DEF BarsType
  <2>5. Max(h[s]) = s + 2
    <3>1. Max(h[s]) \in Nat \ {0}
      BY <2>3
    <3>2. s = Max(h[s]) - 2
      BY <2>3, <2>4, <3>1, Halves
    <3> QED BY <1>4, <3>1, <3>2
  <2>6. Max(g[s]) = s + 2
    <3>1. s + 2 \in g[s]
      BY <1>2, <2>3, <2>5
    <3> QED BY <1>4, <1>10, <3>1
  <2> QED BY <2>1, <2>2, <2>5, <2>6
<1> QED BY <1>3, <1>6, <1>9, <1>12, <1>13 DEF H, G, g, c
-----------------------------------------------------------------------------
(* The series of the exchange's minutes.                                   *)

\* The exchange's bar after each tick.
Bars == [t \in 1..Len(tape) |-> BarAt(t)]

\* The inductive invariant of the exchange's series: it is the newest bars of what
\* was heard, and nothing is heard before it is traded.
MinutesInv ==
    /\ StructureInv
    /\ HeardType(heard, Len(tape))
    /\ \A s \in DOMAIN heard : \A t \in heard[s] : t <= clock
    /\ exchange.candles = Newest(HeardIn(Bars, heard, Len(tape)), MaxCandles)

\* They are the exchange's.
LEMMA BarsAre ==
  ASSUME tape \in Tapes
  PROVE  BarsType(Bars, Len(tape)) /\ \A t \in 1..Len(tape) : Bars[t] = BarAt(t)
BY BarsTyped DEF BarsType, Bars

\* HeardBars is what HeardIn says of the tape.
LEMMA HeardBarsAre ==
  ASSUME tape \in Tapes, HeardType(heard, Len(tape))
  PROVE  HeardBars = HeardIn(Bars, heard, Len(tape))
<1> DEFINE n == Len(tape)
           m == (n + 1) \div 2
           minutes == [k \in 1..m |-> 2 * k - 2]
           P == {k \in DOMAIN minutes : heard[minutes[k]] # {}}
           all == Picked(minutes, P)
<1>1. n \in Nat /\ m \in Nat /\ (n = 2 * m \/ n + 1 = 2 * m)
  BY TapePrices
<1>2. HeardBars = [k \in DOMAIN all |-> BarAt(Max(heard[all[k]]))]
  BY DEF HeardBars
<1>3. HeardIn(Bars, heard, n) = [k \in DOMAIN all |-> Bars[Max(heard[all[k]])]]
  BY DEF HeardIn
<1> HIDE DEF m
<1>4. minutes \in Seq(Nat) /\ Len(minutes) = m /\ DOMAIN minutes = 1..m
  BY <1>1
<1>5. \A k \in 1..m : minutes[k] = 2 * k - 2
  OBVIOUS
<1> HIDE DEF minutes
<1>6. P \in SUBSET (1..Len(minutes)) /\ \A k : k \in P <=> k \in 1..m /\ heard[minutes[k]] # {}
  BY <1>4
<1> HIDE DEF P
<1>7. /\ all \in Seq(Nat) /\ Len(all) = Cardinality(P)
      /\ \A k \in 1..Cardinality(P) : Nth(P, k) \in P /\ all[k] = minutes[Nth(P, k)]
  BY <1>4, <1>6, PickedElements
<1>8. DOMAIN all = 1..Cardinality(P)
  BY <1>7, RangeIs
<1> HIDE DEF all
<1>9. ASSUME NEW k \in DOMAIN all
      PROVE  BarAt(Max(heard[all[k]])) = Bars[Max(heard[all[k]])]
  <2>1. PICK i \in 1..m : all[k] = minutes[i] /\ heard[minutes[i]] # {}
    BY <1>6, <1>7, <1>8
  <2>2. all[k] = 2 * i - 2 /\ heard[all[k]] # {}
    BY <1>5, <2>1
  <2>3. all[k] \in DOMAIN heard
    BY <1>1, <2>2, MinutesHeard
  <2>4. Max(heard[all[k]]) \in 1..n
    BY <1>1, <2>2, <2>3, LastHeard
  <2> QED BY <2>4, BarsAre
<1> QED BY <1>2, <1>3, <1>9 DEF n

\* Nothing is heard at the start.
LEMMA MinutesStart == Init => MinutesInv
<1> SUFFICES ASSUME Init
             PROVE  MinutesInv
  OBVIOUS
<1>1. StructureInv /\ tape \in Tapes
  BY StructureStarts DEF StructureInv, StructureTypes
<1> DEFINE n == Len(tape)
           h == HeardIn(Bars, heard, n)
<1>2. n \in Nat /\ DOMAIN tape = 1..n
  BY <1>1, TapePrices, StructureAssumption, RangeIs
<1>3. heard = [s \in {StartOf(t) : t \in 1..n} |-> {}] /\ exchange.candles = <<>>
  BY <1>2 DEF Init, NewEngine
<1>4. HeardType(heard, n) /\ \A s \in DOMAIN heard : heard[s] = {}
  BY <1>3 DEF HeardType
<1>5. Series(h) /\ \A x : x \in Range(h) <=> \E s \in DOMAIN heard : heard[s] # {} /\ x = Bars[Max(heard[s])]
  <2>1. BarsType(Bars, n)
    BY <1>1, BarsAre
  <2> HIDE DEF n
  <2> QED BY <1>2, <1>4, <2>1, HeardSeries
<1> HIDE DEF h, n
<1>6. h = <<>>
  <2>1. Range(h) = {}
    BY <1>4, <1>5
  <2>2. h \in Seq(Bar) /\ \A i \in 1..Len(h) : h[i] \in Range(h)
    BY <1>5, SeriesFacts
  <2>3. Len(h) \in Nat /\ (Len(h) > 0 => 1 \in 1..Len(h))
    BY <2>2
  <2>4. Len(h) = 0
    BY <2>1, <2>2, <2>3
  <2> QED BY <2>2, <2>4
<1>7. Newest(h, MaxCandles) = <<>>
  BY <1>6, StructureAssumption DEF Newest
<1> QED BY <1>1, <1>3, <1>4, <1>7 DEF MinutesInv, h, n

\* A tick that is heard keeps the invariant.
LEMMA TickHeard ==
  ASSUME MinutesInv, NEW t \in 1..Len(tape), t <= clock, StructureInv',
         tape' = tape, clock' = clock,
         exchange'.candles = Place(exchange.candles, BarAt(t)), heard' = Hears(heard, t)
  PROVE  MinutesInv'
<1> DEFINE n == Len(tape)
           h == HeardIn(Bars, heard, n)
           g == Hears(heard, t)
           more == HeardIn(Bars, g, n)
           c == Bars[t]
<1>1. tape \in Tapes /\ HeardType(heard, n) /\ exchange.candles = Newest(h, MaxCandles)
  BY DEF MinutesInv, StructureInv, StructureTypes
<1>2. n \in Nat /\ BarsType(Bars, n) /\ c = BarAt(t) /\ c \in Bar
  BY <1>1, TapePrices, BarsAre, BarsTyped
<1>3. HeardType(g, n)
  <2> HIDE DEF n
  <2> QED BY <1>1, <1>2, HeardMore DEF n
<1>4. PICK b : /\ With(h, b, more) /\ b.start = c.start
               /\ b = c \/ (b \in Range(h) /\ b.closed /\ ~c.closed)
               /\ \A d \in Range(h) : d.start = c.start /\ d.closed /\ ~c.closed => b = d
  BY <1>1, <1>2, HeardMore
<1>5. Series(h)
  BY <1>1, <1>2, HeardSeries
<1> HIDE DEF h, more, c
<1>6. Place(Newest(h, MaxCandles), c) = Newest(more, MaxCandles)
  BY <1>2, <1>4, <1>5, PlacedNewest
<1>7. exchange'.candles = Newest(more, MaxCandles)
  BY <1>1, <1>2, <1>6
<1>8. Bars' = Bars
  BY DEF Bars, BarAt
<1>9. \A s \in DOMAIN g : \A u \in g[s] : u <= clock
  BY DEF MinutesInv, Hears
<1>10. HeardIn(Bars', heard', Len(tape')) = more /\ HeardType(heard', Len(tape'))
  BY <1>3, <1>8 DEF more
<1>11. \A s \in DOMAIN heard' : \A u \in heard'[s] : u <= clock'
  BY <1>9
<1> QED BY <1>7, <1>10, <1>11 DEF MinutesInv

\* Nothing is heard.
LEMMA NothingHeard ==
  ASSUME MinutesInv, StructureInv', clock' \in {clock, clock + 1},
         tape' = tape, exchange'.candles = exchange.candles, heard' = heard
  PROVE  MinutesInv'
<1>1. Bars' = Bars
  BY DEF Bars, BarAt
<1>2. \A s \in DOMAIN heard' : \A u \in heard'[s] : u <= clock'
  <2>1. \A s \in DOMAIN heard : heard[s] \subseteq Int
    <3>1. Len(tape) \in Nat
      BY TapePrices DEF MinutesInv, StructureInv, StructureTypes
    <3>2. \A s \in DOMAIN heard : heard[s] \subseteq 1..Len(tape)
      BY DEF MinutesInv, HeardType
    <3> QED BY <3>1, <3>2
  <2>2. clock \in Int
    BY Hearing DEF MinutesInv, StructureInv
  <2> QED BY <2>1, <2>2 DEF MinutesInv
<1> QED BY <1>1, <1>2 DEF MinutesInv

\* Every step.
LEMMA MinutesStep ==
  ASSUME MinutesInv, [Next]_vars
  PROVE  MinutesInv'
<1>1. StructureInv' /\ StructureInv
  BY StructureSteps DEF MinutesInv
<1>2. StructureTypes /\ EngineType(exchange) /\ EngineType(local)
  BY <1>1 DEF StructureInv
<1>3. clock \in Nat /\ Len(tape) \in Nat /\ tape \in Tapes
  BY <1>2, Hearing DEF StructureTypes
<1>4. CASE Kline
  <2> DEFINE t == wire.kline + 1
  <2>1. t \in 1..clock /\ t \in 1..Len(tape)
    BY <1>2, <1>4, Hearing DEF Kline
  <2>2. /\ exchange' = Updated(exchange, BarAt(t)) /\ heard' = Hears(heard, t)
        /\ tape' = tape /\ clock' = clock
    BY <1>4 DEF Kline, Hears
  <2> HIDE DEF t
  <2>3. exchange'.candles = Place(exchange.candles, BarAt(t))
    BY <1>2, <1>3, <2>1, <2>2, BarsTyped, EngineUpdated
  <2>4. t <= clock
    BY <2>1
  <2> QED BY <1>1, <2>1, <2>2, <2>3, <2>4, TickHeard
<1>5. CASE Backfill
  <2> DEFINE t == Head(fetched)
  <2>1. fetched # <<>> /\ fetched \in Seq(Nat) /\ \A k \in 1..Len(fetched) : Confirmed(fetched[k])
    BY <1>2, <1>5 DEF StructureTypes, Backfill
  <2>2. t = fetched[1] /\ 1 \in 1..Len(fetched)
    BY <2>1
  <2>3. t \in 1..clock /\ t \in 1..Len(tape) /\ t <= clock
    BY <1>2, <2>1, <2>2, Hearing DEF Confirmed
  <2>4. /\ exchange' = Updated(exchange, BarAt(t)) /\ heard' = Hears(heard, t)
        /\ tape' = tape /\ clock' = clock
    BY <1>5 DEF Backfill, Hears
  <2> HIDE DEF t
  <2>5. exchange'.candles = Place(exchange.candles, BarAt(t))
    BY <1>2, <1>3, <2>3, <2>4, BarsTyped, EngineUpdated
  <2> QED BY <1>1, <2>3, <2>4, <2>5, TickHeard
<1>6. CASE Trade
  <2>1. clock' = clock + 1 /\ tape' = tape /\ exchange' = exchange /\ heard' = heard
    BY <1>6 DEF Trade, feeds
  <2> QED BY <1>1, <2>1, NothingHeard
<1>7. CASE Outage \/ Fetch
  <2>1. clock' = clock /\ tape' = tape /\ exchange' = exchange /\ heard' = heard
    BY <1>7 DEF Outage, Fetch, feeds
  <2> QED BY <1>1, <2>1, NothingHeard
<1>8. CASE PublicTrade \/ UNCHANGED vars
  <2>1. clock' = clock /\ tape' = tape /\ exchange' = exchange /\ heard' = heard
    BY <1>8 DEF PublicTrade, vars
  <2> QED BY <1>1, <2>1, NothingHeard
<1>9. CASE Snapshot
  <2>1. clock' = clock /\ tape' = tape /\ heard' = heard
    BY <1>9 DEF Snapshot
  <2>2. exchange'.candles = exchange.candles
    BY <1>2, <1>9, EngineRead DEF Snapshot
  <2> QED BY <1>1, <2>1, <2>2, NothingHeard
<1> QED BY <1>4, <1>5, <1>6, <1>7, <1>8, <1>9 DEF Next
-----------------------------------------------------------------------------
(* The bar in progress of a longer timeframe.                              *)

\* What the exchange's bar after a tick says.
LEMMA BarValues ==
  ASSUME tape \in Tapes, NEW t \in 1..Len(tape)
  PROVE  /\ StartOf(t) + 1 \in 1..Len(tape) /\ BarAt(t).open = tape[StartOf(t) + 1]
         /\ BarAt(t).close = tape[t]
         /\ BarAt(t).high \in {tape[StartOf(t) + 1], tape[t]} /\ BarAt(t).low \in {tape[StartOf(t) + 1], tape[t]}
         /\ BarAt(t).high >= tape[StartOf(t) + 1] /\ BarAt(t).high >= tape[t]
         /\ BarAt(t).low <= tape[StartOf(t) + 1] /\ BarAt(t).low <= tape[t]
<1> DEFINE a == StartOf(t)
           o == tape[a + 1]
           p == tape[t]
<1>1. t \in Nat \ {0} /\ Len(tape) \in Nat
  BY TapePrices
<1>2. /\ a \in Nat /\ a + 1 \in 1..Len(tape)
      /\ (IsLast(t) /\ a = t - 2) \/ (~IsLast(t) /\ a = t - 1)
  BY <1>1, Halves
<1>3. o \in Int /\ p \in Int
  BY <1>2, TapePrices
<1>4. BarAt(t) = IF IsLast(t) THEN Finished(Extended(Opened(a, o), p)) ELSE Opened(a, o)
  BY DEF BarAt
<1>5. ~IsLast(t) => p = o
  BY <1>2
<1> HIDE DEF a, o, p
<1>6. Opened(a, o) = [start |-> a, open |-> o, high |-> o, low |-> o, close |-> o, closed |-> FALSE]
  BY DEF Opened
<1>7. Opened(a, o) \in Bar
  BY <1>2, <1>3, <1>6 DEF Bar
<1>8. CASE ~IsLast(t)
  <2>1. BarAt(t).open = o /\ BarAt(t).close = o /\ BarAt(t).high = o /\ BarAt(t).low = o
    BY <1>4, <1>6, <1>8
  <2>2. p = o
    BY <1>5, <1>8
  <2> QED BY <1>2, <1>3, <2>1, <2>2 DEF a, o, p
<1>9. CASE IsLast(t)
  <2> DEFINE e == Extended(Opened(a, o), p)
  <2>1. e \in Bar
    BY <1>3, <1>7, BarsStay, Zenon
  <2>2. e.open = o /\ e.high = Top(o, p) /\ e.low = Bottom(o, p) /\ e.close = p
    <3>1. e = [start |-> Opened(a, o).start, open |-> Opened(a, o).open, high |-> Top(Opened(a, o).high, p),
               low |-> Bottom(Opened(a, o).low, p), close |-> p, closed |-> Opened(a, o).closed]
      BY <1>3, <1>7, BarParts, Zenon
    <3> QED BY <1>6, <3>1
  <2> HIDE DEF e
  <2>3. Finished(e) = [start |-> e.start, open |-> e.open, high |-> e.high,
                       low |-> e.low, close |-> e.close, closed |-> TRUE]
    <3>1. 0 \in Int
      OBVIOUS
    <3> QED BY <2>1, <3>1, BarParts, Zenon
  <2>4. BarAt(t) = Finished(e)
    BY <1>4, <1>9 DEF e
  <2>5. BarAt(t).open = o /\ BarAt(t).close = p /\ BarAt(t).high = Top(o, p) /\ BarAt(t).low = Bottom(o, p)
    BY <2>2, <2>3, <2>4
  <2>6. /\ Top(o, p) \in {o, p} /\ Top(o, p) >= o /\ Top(o, p) >= p
        /\ Bottom(o, p) \in {o, p} /\ Bottom(o, p) <= o /\ Bottom(o, p) <= p
    BY <1>3 DEF Top, Bottom
  <2> QED BY <1>2, <2>5, <2>6 DEF a, o, p
<1> QED BY <1>8, <1>9

\* The last of a set that has one.
LEMMA MaxIs ==
  ASSUME NEW S, S \subseteq Int, NEW m \in S, \A x \in S : x <= m
  PROVE  Max(S) = m
<1>1. Max(S) \in S /\ \A x \in S : Max(S) >= x
  BY DEF Max
<1>2. Max(S) \in Int /\ m \in Int /\ Max(S) <= m /\ Max(S) >= m
  BY <1>1
<1> QED BY <1>2

\* The first of a set that has one.
LEMMA MinIs ==
  ASSUME NEW S, S \subseteq Int, NEW m \in S, \A x \in S : m <= x
  PROVE  Min(S) = m
<1>1. Min(S) \in S /\ \A x \in S : Min(S) <= x
  BY DEF Min
<1>2. Min(S) \in Int /\ m \in Int /\ Min(S) <= m /\ Min(S) >= m
  BY <1>1
<1> QED BY <1>2

\* The extremes of a list of bars, at some of its places.
LEMMA ExtremesHeld ==
  ASSUME NEW s \in Seq(Bar), NEW P \in SUBSET (1..Len(s)), P # {},
         \A i \in P : s[i].high \in Nat /\ s[i].low \in Nat
  PROVE  /\ \E i \in P : Max({s[k].high : k \in P}) = s[i].high /\ \A j \in P : s[j].high <= s[i].high
         /\ \E i \in P : Min({s[k].low : k \in P}) = s[i].low /\ \A j \in P : s[i].low <= s[j].low
<1> DEFINE n == Len(s)
           high == [i \in 1..n |-> IF i \in P THEN s[i].high ELSE 0]
           low == [i \in 1..n |-> IF i \in P THEN s[i].low ELSE 0]
<1>1. n \in Nat
  OBVIOUS
<1>2. /\ \A i \in 1..n : high[i] \in Nat /\ low[i] \in Nat
      /\ \A i \in P : high[i] = s[i].high /\ low[i] = s[i].low
  OBVIOUS
<1> HIDE DEF high, low, n
<1>3. PICK i \in P : \A j \in P : high[j] <= high[i]
  BY <1>1, <1>2, GreatestHeld DEF n
<1>4. PICK e \in P : \A j \in P : low[e] <= low[j]
  BY <1>1, <1>2, LeastHeld DEF n
<1>5. \E k \in P : Max({s[q].high : q \in P}) = s[k].high /\ \A j \in P : s[j].high <= s[k].high
  <2> DEFINE S == {s[q].high : q \in P}
  <2>1. PICK k \in P : \A j \in P : s[j].high <= s[k].high
    BY <1>2, <1>3
  <2>2. S \subseteq Int /\ s[k].high \in S /\ \A x \in S : x <= s[k].high
    BY <2>1
  <2> HIDE DEF S
  <2>3. Max(S) = s[k].high
    BY <2>2, MaxIs
  <2> QED BY <2>1, <2>3 DEF S
<1>6. \E k \in P : Min({s[q].low : q \in P}) = s[k].low /\ \A j \in P : s[k].low <= s[j].low
  <2> DEFINE S == {s[q].low : q \in P}
  <2>1. PICK k \in P : \A j \in P : s[k].low <= s[j].low
    BY <1>2, <1>4
  <2>2. S \subseteq Int /\ s[k].low \in S /\ \A x \in S : s[k].low <= x
    BY <2>1
  <2> HIDE DEF S
  <2>3. Min(S) = s[k].low
    BY <2>2, MinIs
  <2> QED BY <2>1, <2>3 DEF S
<1> QED BY <1>5, <1>6

\* The last ticks of the minutes since a start.
Ends(start) == {t \in TicksOf(start) : IsLast(t) \/ t = clock}

\* What is used of the ticks of a minute.
LEMMA TickFacts ==
  ASSUME MinutesInv, NEW start \in Nat, start % 2 = 0
  PROVE  /\ clock \in Nat /\ Len(tape) \in Nat /\ clock <= Len(tape) /\ tape \in Tapes
         /\ \A t : t \in TicksOf(start) <=> t \in Nat \ {0} /\ start < t /\ t <= clock
         /\ \A t \in TicksOf(start) : StartOf(t) \in Nat /\ StartOf(t) >= start /\ StartOf(t) % 2 = 0
         /\ \A t \in TicksOf(start) : (IsLast(t) /\ t = StartOf(t) + 2) \/ (~IsLast(t) /\ t = StartOf(t) + 1)
<1>1. clock \in Nat /\ Len(tape) \in Nat /\ clock <= Len(tape) /\ tape \in Tapes
  BY Hearing DEF MinutesInv, StructureInv, StructureTypes
<1>2. \A t : t \in TicksOf(start) <=> t \in Nat \ {0} /\ start < t /\ t <= clock
  BY <1>1 DEF TicksOf
<1>3. ASSUME NEW t \in TicksOf(start)
      PROVE  /\ StartOf(t) \in Nat /\ StartOf(t) >= start /\ StartOf(t) % 2 = 0
             /\ (IsLast(t) /\ t = StartOf(t) + 2) \/ (~IsLast(t) /\ t = StartOf(t) + 1)
  <2>1. t \in Nat \ {0} /\ start < t
    BY <1>2
  <2>2. /\ StartOf(t) \in Nat
        /\ (IsLast(t) /\ StartOf(t) = t - 2) \/ (~IsLast(t) /\ StartOf(t) = t - 1)
    BY <2>1, Halves
  <2>3. IsLast(t) <=> t % 2 = 0
    BY DEF IsLast
  <2>4. StartOf(t) >= start /\ StartOf(t) % 2 = 0
    BY <2>1, <2>2, <2>3
  <2> QED BY <2>1, <2>2, <2>4
<1> QED BY <1>1, <1>2, <1>3

\* While the minutes since a start were heard without a gap, the bars since that
\* start are the last bars of those minutes, if they fit in the series.
LEMMA MinutesKept ==
  ASSUME MinutesInv, 3 <= MaxCandles, NEW start \in Nat, start % 2 = 0,
         clock <= start + 6, Unbroken(start)
  PROVE  /\ Series(exchange.candles)
         /\ \A i \in 1..Len(exchange.candles) : exchange.candles[i].start >= start
              => \E t \in Ends(start) : exchange.candles[i] = BarAt(t)
         /\ \A t \in Ends(start) : \E i \in 1..Len(exchange.candles) : exchange.candles[i] = BarAt(t)
<1> DEFINE n == Len(tape)
           h == HeardIn(Bars, heard, n)
           b == exchange.candles
<1>1. /\ clock \in Nat /\ n \in Nat /\ clock <= n /\ tape \in Tapes
      /\ \A t : t \in TicksOf(start) <=> t \in Nat \ {0} /\ start < t /\ t <= clock
      /\ \A t \in TicksOf(start) : StartOf(t) \in Nat /\ StartOf(t) >= start /\ StartOf(t) % 2 = 0
      /\ \A t \in TicksOf(start) : (IsLast(t) /\ t = StartOf(t) + 2) \/ (~IsLast(t) /\ t = StartOf(t) + 1)
  BY TickFacts
<1>2. HeardType(heard, n) /\ BarsType(Bars, n) /\ \A t \in 1..n : Bars[t] = BarAt(t)
  BY <1>1, BarsAre DEF MinutesInv
<1>3. /\ b = Newest(h, MaxCandles)
      /\ \A s \in DOMAIN heard : \A t \in heard[s] : t <= clock
  BY DEF MinutesInv
<1>4. Series(h) /\ \A x : x \in Range(h) <=> \E s \in DOMAIN heard : heard[s] # {} /\ x = Bars[Max(heard[s])]
  BY <1>1, <1>2, HeardSeries
<1>5. MaxCandles \in Nat \ {0}
  BY StructureAssumption
<1> HIDE DEF h
<1>6. /\ Series(b) /\ \A c \in Range(b) : c \in Range(h)
      /\ KeepsAfter(h, b)
      /\ Len(b) # MaxCandles => b = h
  BY <1>3, <1>4, <1>5, NewestKeeps
<1> HIDE DEF b, n
<1>7. ASSUME NEW s \in DOMAIN heard, heard[s] # {}
      PROVE  /\ Max(heard[s]) \in heard[s] /\ Max(heard[s]) \in 1..n /\ StartOf(Max(heard[s])) = s
             /\ \A u \in heard[s] : u <= Max(heard[s]) /\ u \in Nat /\ u \in {s + 1, s + 2}
             /\ s \in Nat /\ Max(heard[s]) <= clock
  BY <1>1, <1>2, <1>3, <1>7, LastHeard
<1>8. \A t \in TicksOf(start) : t \in 1..n /\ StartOf(t) \in DOMAIN heard
  BY <1>1, <1>2 DEF HeardType
<1>9. \A t \in Ends(start) : t \in TicksOf(start) /\ t \in heard[StartOf(t)]
  BY DEF Ends, Unbroken
<1>10. ASSUME NEW i \in 1..Len(b), b[i].start >= start
       PROVE  \E t \in Ends(start) : b[i] = BarAt(t)
  <2>1. b[i] \in Range(h)
    BY <1>6, SeriesFacts
  <2>2. PICK s \in DOMAIN heard : heard[s] # {} /\ b[i] = Bars[Max(heard[s])]
    BY <1>4, <2>1
  <2> DEFINE t == Max(heard[s])
  <2>3. /\ t \in heard[s] /\ t \in 1..n /\ StartOf(t) = s /\ s \in Nat /\ t <= clock
        /\ \A u \in heard[s] : u <= t /\ u \in Nat /\ u \in {s + 1, s + 2}
    BY <1>7, <2>2
  <2> HIDE DEF t
  <2>4. b[i] = BarAt(t) /\ b[i].start = s
    BY <1>2, <2>2, <2>3 DEF t, BarsType
  <2>5. t \in TicksOf(start)
    BY <1>1, <1>10, <2>3, <2>4
  <2>6. ASSUME ~IsLast(t), t # clock
        PROVE  FALSE
    <3>1. t = s + 1 /\ s + 2 <= clock
      BY <1>1, <2>3, <2>5, <2>6
    <3>2. s + 2 \in TicksOf(start)
      BY <1>1, <2>3, <2>5, <3>1
    <3>3. s % 2 = 0
      BY <1>1, <2>3, <2>5
    <3>4. IsLast(s + 2)
      BY <2>3, <3>3 DEF IsLast
    <3>5. StartOf(s + 2) = s
      <4> DEFINE v == s + 2
      <4>1. (IsLast(v) /\ v = StartOf(v) + 2) \/ (~IsLast(v) /\ v = StartOf(v) + 1)
        BY <1>1, <3>2
      <4>2. StartOf(v) \in Nat
        BY <1>1, <3>2
      <4> QED BY <2>3, <3>4, <4>1, <4>2
    <3>6. s + 2 \in heard[s]
      BY <1>9, <3>2, <3>4, <3>5 DEF Ends
    <3> QED BY <2>3, <3>1, <3>6
  <2> QED BY <2>4, <2>5, <2>6 DEF Ends
<1>11. ASSUME NEW t \in Ends(start), BarAt(t) \notin Range(b)
       PROVE  FALSE
  <2> DEFINE s == StartOf(t)
  <2>1. t \in TicksOf(start) /\ t \in heard[s] /\ t \in 1..n /\ s \in DOMAIN heard /\ s \in Nat /\ s >= start
    BY <1>1, <1>8, <1>9
  <2>2. IsLast(t) \/ t = clock
    BY DEF Ends
  <2>3. (IsLast(t) /\ t = s + 2) \/ (~IsLast(t) /\ t = s + 1)
    BY <1>1, <2>1
  <2>4. /\ Max(heard[s]) \in heard[s] /\ \A u \in heard[s] : u <= Max(heard[s]) /\ u \in Nat /\ u \in {s + 1, s + 2}
        /\ Max(heard[s]) <= clock
    BY <1>7, <2>1
  <2> HIDE DEF s
  <2>5. Max(heard[s]) = t
    BY <1>1, <2>1, <2>2, <2>3, <2>4
  <2>6. BarAt(t) \in Range(h) /\ BarAt(t).start = s
    <3>1. Bars[t] = BarAt(t) /\ Bars[t].start = s
      BY <1>2, <2>1 DEF BarsType, s
    <3> QED BY <1>4, <2>1, <2>5, <3>1
  <2>7. Len(b) = MaxCandles
    BY <1>6, <1>11, <2>6
  <2>8. \A e \in Range(b) : ~(e.start <= s)
    BY <1>6, <1>11, <2>6 DEF KeepsAfter
  <2>9. ASSUME NEW i \in 1..Len(b)
        PROVE  b[i].start \in {start + 2, start + 4}
    <3>1. b[i] \in Range(b) /\ b[i].start \in Int
      BY <1>6, SeriesFacts
    <3>2. s < b[i].start
      BY <2>1, <2>8, <3>1
    <3>0. start < b[i].start /\ b[i].start >= start
      <4>1. s \in Int /\ s >= start /\ b[i].start \in Int
        BY <2>1, <3>1
      <4> QED BY <3>2, <4>1
    <3>3. PICK u \in Ends(start) : b[i] = BarAt(u)
      BY <1>10, <3>0
    <3>4. u \in TicksOf(start) /\ u \in 1..n /\ b[i].start = StartOf(u)
      BY <1>2, <1>8, <1>9, <3>3 DEF BarsType
    <3>5. StartOf(u) \in Nat /\ StartOf(u) % 2 = 0 /\ StartOf(u) < u /\ u <= clock
      BY <1>1, <3>4
    <3>6. StartOf(u) < start + 6
      BY <1>1, <3>4, <3>5
    <3> DEFINE w == StartOf(u)
    <3>7. w \in Nat /\ w % 2 = 0 /\ start < w /\ w < start + 6 /\ b[i].start = w
      BY <3>0, <3>4, <3>5, <3>6
    <3> HIDE DEF w
    <3>8. w \in {start + 2, start + 4}
      BY <3>7
    <3> QED BY <3>7, <3>8
  <2>10. 1 \in 1..Len(b) /\ 2 \in 1..Len(b) /\ 3 \in 1..Len(b)
    BY <1>5, <2>7
  <2>11. b[1].start < b[2].start /\ b[2].start < b[3].start
    BY <1>6, <2>10, SeriesFacts
  <2> QED BY <2>9, <2>10, <2>11
<1>12. \A t \in Ends(start) : \E i \in 1..Len(b) : b[i] = BarAt(t)
  BY <1>6, <1>11, SeriesFacts
<1> QED BY <1>6, <1>10, <1>12 DEF b

\* The longer bar of such a start.
LEMMA LongerBar ==
  ASSUME MinutesInv, 3 <= MaxCandles, NEW start \in Nat, start % 2 = 0, start < clock,
         clock <= start + 6, Unbroken(start)
  PROVE  LET inside == Inside(start)
             prices == {tape[t] : t \in TicksOf(start)}
             bar(i) == exchange.candles[i]
             high == Max({bar(i).high : i \in inside})
             low == Min({bar(i).low : i \in inside})
         IN  /\ inside # {}
             /\ bar(Min(inside)).open = tape[start + 1] /\ bar(Max(inside)).close = tape[clock]
             /\ high \in prices /\ low \in prices
             /\ \A p \in prices : low <= p /\ p <= high
<1> DEFINE n == Len(tape)
           b == exchange.candles
           P == Inside(start)
           prices == {tape[t] : t \in TicksOf(start)}
<1>1. /\ clock \in Nat /\ n \in Nat /\ clock <= n /\ tape \in Tapes
      /\ \A t : t \in TicksOf(start) <=> t \in Nat \ {0} /\ start < t /\ t <= clock
      /\ \A t \in TicksOf(start) : StartOf(t) \in Nat /\ StartOf(t) >= start /\ StartOf(t) % 2 = 0
      /\ \A t \in TicksOf(start) : (IsLast(t) /\ t = StartOf(t) + 2) \/ (~IsLast(t) /\ t = StartOf(t) + 1)
  BY TickFacts
<1>2. /\ Series(b)
      /\ \A i \in 1..Len(b) : b[i].start >= start => \E t \in Ends(start) : b[i] = BarAt(t)
      /\ \A t \in Ends(start) : \E i \in 1..Len(b) : b[i] = BarAt(t)
  BY MinutesKept
<1>3. /\ Len(b) \in Nat /\ DOMAIN b = 1..Len(b) /\ b \in Seq(Bar)
      /\ \A i \in 1..Len(b) : b[i].start \in Int
      /\ \A i, j \in 1..Len(b) : i < j <=> b[i].start < b[j].start
  BY <1>2, SeriesFacts
<1>4. P \in SUBSET (1..Len(b)) /\ \A i : i \in P <=> i \in 1..Len(b) /\ b[i].start >= start
  BY <1>3 DEF Inside
<1> HIDE DEF P, b, n
<1>5. \A t : t \in Ends(start) <=> t \in TicksOf(start) /\ (IsLast(t) \/ t = clock)
  BY DEF Ends
<1>6. ASSUME NEW t \in TicksOf(start)
      PROVE  /\ t \in 1..n /\ BarAt(t).start = StartOf(t)
             /\ StartOf(t) + 1 \in TicksOf(start)
             /\ BarAt(t).open = tape[StartOf(t) + 1] /\ BarAt(t).close = tape[t]
             /\ BarAt(t).high \in {tape[StartOf(t) + 1], tape[t]} /\ BarAt(t).low \in {tape[StartOf(t) + 1], tape[t]}
             /\ BarAt(t).high >= tape[StartOf(t) + 1] /\ BarAt(t).high >= tape[t]
             /\ BarAt(t).low <= tape[StartOf(t) + 1] /\ BarAt(t).low <= tape[t]
             /\ tape[t] \in Nat /\ tape[StartOf(t) + 1] \in Nat
  <2>1. t \in 1..n
    BY <1>1
  <2>2. StartOf(t) + 1 \in TicksOf(start)
    BY <1>1
  <2>3. StartOf(t) + 1 \in 1..n
    BY <1>1, <2>2
  <2>4. tape[t] \in Nat /\ tape[StartOf(t) + 1] \in Nat
    BY <1>1, <2>1, <2>3, TapePrices DEF n
  <2>5. BarAt(t).start = StartOf(t)
    BY <1>1, <2>1, BarsTyped DEF n
  <2> QED BY <1>1, <2>1, <2>2, <2>4, <2>5, BarValues DEF n
<1>7. ASSUME NEW i \in P
      PROVE  \E t \in Ends(start) : t \in TicksOf(start) /\ b[i] = BarAt(t) /\ b[i].start = StartOf(t)
  BY <1>2, <1>4, <1>5, <1>6
<1>8. ASSUME NEW t \in Ends(start)
      PROVE  \E i \in P : b[i] = BarAt(t) /\ b[i].start = StartOf(t)
  <2>1. PICK i \in 1..Len(b) : b[i] = BarAt(t)
    BY <1>2
  <2>2. b[i].start = StartOf(t) /\ StartOf(t) >= start
    BY <1>1, <1>5, <1>6, <2>1
  <2> QED BY <1>4, <2>1, <2>2
<1>9. P \subseteq Int
  BY <1>3, <1>4
\* The first minute.
<1>10. b[Min(P)].open = tape[start + 1] /\ P # {}
  <2>1. \E t \in Ends(start) : StartOf(t) = start
    <3>1. CASE start + 2 <= clock
      <4> DEFINE t == start + 2
      <4>1. t \in TicksOf(start) /\ t % 2 = 0
        BY <1>1, <3>1
      <4>2. IsLast(t)
        BY <4>1 DEF IsLast
      <4>3. StartOf(t) \in Nat /\ t = StartOf(t) + 2
        BY <1>1, <4>1, <4>2
      <4>4. StartOf(t) = start
        BY <4>3
      <4> QED BY <1>5, <4>1, <4>2, <4>4
    <3>2. CASE ~(start + 2 <= clock)
      <4> DEFINE t == start + 1
      <4>1. t \in TicksOf(start) /\ t = clock /\ t % 2 = 1
        BY <1>1, <3>2
      <4>2. ~IsLast(t)
        BY <4>1 DEF IsLast
      <4>3. StartOf(t) \in Nat /\ t = StartOf(t) + 1
        BY <1>1, <4>1, <4>2
      <4>4. StartOf(t) = start
        BY <4>3
      <4> QED BY <1>5, <4>1, <4>4
    <3> QED BY <3>1, <3>2
  <2>2. PICK t \in Ends(start) : StartOf(t) = start
    BY <2>1
  <2>3. PICK i \in P : b[i] = BarAt(t) /\ b[i].start = start
    BY <1>8, <2>2
  <2>4. \A j \in P : i <= j
    <3> SUFFICES ASSUME NEW j \in P, j < i
                 PROVE  FALSE
      BY <1>9
    <3>1. b[j].start < b[i].start /\ b[j].start >= start /\ b[j].start \in Int
      BY <1>3, <1>4
    <3> QED BY <2>3, <3>1
  <2>5. Min(P) = i
    BY <1>9, <2>4, MinIs
  <2>6. b[i].open = tape[start + 1]
    BY <1>5, <1>6, <2>2, <2>3
  <2> QED BY <2>5, <2>6
\* The last one.
<1>11. b[Max(P)].close = tape[clock]
  <2>1. clock \in Ends(start) /\ clock \in TicksOf(start)
    BY <1>1, <1>5
  <2>2. PICK i \in P : b[i] = BarAt(clock) /\ b[i].start = StartOf(clock)
    BY <1>8, <2>1
  <2>3. \A j \in P : j <= i
    <3> SUFFICES ASSUME NEW j \in P, i < j
                 PROVE  FALSE
      BY <1>9
    <3>1. b[i].start < b[j].start
      BY <1>3, <1>4
    <3>2. PICK t \in Ends(start) : t \in TicksOf(start) /\ b[j].start = StartOf(t)
      BY <1>7
    <3>3. /\ t \in Nat /\ t <= clock /\ StartOf(t) \in Nat /\ StartOf(t) < t /\ StartOf(t) % 2 = 0
          /\ StartOf(clock) \in Nat /\ StartOf(clock) % 2 = 0 /\ clock <= StartOf(clock) + 2
      BY <1>1, <2>1, <3>2
    <3>4. StartOf(clock) < StartOf(t)
      BY <2>2, <3>1, <3>2
    <3> DEFINE v == StartOf(clock)
               w == StartOf(t)
    <3>5. v \in Nat /\ v % 2 = 0 /\ w \in Nat /\ w % 2 = 0 /\ v < w /\ w < v + 2
      <4>1. t \in Nat /\ clock \in Nat
        BY <1>1, <3>3
      <4> QED BY <3>3, <3>4, <4>1
    <3> HIDE DEF v, w
    <3> QED BY <3>5
  <2>4. Max(P) = i
    BY <1>9, <2>3, MaxIs
  <2> QED BY <1>6, <2>1, <2>2, <2>4
\* The extremes.
<1>12. ASSUME NEW i \in P
       PROVE  b[i].high \in prices /\ b[i].low \in prices /\ b[i].high \in Nat /\ b[i].low \in Nat
  <2>1. PICK t \in TicksOf(start) : b[i] = BarAt(t)
    BY <1>7
  <2>2. tape[t] \in prices /\ tape[StartOf(t) + 1] \in prices
    BY <1>6
  <2> HIDE DEF prices
  <2> QED BY <1>6, <2>1, <2>2
<1>13. ASSUME NEW p \in prices
       PROVE  \E i \in P : b[i].low <= p /\ p <= b[i].high
  <2>1. PICK t \in TicksOf(start) : p = tape[t]
    OBVIOUS
  <2>2. \E e \in Ends(start) : e \in TicksOf(start) /\ (t = e \/ t = StartOf(e) + 1)
    <3>1. CASE IsLast(t) \/ t = clock
      BY <1>5, <3>1
    <3>2. CASE ~(IsLast(t) \/ t = clock)
      <4> DEFINE e == t + 1
      <4>1. e \in TicksOf(start) /\ t % 2 = 1 /\ e % 2 = 0
        BY <1>1, <3>2 DEF IsLast
      <4>2. IsLast(e)
        BY <4>1 DEF IsLast
      <4>3. StartOf(e) \in Nat /\ e = StartOf(e) + 2
        BY <1>1, <4>1, <4>2
      <4>4. t = StartOf(e) + 1
        BY <1>1, <4>3
      <4> QED BY <1>5, <4>1, <4>2, <4>4
    <3> QED BY <3>1, <3>2
  <2>3. PICK e \in Ends(start) : e \in TicksOf(start) /\ (t = e \/ t = StartOf(e) + 1)
    BY <2>2
  <2>4. PICK i \in P : b[i] = BarAt(e)
    BY <1>8
  <2>5. p = tape[e] \/ p = tape[StartOf(e) + 1]
    BY <2>1, <2>3
  <2> HIDE DEF prices
  <2> QED BY <1>6, <2>3, <2>4, <2>5
<1>14. /\ \E i \in P : Max({b[k].high : k \in P}) = b[i].high /\ \A j \in P : b[j].high <= b[i].high
       /\ \E i \in P : Min({b[k].low : k \in P}) = b[i].low /\ \A j \in P : b[i].low <= b[j].low
  <2>1. P # {} /\ \A i \in P : b[i].high \in Nat /\ b[i].low \in Nat
    BY <1>10, <1>12
  <2> QED BY <1>3, <1>4, <2>1, ExtremesHeld
<1> DEFINE high == Max({b[k].high : k \in P})
           low == Min({b[k].low : k \in P})
<1>15. PICK i \in P : high = b[i].high /\ \A j \in P : b[j].high <= b[i].high
  BY <1>14
<1>16. PICK k \in P : low = b[k].low /\ \A j \in P : b[k].low <= b[j].low
  BY <1>14
<1> HIDE DEF high, low
<1>17. high \in prices /\ low \in prices /\ high \in Nat /\ low \in Nat
  BY <1>12, <1>15, <1>16
<1>18. ASSUME NEW p \in prices
       PROVE  low <= p /\ p <= high
  <2>1. PICK j \in P : b[j].low <= p /\ p <= b[j].high
    BY <1>13
  <2>2. p \in Nat
    BY <1>6
  <2>3. b[j].high <= high /\ low <= b[j].low /\ b[j].high \in Nat /\ b[j].low \in Nat
    BY <1>12, <1>15, <1>16
  <2> HIDE DEF prices
  <2> QED BY <1>17, <2>1, <2>2, <2>3
<1> QED BY <1>10, <1>11, <1>17, <1>18 DEF high, low, P, b

\* A bar in progress has a start and a traded tick.
LEMMA LongerStart ==
  ASSUME NEW ticks \in Nat \ {0}, NEW minutes \in 1..3
  PROVE  LET start == Bucket(Top(ticks, 1) - 1, 2 * minutes)
         IN  start \in Nat /\ start % 2 = 0 /\ start < ticks /\ ticks <= start + 6
<1>1. Top(ticks, 1) = ticks
  BY DEF Top
<1>2. CASE minutes = 1
  BY <1>1, <1>2 DEF Bucket
<1>3. CASE minutes = 2
  BY <1>1, <1>3 DEF Bucket
<1>4. CASE minutes = 3
  BY <1>1, <1>4 DEF Bucket
<1> QED BY <1>2, <1>3, <1>4

\* What is in the series was traded.
LEMMA TradedFirst == ASSUME MinutesInv, exchange.candles # <<>> PROVE clock \in Nat \ {0}
<1> DEFINE n == Len(tape)
           h == HeardIn(Bars, heard, n)
<1>1. clock \in Nat /\ n \in Nat /\ tape \in Tapes
  BY Hearing DEF MinutesInv, StructureInv, StructureTypes
<1>2. HeardType(heard, n) /\ BarsType(Bars, n)
  BY <1>1, BarsAre DEF MinutesInv
<1>3. Series(h) /\ \A x : x \in Range(h) <=> \E s \in DOMAIN heard : heard[s] # {} /\ x = Bars[Max(heard[s])]
  BY <1>1, <1>2, HeardSeries
<1>4. exchange.candles = Newest(h, MaxCandles)
  BY DEF MinutesInv
<1>5. MaxCandles \in Nat \ {0}
  BY StructureAssumption
<1> HIDE DEF h, n
<1>6. Series(exchange.candles) /\ \A c \in Range(exchange.candles) : c \in Range(h)
  BY <1>3, <1>4, <1>5, NewestKeeps
<1>7. PICK c : c \in Range(exchange.candles)
  <2>1. exchange.candles \in Seq(Bar) /\ Len(exchange.candles) \in Nat
        /\ \A i \in 1..Len(exchange.candles) : exchange.candles[i] \in Range(exchange.candles)
    BY <1>6, SeriesFacts
  <2>2. Len(exchange.candles) # 0
    BY <2>1
  <2>3. 1 \in 1..Len(exchange.candles)
    BY <2>1, <2>2
  <2> QED BY <2>1, <2>3
<1>8. PICK s \in DOMAIN heard : heard[s] # {}
  BY <1>3, <1>6, <1>7
<1>9. Max(heard[s]) \in heard[s] /\ Max(heard[s]) \in 1..n
  BY <1>1, <1>2, <1>8, LastHeard
<1>10. Max(heard[s]) <= clock
  BY <1>9 DEF MinutesInv
<1> QED BY <1>1, <1>9, <1>10

\* So the bar in progress is what the exchange traded in it.
LEMMA LiveBarHolds == ASSUME MinutesInv, 3 <= MaxCandles PROVE LiveBarIsTrue
<1> SUFFICES ASSUME NEW minutes \in 1..3,
                    Unbroken(Bucket(Top(clock, 1) - 1, 2 * minutes)), exchange.candles # <<>>
             PROVE  LET start == Bucket(Top(clock, 1) - 1, 2 * minutes)
                        prices == {tape[t] : t \in TicksOf(start)}
                        bar == LiveCandle(minutes)
                    IN  /\ bar.open = tape[start + 1] /\ bar.close = tape[clock]
                        /\ bar.high \in prices /\ bar.low \in prices
                        /\ \A p \in prices : bar.low <= p /\ p <= bar.high
  BY DEF LiveBarIsTrue
<1> DEFINE start == Bucket(Top(clock, 1) - 1, 2 * minutes)
           inside == Inside(start)
           prices == {tape[t] : t \in TicksOf(start)}
           bar(i) == exchange.candles[i]
           high == Max({bar(i).high : i \in inside})
           low == Min({bar(i).low : i \in inside})
<1>1. start \in Nat /\ start % 2 = 0 /\ start < clock /\ clock <= start + 6
  BY TradedFirst, LongerStart
<1>2. Unbroken(start)
  OBVIOUS
<1>3. LiveCandle(minutes) =
        IF inside = {} THEN NoBar
        ELSE [start |-> start, open |-> bar(Min(inside)).open, close |-> bar(Max(inside)).close,
              high |-> high, low |-> low, closed |-> FALSE]
  BY DEF LiveCandle
<1> HIDE DEF start
<1>4. /\ inside # {}
      /\ bar(Min(inside)).open = tape[start + 1] /\ bar(Max(inside)).close = tape[clock]
      /\ high \in prices /\ low \in prices
      /\ \A p \in prices : low <= p /\ p <= high
  BY <1>1, <1>2, LongerBar
<1> DEFINE open == bar(Min(inside)).open
           close == bar(Max(inside)).close
<1>5. LiveCandle(minutes) = [start |-> start, open |-> open, close |-> close,
                             high |-> high, low |-> low, closed |-> FALSE]
  BY <1>3, <1>4
<1>6. open = tape[start + 1] /\ close = tape[clock]
  BY <1>4
<1> HIDE DEF high, low, open, close, inside
<1>7. /\ LiveCandle(minutes).open = tape[start + 1] /\ LiveCandle(minutes).close = tape[clock]
      /\ LiveCandle(minutes).high = high /\ LiveCandle(minutes).low = low
  BY <1>5, <1>6
<1> QED BY <1>4, <1>7 DEF start

\* Whatever order klines, history and repeated history come in, the series is the
\* newest minutes heard of, each with the exchange's last word on it, and while no
\* minute is missing the longer bar in progress is what was traded in it: for every
\* tape, and a series that keeps the three minutes of the longest bar
\* (SmcEngine.update and live_candle).
THEOREM MinutesStayTrue ==
  ASSUME 3 <= MaxCandles
  PROVE  ViewsSpec => []MinutesAreTrue
<1>1. ViewsInit => MinutesInv
  BY MinutesStart DEF ViewsInit
<1>2. ASSUME MinutesInv, [ViewsNext]_<<part, vars, frameVars, wallVars, scoreVars>>
      PROVE  MinutesInv'
  <2>1. [Next]_vars
    BY <1>2 DEF ViewsNext
  <2> QED BY <1>2, <2>1, MinutesStep
<1>3. MinutesInv => MinutesAreTrue
  <2> SUFFICES ASSUME MinutesInv
               PROVE  MinutesAreTrue
    OBVIOUS
  <2>1. tape \in Tapes /\ HeardType(heard, Len(tape))
    BY DEF MinutesInv, StructureInv, StructureTypes
  <2>2. exchange.candles = Newest(HeardBars, MaxCandles)
    BY <2>1, HeardBarsAre DEF MinutesInv
  <2> QED BY <2>2, LiveBarHolds DEF MinutesAreTrue, SeriesConverges
<1> QED BY <1>1, <1>2, <1>3, PTL DEF ViewsSpec
=============================================================================
