--------------------------- MODULE RecordsProofs ---------------------------
(***************************************************************************)
(* For any number of trades and any limits of journal, batch and buffer:   *)
(* a terminal trade leaves memory unwritten only with the process, or with *)
(* a buffer that overflows, and then the oldest go.                        *)
(***************************************************************************)
EXTENDS Records, SelectionProofs

RecorderType ==
    [at : {"idle", "restoring", "loaded", "draining", "filing", "due", "sending", "closing"},
     hand : Seq(Nat), batch : Seq(Nat)]
StopperType == [at : {"idle", "sending", "done"}, hand : Seq(Nat), batch : Seq(Nat)]
TypesOk ==
    /\ process \in {"up", "stopping", "down"} /\ made \in Nat /\ live \subseteq 1..made
    /\ queue \in Seq(Nat) /\ buffer \in Seq(Nat)
    /\ recorder \in RecorderType /\ stopper \in StopperType

\* What a thread has in hand belongs to where it is.
HandsOk ==
    /\ recorder.at \notin {"sending", "closing"} => recorder.batch = <<>>
    /\ recorder.at \in {"idle", "restoring", "loaded", "draining", "closing"} => recorder.hand = <<>>
    /\ process = "up" => stopper = Resting
    /\ stopper.at = "sending" => process = "stopping"

\* As long as nobody stops the process trades go to the table in the order in
\* which they ended, which is that of their signals.
Sorted(s) == \A i, j \in 1..Len(s) : i < j => s[i] < s[j]
Below(s, t) == \A i \in 1..Len(s), j \in 1..Len(t) : s[i] < t[j]
Older(s) == \A i \in 1..Len(s), t \in live : s[i] < t
OrderOk ==
    /\ recorder.at \in {"sending", "closing"} => buffer = <<>>
    /\ Sorted(recorder.batch) /\ Sorted(buffer) /\ Sorted(recorder.hand) /\ Sorted(queue)
    /\ Below(recorder.batch, recorder.hand) /\ Below(recorder.batch, queue)
    /\ Below(buffer, recorder.hand) /\ Below(buffer, queue) /\ Below(recorder.hand, queue)
    /\ Older(recorder.batch) /\ Older(buffer) /\ Older(recorder.hand) /\ Older(queue)
    /\ \A t \in live, u \in live : t = u
    /\ \A i \in 1..Len(queue) : queue[i] <= made
    /\ \A i \in 1..Len(buffer) : buffer[i] <= made
    /\ \A i \in 1..Len(recorder.hand) : recorder.hand[i] <= made
    /\ \A i \in 1..Len(recorder.batch) : recorder.batch[i] <= made

\* Nothing in memory outlives the process.
DownOk ==
    process = "down" => /\ recorder = Resting /\ stopper = Resting
                        /\ buffer = <<>> /\ queue = <<>> /\ live = {}

RecordsInv == TypesOk /\ HandsOk /\ DownOk /\ (process = "up" => OrderOk)
-----------------------------------------------------------------------------
(* The sequences.                                                          *)

Tailed(s, r) ==
    /\ Len(r) <= Len(s)
    /\ \A i \in 1..Len(r) : i + Len(s) - Len(r) \in 1..Len(s) /\ r[i] = s[i + Len(s) - Len(r)]

LEMMA NewestIs ==
  ASSUME NEW s \in Seq(Nat), NEW n \in Nat, NEW r, r = Newest(s, n)
  PROVE  r \in Seq(Nat) /\ Tailed(s, r) /\ (r = s \/ Len(r) = n)
<1>1. Len(s) \in Nat /\ \A i \in 1..Len(s) : s[i] \in Nat
  BY LenProperties
<1>2. CASE Len(s) <= n
  BY <1>1, <1>2 DEF Newest, Tailed
<1>3. CASE Len(s) > n
  <2>1. r = SubSeq(s, Len(s) - n + 1, Len(s))
    BY <1>1, <1>3 DEF Newest
  <2>2. \A i \in Len(s) - n + 1..Len(s) : s[i] \in Nat
    BY <1>1, <1>3
  <2>3. /\ r \in Seq(Nat)
        /\ Len(r) = IF Len(s) - n + 1 <= Len(s) THEN Len(s) - (Len(s) - n + 1) + 1 ELSE 0
        /\ \A i \in 1..Len(s) - (Len(s) - n + 1) + 1 : r[i] = s[(Len(s) - n + 1) + i - 1]
    BY <1>1, <2>1, <2>2, SubSeqProperties
  <2>4. Len(r) = n
    BY <1>1, <2>3
  <2>5. ASSUME NEW i \in 1..n PROVE r[i] = s[i + Len(s) - n]
    <3>1. i \in 1..Len(s) - (Len(s) - n + 1) + 1 /\ (Len(s) - n + 1) + i - 1 = i + Len(s) - n
      BY <1>1
    <3> QED BY <2>3, <3>1
  <2>6. n <= Len(s) /\ \A i \in 1..n : i + Len(s) - n \in 1..Len(s)
    BY <1>1, <1>3
  <2>7. Tailed(s, r)
    BY <2>4, <2>5, <2>6 DEF Tailed
  <2> QED BY <2>3, <2>4, <2>7
<1> QED BY <1>1, <1>2, <1>3

LEMMA InSet ==
  ASSUME NEW s \in Seq(Nat), NEW t
  PROVE  t \in ToSet(s) <=> \E i \in 1..Len(s) : t = s[i]
BY DEF ToSet

LEMMA WaitingIs ==
  ASSUME NEW t
  PROVE  t \in Waiting <=> \/ t \in ToSet(queue) \/ t \in ToSet(recorder.hand)
                           \/ t \in ToSet(recorder.batch) \/ t \in ToSet(stopper.batch)
                           \/ t \in ToSet(buffer)
BY DEF Waiting

\* One row goes from the hand to the buffer.
IsFiled(i, c, b, h) ==
    \/ i \in 1..Len(b) /\ c[i] = b[i]
    \/ i = Len(b) + 1 /\ c[i] = h[1]

LEMMA Filed ==
  ASSUME NEW b \in Seq(Nat), NEW h \in Seq(Nat), h # <<>>
  PROVE  LET c == Append(b, Head(h))
             r == Tail(h)
         IN  /\ c \in Seq(Nat) /\ r \in Seq(Nat) /\ 1 \in 1..Len(h)
             /\ \A i \in 1..Len(c) : IsFiled(i, c, b, h)
             /\ \A i \in 1..Len(r) : i + 1 \in 1..Len(h) /\ r[i] = h[i + 1]
             /\ ToSet(b) \cup ToSet(h) \subseteq ToSet(c) \cup ToSet(r)
<1>0. PICK c, r : c = Append(b, Head(h)) /\ r = Tail(h)
  OBVIOUS
<1>1. /\ r \in Seq(Nat) /\ Len(r) = Len(h) - 1 /\ Len(h) \in Nat \ {0}
      /\ Head(h) = h[1] /\ Head(h) \in Nat
      /\ \A i \in 1..Len(r) : r[i] = h[i + 1]
  BY <1>0, HeadTailProperties, EmptySeq
<1>2. /\ c \in Seq(Nat) /\ Len(c) = Len(b) + 1 /\ Len(b) \in Nat
      /\ c[Len(b) + 1] = h[1] /\ \A i \in 1..Len(b) : c[i] = b[i]
  BY <1>0, <1>1, AppendProperties, LenProperties
<1>3. \A i \in 1..Len(r) : i + 1 \in 1..Len(h) /\ r[i] = h[i + 1]
  BY <1>1
<1>4. ASSUME NEW i \in 1..Len(c)
      PROVE  IsFiled(i, c, b, h)
  BY <1>2 DEF IsFiled
<1>5. 1 \in 1..Len(h)
  BY <1>1
<1>6. ASSUME NEW t \in ToSet(b) \cup ToSet(h) PROVE t \in ToSet(c) \cup ToSet(r)
  <2>1. CASE t \in ToSet(b)
    <3>1. PICK i \in 1..Len(b) : t = b[i]
      BY <2>1, InSet
    <3>2. i \in 1..Len(c) /\ c[i] = t
      BY <1>2, <3>1
    <3> QED BY <1>2, <3>2, InSet
  <2>2. CASE t \in ToSet(h)
    <3>1. PICK i \in 1..Len(h) : t = h[i]
      BY <2>2, InSet
    <3>2. CASE i = 1
      <4>1. Len(b) + 1 \in 1..Len(c) /\ c[Len(b) + 1] = t
        BY <1>2, <3>1, <3>2
      <4> QED BY <1>2, <4>1, InSet
    <3>3. CASE i # 1
      <4>1. i - 1 \in 1..Len(r) /\ i - 1 + 1 = i
        BY <1>1, <3>1, <3>3
      <4>2. r[i - 1] = t
        BY <1>1, <3>1, <4>1
      <4> QED BY <1>1, <4>1, <4>2, InSet
    <3> QED BY <3>2, <3>3
  <2> QED BY <1>6, <2>1, <2>2
<1> QED BY <1>0, <1>1, <1>2, <1>3, <1>4, <1>5, <1>6

LEMMA FiledInOrder ==
  ASSUME NEW b \in Seq(Nat), NEW h \in Seq(Nat), NEW c \in Seq(Nat), NEW r \in Seq(Nat),
         1 \in 1..Len(h), \A i \in 1..Len(c) : IsFiled(i, c, b, h),
         \A i \in 1..Len(r) : i + 1 \in 1..Len(h) /\ r[i] = h[i + 1],
         Sorted(b), Sorted(h), Below(b, h)
  PROVE  Sorted(c) /\ Sorted(r) /\ Below(c, r)
<1>1. ASSUME NEW i \in 1..Len(c), NEW j \in 1..Len(c), i < j PROVE c[i] < c[j]
  <2>1. i \in 1..Len(b) /\ c[i] = b[i]
    <3>1. i \in Nat /\ j \in Nat /\ Len(b) \in Nat
      BY LenProperties
    <3>2. IsFiled(i, c, b, h) /\ IsFiled(j, c, b, h)
      OBVIOUS
    <3>3. j <= Len(b) + 1
      BY <3>1, <3>2 DEF IsFiled
    <3>4. i # Len(b) + 1
      BY <1>1, <3>1, <3>3
    <3> QED BY <3>2, <3>4 DEF IsFiled
  <2>2. CASE j \in 1..Len(b) /\ c[j] = b[j]
    BY <1>1, <2>1, <2>2 DEF Sorted
  <2>3. CASE c[j] = h[1]
    BY <2>1, <2>3 DEF Below
  <2> QED BY <2>2, <2>3 DEF IsFiled
<1>2. ASSUME NEW i \in 1..Len(r), NEW j \in 1..Len(r), i < j PROVE r[i] < r[j]
  <2>1. i + 1 \in 1..Len(h) /\ j + 1 \in 1..Len(h) /\ i + 1 < j + 1
    BY <1>2
  <2>2. h[i + 1] < h[j + 1]
    BY <2>1 DEF Sorted
  <2> QED BY <2>2
<1>3. ASSUME NEW i \in 1..Len(c), NEW j \in 1..Len(r) PROVE c[i] < r[j]
  <2>1. j + 1 \in 1..Len(h) /\ r[j] = h[j + 1] /\ 1 < j + 1
    OBVIOUS
  <2>2. CASE i \in 1..Len(b) /\ c[i] = b[i]
    BY <2>1, <2>2 DEF Below
  <2>3. CASE c[i] = h[1]
    BY <2>1, <2>3 DEF Sorted
  <2> QED BY <2>2, <2>3 DEF IsFiled
<1> QED BY <1>1, <1>2, <1>3 DEF Sorted, Below

\* A batch that is sent is in the table, or back in the buffer as far as there
\* is room, without the oldest.
LEMMA Inserted ==
  ASSUME NEW b \in Seq(Nat), buffer \in Seq(Nat),
         IF b = <<>> THEN UNCHANGED <<table, buffer>> ELSE Insert(b)
  PROVE  /\ buffer' \in Seq(Nat)
         /\ \A t \in ToSet(b) \cup ToSet(buffer) :
               \/ t \in table' \/ t \in ToSet(buffer')
               \/ /\ Len(buffer') = BufferLimit
                  /\ buffer = <<>> /\ Sorted(b) => \A u \in ToSet(buffer') : t < u
         /\ buffer = <<>> => Tailed(b, buffer')
<1>1. b \o buffer \in Seq(Nat) /\ Len(b \o buffer) = Len(b) + Len(buffer) /\ Len(b) \in Nat /\ Len(buffer) \in Nat
      /\ \A i \in 1..Len(b) + Len(buffer) : (b \o buffer)[i] = IF i <= Len(b) THEN b[i] ELSE buffer[i - Len(b)]
  BY ConcatProperties, LenProperties
<1>2. BufferLimit \in Nat
  BY StorageAssumption
<1>3. CASE buffer' = buffer /\ (b = <<>> \/ ToSet(b) \subseteq table')
  <2>1. b = <<>> => ToSet(b) = {}
    BY DEF ToSet
  <2>2. buffer = <<>> => Tailed(b, buffer')
    BY <1>1, <1>3, EmptySeq DEF Tailed
  <2> QED BY <1>3, <2>1, <2>2
<1>4. CASE buffer' = PutBack(b)
  <2> DEFINE w == b \o buffer
  <2>1. buffer' \in Seq(Nat) /\ Tailed(w, buffer') /\ (buffer' = w \/ Len(buffer') = BufferLimit)
    BY <1>1, <1>2, <1>4, NewestIs DEF PutBack
  <2>2. buffer = <<>> => w = b
    BY ConcatEmptySeq
  <2>3. ASSUME NEW t \in ToSet(b) \cup ToSet(buffer)
        PROVE  \E i \in 1..Len(w) : t = w[i]
    <3>1. CASE t \in ToSet(b)
      <4>1. PICK i \in 1..Len(b) : t = b[i]
        BY <3>1, InSet
      <4> QED BY <1>1, <4>1
    <3>2. CASE t \in ToSet(buffer)
      <4>1. PICK i \in 1..Len(buffer) : t = buffer[i]
        BY <3>2, InSet
      <4>2. i + Len(b) \in 1..Len(w) /\ w[i + Len(b)] = buffer[i]
        BY <1>1, <4>1
      <4> QED BY <4>1, <4>2
    <3> QED BY <2>3, <3>1, <3>2
  <2> HIDE DEF w
  <2>4. ASSUME NEW t \in ToSet(b) \cup ToSet(buffer), t \notin ToSet(buffer')
        PROVE  Len(buffer') = BufferLimit /\ (buffer = <<>> /\ Sorted(b) => \A u \in ToSet(buffer') : t < u)
    <3>1. PICK i \in 1..Len(w) : t = w[i]
      BY <2>3
    <3>2. /\ \A k \in 1..Len(buffer') : buffer'[k] # t
          /\ Len(w) \in Nat /\ Len(buffer') \in Nat /\ w \in Seq(Nat)
      BY <1>1, <2>1, <2>4, InSet, LenProperties DEF w
    <3>3. buffer' # w
      BY <3>1, <3>2
    <3>4. ASSUME buffer = <<>>, Sorted(b), NEW u \in ToSet(buffer') PROVE t < u
      <4>1. PICK k \in 1..Len(buffer') : u = buffer'[k]
        BY <2>1, InSet
      <4>2. k + Len(w) - Len(buffer') \in 1..Len(w) /\ u = w[k + Len(w) - Len(buffer')]
        BY <2>1, <4>1 DEF Tailed
      <4>3. i <= Len(w) - Len(buffer')
        <5> SUFFICES ASSUME i > Len(w) - Len(buffer') PROVE FALSE
          BY <3>1, <3>2
        <5>1. i - Len(w) + Len(buffer') \in 1..Len(buffer')
          BY <3>1, <3>2
        <5>2. buffer'[i - Len(w) + Len(buffer')] = w[i]
          BY <2>1, <3>1, <3>2, <5>1 DEF Tailed
        <5> QED BY <3>1, <3>2, <5>1, <5>2
      <4>4. i < k + Len(w) - Len(buffer')
        BY <3>1, <3>2, <4>1, <4>3
      <4> QED BY <2>2, <3>1, <3>4, <4>2, <4>4 DEF Sorted
    <3> QED BY <2>1, <3>3, <3>4
  <2> QED BY <2>1, <2>2, <2>4
<1> QED BY <1>3, <1>4 DEF Insert
-----------------------------------------------------------------------------
(* The invariant.                                                          *)

\* A step of one thread changes what it has in hand and nothing else.
LEMMA Moves ==
  ASSUME TypesOk, NEW h \in Seq(Nat), NEW b \in Seq(Nat),
         NEW s \in {"idle", "restoring", "loaded", "draining", "filing", "due", "sending", "closing"}
  PROVE  /\ [at |-> s, hand |-> h, batch |-> b] \in RecorderType
         /\ recorder.hand \in Seq(Nat) /\ recorder.batch \in Seq(Nat) /\ stopper.batch \in Seq(Nat)
         /\ recorder = [at |-> recorder.at, hand |-> recorder.hand, batch |-> recorder.batch]
BY DEF TypesOk, RecorderType, StopperType

LEMMA Starts == RecordsInit => RecordsInv
<1> SUFFICES ASSUME Init PROVE RecordsInv
  BY DEF RecordsInit
<1>1. <<>> \in Seq(Nat)
  OBVIOUS
<1>2. Resting \in RecorderType /\ Resting \in StopperType
  BY <1>1 DEF Resting, RecorderType, StopperType
<1>3. TypesOk
  BY <1>1, <1>2 DEF Init, TypesOk
<1>4. HandsOk
  BY DEF Init, HandsOk, Resting
<1>5. OrderOk
  BY EmptySeq DEF Init, OrderOk, Resting, Sorted, Below, Older
<1>6. DownOk
  BY DEF Init, DownOk
<1> QED BY <1>3, <1>4, <1>5, <1>6 DEF RecordsInv

LEMMA LedgerMoves ==
  ASSUME RecordsInv, Open \/ (\E t \in live : Retire(t))
  PROVE  RecordsInv' /\ \A t \in Waiting \ Waiting' : FALSE
<1>1. TypesOk /\ HandsOk /\ queue \in Seq(Nat) /\ made \in Nat /\ live \subseteq 1..made
  BY DEF RecordsInv, TypesOk
<1>2. CASE Open
  <2>1. UNCHANGED <<process, queue, recorder, stopper, buffer, table>> /\ live = {}
        /\ made' = made + 1 /\ live' = {made + 1} /\ process # "down"
    BY <1>2 DEF Open
  <2>2. TypesOk'
    BY <1>1, <2>1 DEF TypesOk
  <2>3. HandsOk'
    BY <1>1, <2>1 DEF HandsOk
  <2>4. ASSUME process = "up" PROVE OrderOk'
    <3>1. OrderOk
      BY <2>4 DEF RecordsInv
    <3>2. /\ \A i \in 1..Len(queue) : queue[i] \in Nat /\ queue[i] <= made
          /\ \A i \in 1..Len(buffer) : buffer[i] \in Nat /\ buffer[i] <= made
          /\ \A i \in 1..Len(recorder.hand) : recorder.hand[i] \in Nat /\ recorder.hand[i] <= made
          /\ \A i \in 1..Len(recorder.batch) : recorder.batch[i] \in Nat /\ recorder.batch[i] <= made
      BY <1>1, <3>1, ElementOfSeq DEF OrderOk, TypesOk, RecorderType
    <3>3. Older(recorder.batch)' /\ Older(buffer)' /\ Older(recorder.hand)' /\ Older(queue)'
      <4>1. Older(recorder.batch)' /\ Older(buffer)'
        BY <1>1, <2>1, <3>2 DEF Older
      <4>2. Older(recorder.hand)' /\ Older(queue)'
        BY <1>1, <2>1, <3>2 DEF Older
      <4> QED BY <4>1, <4>2
    <3>4. \A a \in live', b \in live' : a = b
      BY <2>1
    <3>5. /\ \A i \in 1..Len(queue) : queue[i] <= made'
          /\ \A i \in 1..Len(buffer) : buffer[i] <= made'
      BY <1>1, <2>1, <3>2
    <3>6. /\ \A i \in 1..Len(recorder.hand) : recorder.hand[i] <= made'
          /\ \A i \in 1..Len(recorder.batch) : recorder.batch[i] <= made'
      BY <1>1, <2>1, <3>2
    <3> QED BY <2>1, <3>1, <3>3, <3>4, <3>5, <3>6 DEF OrderOk, Sorted, Below
  <2> QED BY <2>1, <2>2, <2>3, <2>4 DEF RecordsInv, DownOk, Waiting
<1>3. ASSUME NEW t \in live, Retire(t) PROVE RecordsInv' /\ \A u \in Waiting \ Waiting' : FALSE
  <2>1. UNCHANGED <<process, made, recorder, stopper, buffer, table>>
        /\ live' = live \ {t} /\ queue' = Append(queue, t) /\ process # "down"
    BY <1>3 DEF Retire
  <2>2. t \in Nat /\ t <= made
    BY <1>1
  <2>3. /\ queue' \in Seq(Nat) /\ Len(queue') = Len(queue) + 1 /\ Len(queue) \in Nat
        /\ queue'[Len(queue) + 1] = t /\ \A i \in 1..Len(queue) : queue'[i] = queue[i]
    BY <1>1, <2>1, <2>2, AppendProperties, LenProperties
  <2>4. TypesOk'
    BY <1>1, <2>1, <2>3 DEF TypesOk
  <2>5. HandsOk'
    BY <1>1, <2>1 DEF HandsOk
  <2>6. ASSUME process = "up" PROVE OrderOk'
    <3>1. OrderOk
      BY <2>6 DEF RecordsInv
    <3>2. Sorted(queue)'
      <4>1. Sorted(queue) /\ \A i \in 1..Len(queue) : queue[i] < t
        BY <3>1 DEF OrderOk, Older
      <4>2. ASSUME NEW i \in 1..Len(queue'), NEW j \in 1..Len(queue'), i < j PROVE queue'[i] < queue'[j]
        <5>1. i \in 1..Len(queue) /\ queue'[i] = queue[i]
          BY <2>3, <4>2
        <5>2. CASE j = Len(queue) + 1
          BY <2>3, <4>1, <5>1, <5>2
        <5>3. CASE j \in 1..Len(queue)
          BY <2>3, <4>1, <4>2, <5>1, <5>3 DEF Sorted
        <5> QED BY <2>3, <5>2, <5>3
      <4> QED BY <4>2 DEF Sorted
    <3>3. Below(recorder.batch, queue)' /\ Below(buffer, queue)' /\ Below(recorder.hand, queue)'
      BY <2>1, <2>3, <3>1 DEF OrderOk, Below, Older
    <3>4. Older(recorder.batch)' /\ Older(buffer)' /\ Older(recorder.hand)' /\ Older(queue)'
          /\ \A a \in live', b \in live' : a = b
      BY <2>1, <3>1 DEF OrderOk, Older
    <3>5. \A i \in 1..Len(queue') : queue'[i] <= made
      BY <2>2, <2>3, <3>1 DEF OrderOk
    <3> QED BY <2>1, <3>1, <3>2, <3>3, <3>4, <3>5 DEF OrderOk, Sorted, Below
  <2>7. ToSet(queue) \subseteq ToSet(queue')
    <3> SUFFICES ASSUME NEW u \in ToSet(queue) PROVE u \in ToSet(queue')
      OBVIOUS
    <3>1. PICK i \in 1..Len(queue) : u = queue[i]
      BY <1>1, InSet
    <3>2. i \in 1..Len(queue') /\ queue'[i] = u
      BY <2>3, <3>1
    <3> QED BY <2>3, <3>2, InSet
  <2> QED BY <2>1, <2>4, <2>5, <2>6, <2>7, WaitingIs DEF RecordsInv, DownOk, Waiting
<1> QED BY <1>2, <1>3

\* The recorder between two requests.
LEMMA RecorderMoves ==
  ASSUME RecordsInv, Sweep \/ Load \/ Restore \/ Drain \/ File \/ Take
  PROVE  RecordsInv' /\ \A t \in Waiting \ Waiting' : FALSE
<1>1. /\ TypesOk /\ HandsOk /\ queue \in Seq(Nat) /\ buffer \in Seq(Nat)
      /\ recorder.hand \in Seq(Nat) /\ recorder.batch \in Seq(Nat) /\ <<>> \in Seq(Nat)
      /\ recorder.at \in {"idle", "restoring", "loaded", "draining", "filing", "due", "sending", "closing"}
      /\ recorder \in RecorderType
  BY DEF RecordsInv, TypesOk, RecorderType
<1>2. UNCHANGED <<process, made, live, stopper, table>> /\ process # "down"
  <2>1. UNCHANGED <<process, made, live, stopper, table>>
    BY DEF Sweep, Load, Restore, Drain, File, Take, ledgerVars
  <2>2. process = "up" \/ recorder.at # "idle"
    BY DEF Sweep, Load, Restore, Drain, File, Take
  <2>3. process = "down" => recorder.at = "idle"
    BY DEF RecordsInv, DownOk, Resting
  <2> QED BY <2>1, <2>2, <2>3
<1>3. ASSUME NEW s \in {"idle", "restoring", "loaded", "draining"},
             recorder.at \in {"idle", "restoring", "loaded"},
             recorder' = [recorder EXCEPT !.at = s], UNCHANGED <<queue, buffer>>
      PROVE  RecordsInv' /\ \A t \in Waiting \ Waiting' : FALSE
  <2>1. recorder' \in RecorderType /\ recorder'.at = s /\ recorder'.hand = recorder.hand
        /\ recorder'.batch = recorder.batch
    BY <1>1, <1>3 DEF RecorderType
  <2>2. TypesOk' /\ HandsOk'
    BY <1>1, <1>2, <1>3, <2>1 DEF TypesOk, HandsOk
  <2>3. OrderOk => OrderOk'
    BY <1>2, <1>3, <2>1 DEF OrderOk, Sorted, Below, Older
  <2> QED BY <1>2, <1>3, <2>1, <2>2, <2>3 DEF RecordsInv, DownOk, Waiting
<1>4. CASE Sweep \/ Load \/ Restore
  BY <1>3, <1>4 DEF Sweep, Load, Restore, ledgerVars
<1>5. CASE Drain
  <2>1. /\ recorder.at = "draining" /\ recorder' = [recorder EXCEPT !.at = "filing", !.hand = queue]
        /\ queue' = <<>> /\ buffer' = buffer /\ recorder.hand = <<>> /\ recorder.batch = <<>>
    BY <1>1, <1>5 DEF Drain, HandsOk
  <2>2. recorder' \in RecorderType /\ recorder'.at = "filing" /\ recorder'.hand = queue
        /\ recorder'.batch = <<>>
    BY <1>1, <2>1 DEF RecorderType
  <2>3. TypesOk' /\ HandsOk'
    BY <1>1, <1>2, <2>1, <2>2 DEF TypesOk, HandsOk
  <2>4. OrderOk => OrderOk'
    <3>1. Len(queue') = 0 /\ Len(recorder'.batch) = 0
      BY <2>1, <2>2, EmptySeq
    <3> QED BY <1>2, <2>1, <2>2, <3>1 DEF OrderOk, Sorted, Below, Older
  <2>5. ToSet(recorder.hand) = {} /\ ToSet(recorder'.hand) = ToSet(queue)
    BY <2>1, <2>2 DEF ToSet
  <2>6. \A t \in Waiting : t \in Waiting'
    BY <1>2, <2>1, <2>2, <2>5 DEF Waiting
  <2> QED BY <1>2, <2>3, <2>4, <2>6 DEF RecordsInv, DownOk
<1>6. CASE File
  <2>1. /\ recorder.at = "filing" /\ recorder.hand # <<>> /\ queue' = queue /\ recorder.batch = <<>>
        /\ buffer' = Append(buffer, Head(recorder.hand))
    BY <1>1, <1>6 DEF File, HandsOk, ledgerVars
  <2>2. PICK s \in {"due", "filing"} : recorder' = [recorder EXCEPT !.at = s, !.hand = Tail(@)]
    BY <1>6 DEF File
  <2>3. PICK r : r = Tail(recorder.hand)
    OBVIOUS
  <2>4. /\ buffer' \in Seq(Nat) /\ r \in Seq(Nat) /\ 1 \in 1..Len(recorder.hand)
        /\ \A i \in 1..Len(buffer') : IsFiled(i, buffer', buffer, recorder.hand)
        /\ \A i \in 1..Len(r) : i + 1 \in 1..Len(recorder.hand) /\ r[i] = recorder.hand[i + 1]
        /\ ToSet(buffer) \cup ToSet(recorder.hand) \subseteq ToSet(buffer') \cup ToSet(r)
    BY <1>1, <2>1, <2>3, Filed
  <2>5. recorder' \in RecorderType /\ recorder'.at = s /\ recorder'.hand = r /\ recorder'.batch = <<>>
    BY <1>1, <2>1, <2>2, <2>3, <2>4 DEF RecorderType
  <2>6. TypesOk' /\ HandsOk'
    <3>1. TypesOk'
      BY <1>1, <1>2, <2>1, <2>4, <2>5 DEF TypesOk
    <3>2. recorder'.at \in {"due", "filing"}
      BY <2>2, <2>5
    <3> QED BY <1>1, <1>2, <2>5, <3>1, <3>2 DEF HandsOk
  <2>7. ASSUME OrderOk PROVE OrderOk'
    <3>1. Sorted(buffer') /\ Sorted(r) /\ Below(buffer', r)
      <4>1. Sorted(buffer) /\ Sorted(recorder.hand) /\ Below(buffer, recorder.hand)
        BY <2>7 DEF OrderOk
      <4> QED BY <1>1, <2>4, <4>1, FiledInOrder
    <3>2. Below(buffer', queue) /\ Below(r, queue)
      <4>1. ASSUME NEW j \in 1..Len(queue) PROVE recorder.hand[1] < queue[j]
        BY <2>4, <2>7 DEF OrderOk, Below
      <4> QED BY <2>4, <2>7, <4>1 DEF IsFiled, OrderOk, Below
    <3>3. Older(buffer') /\ Older(r)
      <4>1. ASSUME NEW t \in live PROVE recorder.hand[1] < t
        BY <2>4, <2>7 DEF OrderOk, Older
      <4> QED BY <2>4, <2>7, <4>1 DEF IsFiled, OrderOk, Older
    <3>4. /\ \A i \in 1..Len(buffer') : buffer'[i] <= made
          /\ \A i \in 1..Len(r) : r[i] <= made
      <4>1. recorder.hand[1] <= made
        BY <2>4, <2>7 DEF OrderOk
      <4> QED BY <2>4, <2>7, <4>1 DEF IsFiled, OrderOk
    <3>5. Sorted(<<>>) /\ Below(<<>>, r) /\ Below(<<>>, queue) /\ Older(<<>>)
          /\ \A i \in 1..Len(<<>>) : <<>>[i] <= made
      BY EmptySeq DEF Sorted, Below, Older
    <3>6. recorder'.at \notin {"sending", "closing"}
      BY <2>2, <2>5
    <3>7. Older(buffer)' /\ Older(recorder.hand)' /\ Older(recorder.batch)' /\ Older(queue)'
      BY <1>2, <2>1, <2>5, <2>7, <3>3, <3>5 DEF OrderOk, Older
    <3> QED BY <1>2, <2>1, <2>5, <2>7, <3>1, <3>2, <3>4, <3>5, <3>6, <3>7 DEF OrderOk, Sorted, Below
  <2>8. ToSet(recorder.batch) = {}
    BY <2>1 DEF ToSet
  <2>9. \A t \in Waiting : t \in Waiting'
    BY <1>2, <2>1, <2>4, <2>5, <2>8 DEF Waiting
  <2> QED BY <1>2, <2>6, <2>7, <2>9 DEF RecordsInv, DownOk
<1>7. CASE Take
  <2>1. PICK s \in {"sending", "closing"} : recorder' = [recorder EXCEPT !.at = s, !.batch = buffer]
    BY <1>7 DEF Take
  <2>2. /\ recorder.at \in {"due", "filing"} /\ (s = "closing" => recorder.hand = <<>>)
        /\ queue' = queue /\ buffer' = <<>> /\ recorder.batch = <<>>
    BY <1>1, <1>7, <2>1 DEF Take, HandsOk, ledgerVars, RecorderType
  <2>3. recorder' \in RecorderType /\ recorder'.at = s /\ recorder'.hand = recorder.hand
        /\ recorder'.batch = buffer
    BY <1>1, <2>1 DEF RecorderType
  <2>4. TypesOk' /\ HandsOk'
    <3>1. TypesOk'
      BY <1>1, <1>2, <2>2, <2>3 DEF TypesOk
    <3>2. /\ recorder'.at \in {"sending", "closing"}
          /\ recorder'.at = "closing" => recorder'.hand = <<>>
      BY <2>1, <2>2, <2>3
    <3> QED BY <1>1, <1>2, <2>3, <3>1, <3>2 DEF HandsOk
  <2>5. OrderOk => OrderOk'
    <3>1. Len(buffer') = 0
      BY <2>2, EmptySeq
    <3> QED BY <1>2, <2>2, <2>3, <3>1 DEF OrderOk, Sorted, Below, Older
  <2>6. ToSet(recorder.batch) = {} /\ ToSet(recorder'.batch) = ToSet(buffer)
    BY <2>2, <2>3 DEF ToSet
  <2>7. \A t \in Waiting : t \in Waiting'
    BY <1>2, <2>2, <2>3, <2>6 DEF Waiting
  <2> QED BY <1>2, <2>4, <2>5, <2>7 DEF RecordsInv, DownOk
<1> QED BY <1>4, <1>5, <1>6, <1>7

\* What may become of a terminal trade.
Lost(t) ==
    \/ t \in table' \/ process' = "down"
    \/ /\ Len(buffer') = BufferLimit
       /\ process = "up" => \A u \in ToSet(buffer') : t < u

\* The recorder's answer.
LEMMA SendMoves ==
  ASSUME RecordsInv, Send
  PROVE  RecordsInv' /\ \A t \in Waiting \ Waiting' : Lost(t)
<1>1. /\ TypesOk /\ HandsOk /\ queue \in Seq(Nat) /\ buffer \in Seq(Nat)
      /\ recorder.hand \in Seq(Nat) /\ recorder.batch \in Seq(Nat) /\ <<>> \in Seq(Nat)
      /\ recorder \in RecorderType /\ recorder.at \in {"sending", "closing"}
  BY DEF RecordsInv, TypesOk, RecorderType, Send
<1>2. UNCHANGED <<process, made, live, queue, stopper>> /\ process # "down"
  BY DEF RecordsInv, DownOk, Resting, Send, ledgerVars
<1>3. PICK s \in {"idle", "filing"} :
         /\ recorder' = [recorder EXCEPT !.at = s, !.batch = <<>>]
         /\ s = "idle" => recorder.at = "closing"
  BY DEF Send
<1>4. recorder' \in RecorderType /\ recorder'.at = s /\ recorder'.hand = recorder.hand
      /\ recorder'.batch = <<>>
  BY <1>1, <1>3 DEF RecorderType
<1>5. PICK b : b = recorder.batch
  OBVIOUS
<1>6. IF b = <<>> THEN UNCHANGED <<table, buffer>> ELSE Insert(b)
  BY <1>5 DEF Send
<1>7. /\ buffer' \in Seq(Nat)
      /\ \A t \in ToSet(b) \cup ToSet(buffer) :
            \/ t \in table' \/ t \in ToSet(buffer')
            \/ /\ Len(buffer') = BufferLimit
               /\ buffer = <<>> /\ Sorted(b) => \A u \in ToSet(buffer') : t < u
      /\ buffer = <<>> => Tailed(b, buffer')
  BY <1>1, <1>5, <1>6, Inserted
<1>8. TypesOk'
  BY <1>1, <1>2, <1>4, <1>7 DEF TypesOk
<1>9. HandsOk'
  <2>1. s = "idle" => recorder'.hand = <<>>
    BY <1>1, <1>3, <1>4 DEF HandsOk
  <2> QED BY <1>1, <1>2, <1>3, <1>4, <2>1 DEF HandsOk
<1>10. ASSUME process = "up" PROVE buffer = <<>> /\ Sorted(b) /\ OrderOk'
  <2>1. OrderOk /\ buffer = <<>> /\ Sorted(b)
    BY <1>1, <1>5, <1>10 DEF RecordsInv, OrderOk
  <2>2. \A i \in 1..Len(buffer') : i + Len(b) - Len(buffer') \in 1..Len(b)
                                  /\ buffer'[i] = b[i + Len(b) - Len(buffer')]
    BY <1>7, <2>1 DEF Tailed
  <2>3. Len(b) \in Nat /\ Len(buffer') \in Nat
    BY <1>1, <1>5, <1>7, LenProperties
  <2>4. ASSUME NEW i \in 1..Len(buffer'), NEW j \in 1..Len(buffer'), i < j PROVE buffer'[i] < buffer'[j]
    <3>1. i + Len(b) - Len(buffer') < j + Len(b) - Len(buffer')
      BY <2>3, <2>4
    <3>2. b[i + Len(b) - Len(buffer')] < b[j + Len(b) - Len(buffer')]
      BY <2>1, <2>2, <3>1 DEF Sorted
    <3> QED BY <2>2, <3>2
  <2>5. Sorted(buffer')
    BY <2>4 DEF Sorted
  <2>6. Below(b, recorder.hand) /\ Below(b, queue) /\ Older(b) /\ \A i \in 1..Len(b) : b[i] <= made
    BY <1>5, <2>1 DEF OrderOk
  <2>7. Below(buffer', recorder.hand) /\ Below(buffer', queue) /\ Older(buffer')
        /\ \A i \in 1..Len(buffer') : buffer'[i] <= made
    BY <2>2, <2>6 DEF Below, Older
  <2>8. Older(buffer)' /\ Older(recorder.hand)' /\ Older(recorder.batch)' /\ Older(queue)'
    BY <1>2, <1>4, <2>1, <2>7, EmptySeq DEF OrderOk, Older
  <2>9. Len(recorder'.batch) = 0
    BY <1>4, EmptySeq
  <2> QED BY <1>2, <1>3, <1>4, <2>1, <2>5, <2>7, <2>8, <2>9 DEF OrderOk, Sorted, Below
<1>11. ASSUME NEW t \in Waiting \ Waiting' PROVE Lost(t)
  <2>1. t \in ToSet(b) \cup ToSet(buffer) /\ t \notin ToSet(buffer')
    BY <1>2, <1>4, <1>5 DEF Waiting
  <2>2. CASE t \in table'
    BY <2>2 DEF Lost
  <2>3. CASE t \notin table'
    BY <1>7, <1>10, <2>1, <2>3 DEF Lost
  <2> QED BY <2>2, <2>3
<1> QED BY <1>2, <1>8, <1>9, <1>10, <1>11 DEF RecordsInv, DownOk

\* A process that stops, ends and starts again.
LEMMA ProcessMoves ==
  ASSUME RecordsInv, Stop \/ StopSend \/ Die \/ Start
  PROVE  RecordsInv' /\ \A t \in Waiting \ Waiting' : Lost(t)
<1>1. /\ TypesOk /\ HandsOk /\ DownOk /\ queue \in Seq(Nat) /\ buffer \in Seq(Nat)
      /\ stopper \in StopperType /\ stopper.batch \in Seq(Nat) /\ <<>> \in Seq(Nat)
      /\ process \in {"up", "stopping", "down"}
  BY DEF RecordsInv, TypesOk, StopperType
<1>2. CASE Stop
  <2>1. /\ process = "up" /\ process' = "stopping" /\ buffer' = <<>>
        /\ UNCHANGED <<made, live, queue, recorder, table>>
        /\ stopper' = [stopper EXCEPT !.at = "sending", !.batch = buffer]
        /\ stopper.batch = <<>>
    BY <1>1, <1>2 DEF Stop, ledgerVars, HandsOk, Resting
  <2>2. stopper' \in StopperType /\ stopper'.at = "sending" /\ stopper'.batch = buffer
    BY <1>1, <2>1 DEF StopperType
  <2>3. TypesOk' /\ HandsOk' /\ DownOk'
    BY <1>1, <2>1, <2>2 DEF TypesOk, HandsOk, DownOk
  <2>4. ToSet(stopper.batch) = {} /\ ToSet(stopper'.batch) = ToSet(buffer)
    BY <2>1, <2>2 DEF ToSet
  <2>5. \A t \in Waiting : t \in Waiting'
    BY <2>1, <2>4 DEF Waiting
  <2> QED BY <2>1, <2>3, <2>5 DEF RecordsInv
<1>3. CASE StopSend
  <2>1. /\ stopper.at = "sending" /\ process = "stopping"
        /\ UNCHANGED <<process, made, live, queue, recorder>>
        /\ stopper' = [stopper EXCEPT !.at = "done", !.batch = <<>>]
    BY <1>1, <1>3 DEF StopSend, ledgerVars, HandsOk
  <2>2. PICK b : b = stopper.batch
    OBVIOUS
  <2>3. IF b = <<>> THEN UNCHANGED <<table, buffer>> ELSE Insert(b)
    BY <1>3, <2>2 DEF StopSend
  <2>4. /\ buffer' \in Seq(Nat)
        /\ \A t \in ToSet(b) \cup ToSet(buffer) :
              \/ t \in table' \/ t \in ToSet(buffer') \/ Len(buffer') = BufferLimit
    BY <1>1, <2>2, <2>3, Inserted
  <2>5. stopper' \in StopperType /\ stopper'.at = "done" /\ stopper'.batch = <<>>
    BY <1>1, <2>1 DEF StopperType
  <2>6. TypesOk' /\ HandsOk' /\ DownOk'
    BY <1>1, <2>1, <2>4, <2>5 DEF TypesOk, HandsOk, DownOk
  <2>7. ASSUME NEW t \in Waiting \ Waiting' PROVE Lost(t)
    <3>1. t \in ToSet(b) \cup ToSet(buffer) /\ t \notin ToSet(buffer')
      BY <2>1, <2>2, <2>5 DEF Waiting
    <3> QED BY <2>1, <2>4, <3>1 DEF Lost
  <2> QED BY <2>1, <2>6, <2>7 DEF RecordsInv
<1>4. CASE Die
  <2>1. /\ process' = "down" /\ live' = {} /\ queue' = <<>> /\ buffer' = <<>> /\ made' = made
        /\ recorder' = Resting /\ stopper' = Resting
    BY <1>4 DEF Die
  <2>2. Resting \in RecorderType /\ Resting \in StopperType
    BY <1>1 DEF Resting, RecorderType, StopperType
  <2>3. TypesOk' /\ DownOk'
    BY <1>1, <2>1, <2>2 DEF TypesOk, DownOk
  <2>4. HandsOk'
    BY <2>1 DEF HandsOk, Resting
  <2> QED BY <2>1, <2>3, <2>4 DEF RecordsInv, Lost
<1>5. CASE Start
  <2>1. /\ process = "down" /\ process' = "up"
        /\ UNCHANGED <<made, live, queue, recorder, stopper, buffer, table>>
        /\ recorder = Resting /\ stopper = Resting /\ buffer = <<>> /\ queue = <<>> /\ live = {}
    BY <1>1, <1>5 DEF Start, ledgerVars, DownOk
  <2>2. TypesOk' /\ HandsOk' /\ DownOk'
    BY <1>1, <2>1 DEF TypesOk, HandsOk, DownOk, Resting
  <2>3. OrderOk'
    BY <2>1, EmptySeq DEF OrderOk, Resting, Sorted, Below, Older
  <2>4. \A t \in Waiting : t \in Waiting'
    BY <2>1 DEF Waiting
  <2> QED BY <2>2, <2>3, <2>4 DEF RecordsInv
<1> QED BY <1>2, <1>3, <1>4, <1>5

\* The write buffer loses no terminal trade but the oldest ones, and those only
\* when it overflows or with the process (Storage.record, flush and insert;
\* VirtualLedger.drain_persist; LeadEngine.stop): LossIsBounded, for any number
\* of trades and any limits.
THEOREM LossBounded == RecordsSpec => LossIsBounded
<1> DEFINE Kept == \A t \in Waiting \ Waiting' : Lost(t)
<1>1. RecordsInv /\ [RecordsNext]_<<part, vars, paperVars>> => RecordsInv' /\ [Kept]_vars
  <2> SUFFICES ASSUME RecordsInv, [RecordsNext]_<<part, vars, paperVars>>
               PROVE  RecordsInv' /\ [Kept]_vars
    OBVIOUS
  <2>1. CASE UNCHANGED vars
    <3>1. UNCHANGED <<process, made, live, queue, buffer, recorder, stopper, table>>
      BY <2>1 DEF vars, ledgerVars
    <3>2. TypesOk' = TypesOk /\ HandsOk' = HandsOk /\ DownOk' = DownOk
      BY <3>1 DEF TypesOk, HandsOk, DownOk
    <3>3. OrderOk' = OrderOk
      BY <3>1 DEF OrderOk, Sorted, Below, Older
    <3> QED BY <2>1, <3>1, <3>2, <3>3 DEF RecordsInv
  <2>2. CASE Next
    <3>1. CASE Open \/ \E t \in live : Retire(t)
      BY <3>1, LedgerMoves
    <3>2. CASE Sweep \/ Load \/ Restore \/ Drain \/ File \/ Take
      BY <3>2, RecorderMoves
    <3>3. CASE Send
      BY <3>3, SendMoves
    <3>4. CASE Stop \/ StopSend \/ Die \/ Start
      BY <3>4, ProcessMoves
    <3> QED BY <2>2, <3>1, <3>2, <3>3, <3>4 DEF Next, RecorderStep
  <2> QED BY <2>1, <2>2 DEF RecordsNext
<1>2. RecordsInit => RecordsInv
  BY Starts
<1>3. Kept => (\A t \in Waiting \ Waiting' :
                  \/ t \in table' \/ process' = "down"
                  \/ /\ Len(buffer') = BufferLimit
                     /\ process = "up" => \A u \in ToSet(buffer') : t < u)
  BY DEF Lost
<1> HIDE DEF Kept
<1> QED BY <1>1, <1>2, <1>3, PTL DEF RecordsSpec, LossIsBounded
-----------------------------------------------------------------------------
(* The journal of the paper traders.                                       *)

RowType == [owner : Traders, boot : Nat, session : Nat, n : Nat]
TraderStates == {"STOPPED", "RECOVERING", "STORAGE_DEGRADED", "FEED_STALE", "RUNNING"}
TraderType ==
    [state : TraderStates, session : Nat, journal : Seq(RowType), persisted : SUBSET RowType,
     firstAt : Nat, failures : Nat]
PaperTypes ==
    /\ now \in Nat /\ boot \in Nat /\ trader \in [Traders -> TraderType]
    /\ paperTable \in Seq(RowType) /\ closed \in Seq(RowType)

\* Nothing in a set goes by the key of something else in it.
KeysTell(R) == \A r, q \in R : Paper!SameKey(r, q) => r = q

\* The trades of this process under a trader's name are numbered from 1 and carry
\* its session.  Others may carry it too: a session is no more than a second.
OwnOk(tr) ==
    /\ ~Paper!Up(tr) => Paper!OwnTrades(tr) = {}
    /\ \A r \in Paper!OwnTrades(tr) :
           r.session = trader[tr].session /\ r.n <= Cardinality(Paper!OwnTrades(tr))
BootsOk == \A r \in Range(closed) : r.boot <= boot

\* What is in a journal is there once and was closed, by its trader unless storage
\* told of it; what storage told of is there, or another run's trade in its place.
JournalOk(tr) ==
    /\ Once(trader[tr].journal) /\ Range(trader[tr].journal) \subseteq Range(closed)
    /\ Range(trader[tr].journal) \subseteq trader[tr].persisted \cup Paper!OwnTrades(tr)
    /\ \A r \in trader[tr].persisted : Paper!Written(r)
TableOk ==
    Once(paperTable) /\ KeysTell(Range(paperTable)) /\ Range(paperTable) \subseteq Range(closed)

PaperInv ==
    /\ PaperTypes /\ BootsOk /\ TableOk
    /\ \A tr \in Traders : OwnOk(tr) /\ JournalOk(tr)
-----------------------------------------------------------------------------
(* What the actions do to the lists.                                       *)

\* The operators of the paper traders' own module are those of this one.
LEMMA SameOperators ==
  /\ \A s : Paper!Range(s) = Range(s)
  /\ \A T : Paper!Cardinality(T) = Cardinality(T)
  /\ \A s, P : Paper!Picked(s, P) = Picked(s, P)
<1>1. \A s : Paper!Range(s) = Range(s)
  BY DEF Paper!Range, Range
<1>2. \A T : Paper!Cardinality(T) = Cardinality(T)
  BY DEF Paper!Cardinality, Cardinality
<1>3. \A s, P : Paper!Picked(s, P) = Picked(s, P)
  <2> TAKE s, P
  <2>1. \A k, i : Paper!Cardinality({j \in P : j <= i}) = k <=> Cardinality({j \in P : j <= i}) = k
    BY <1>2
  <2>2. \A k : Paper!Nth(P, k) = Nth(P, k)
    BY <2>1, Zenon DEF Paper!Nth, Nth
  <2>3. Paper!Cardinality(P) = Cardinality(P)
    BY <1>2
  <2> QED BY <2>2, <2>3 DEF Paper!Picked, Picked
<1> QED BY <1>1, <1>2, <1>3

\* An upsert leaves the new rows, and of the old ones those whose keys are not among
\* theirs; what stood under such a key has its row replaced.
LEMMA UpsertReplaces ==
  ASSUME NEW C, NEW rows \in Seq(C), NEW new \in Seq(C), Once(rows), Once(new),
         KeysTell(Range(rows)), KeysTell(Range(new))
  PROVE  /\ Paper!Upserted(rows, new) \in Seq(C) /\ Once(Paper!Upserted(rows, new))
         /\ KeysTell(Range(Paper!Upserted(rows, new)))
         /\ Range(Paper!Upserted(rows, new)) \subseteq Range(rows) \cup Range(new)
         /\ Range(new) \subseteq Range(Paper!Upserted(rows, new))
         /\ \A r \in Range(rows) :
                \E q \in Range(Paper!Upserted(rows, new)) : Paper!SameKey(r, q)
<1> DEFINE Key(r, q) == Paper!SameKey(r, q)
           P == {i \in DOMAIN new : ~\E q \in Range(rows) : Key(new[i], q)}
           Heir(i) == CHOOSE r \in Range(new) : Key(r, rows[i])
           kept == [i \in DOMAIN rows |->
                       IF \E r \in Range(new) : Key(r, rows[i]) THEN Heir(i) ELSE rows[i]]
           added == Picked(new, P)
<1>1. /\ Range(rows) \subseteq C /\ Range(new) \subseteq C
      /\ DOMAIN rows = 1..Len(rows) /\ Len(rows) \in Nat
      /\ \A i \in DOMAIN rows : rows[i] \in Range(rows)
      /\ \A i \in DOMAIN new : new[i] \in Range(new)
      /\ \A x \in Range(rows) : \E i \in DOMAIN rows : x = rows[i]
      /\ \A x \in Range(new) : \E i \in DOMAIN new : x = new[i]
  BY RangeIs
<1>2. Paper!Upserted(rows, new) = kept \o added
  <2>1. Paper!Range(new) = Range(new) /\ Paper!Range(rows) = Range(rows)
        /\ Paper!Picked(new, P) = Picked(new, P)
    BY SameOperators
  <2>2. \A i \in DOMAIN rows : (CHOOSE r \in Paper!Range(new) : Key(r, rows[i])) = Heir(i)
    BY <2>1
  <2> HIDE DEF Heir
  <2>3. kept = [i \in DOMAIN rows |->
                   IF \E r \in Paper!Range(new) : Key(r, rows[i])
                   THEN CHOOSE r \in Paper!Range(new) : Key(r, rows[i]) ELSE rows[i]]
    BY <2>1, <2>2
  <2>4. P = {i \in DOMAIN new : ~\E q \in Paper!Range(rows) : Key(new[i], q)}
    BY <2>1
  <2> HIDE DEF P, kept
  <2> QED BY <2>1, <2>3, <2>4, Zenon DEF Paper!Upserted
<1>3. \A r, q, v : /\ Key(r, r) /\ (Key(r, q) => Key(q, r))
                   /\ Key(r, q) /\ Key(q, v) => Key(r, v)
  BY DEF Paper!SameKey
<1>4. \A i \in DOMAIN rows :
          /\ Key(kept[i], rows[i]) /\ kept[i] \in C
          /\ kept[i] \in Range(new) \/ kept[i] = rows[i]
          /\ (\E r \in Range(new) : Key(r, rows[i])) => kept[i] \in Range(new)
  <2> SUFFICES ASSUME NEW i \in DOMAIN rows
               PROVE  /\ Key(kept[i], rows[i]) /\ kept[i] \in C
                      /\ kept[i] \in Range(new) \/ kept[i] = rows[i]
                      /\ (\E r \in Range(new) : Key(r, rows[i])) => kept[i] \in Range(new)
    OBVIOUS
  <2>1. CASE \E r \in Range(new) : Key(r, rows[i])
    <3>1. Heir(i) \in Range(new) /\ Key(Heir(i), rows[i])
      BY <2>1
    <3>2. kept[i] = Heir(i)
      BY <2>1
    <3> HIDE DEF Heir, kept, Key
    <3> QED BY <1>1, <3>1, <3>2
  <2>2. CASE ~\E r \in Range(new) : Key(r, rows[i])
    <3>1. kept[i] = rows[i]
      BY <2>2
    <3> HIDE DEF kept, Key
    <3> QED BY <1>1, <1>3, <2>2, <3>1
  <2> QED BY <2>1, <2>2
<1>5. DOMAIN kept = DOMAIN rows
  OBVIOUS
<1>6. /\ added \in Seq(C) /\ Once(added) /\ \A i \in P : new[i] \in Range(added)
      /\ \A x \in Range(added) : \E i \in P : x = new[i]
  BY PickedOnce
<1>7. \A i \in DOMAIN new : i \in P <=> ~\E q \in Range(rows) : Key(new[i], q)
  OBVIOUS
<1>8. P \subseteq DOMAIN new
  OBVIOUS
<1>9. /\ \A i, j \in DOMAIN rows : Key(rows[i], rows[j]) => i = j
      /\ \A x, y \in Range(new) : Key(x, y) => x = y
  BY <1>1 DEF KeysTell, Once
<1>10. kept \in Seq(C)
  <2>1. kept \in [1..Len(rows) -> C]
    <3> HIDE DEF Heir
    <3>1. kept = [i \in 1..Len(rows) |-> kept[i]]
      BY <1>1
    <3> HIDE DEF kept
    <3> QED BY <1>1, <1>4, <3>1
  <2> HIDE DEF kept
  <2> QED BY <1>1, <2>1
<1> HIDE DEF kept, added, P, Key
<1>11. Once(kept)
  <2>1. ASSUME NEW i \in DOMAIN rows, NEW j \in DOMAIN rows, kept[i] = kept[j]
        PROVE  i = j
    <3>1. Key(kept[i], rows[i]) /\ Key(kept[i], rows[j])
      BY <1>4, <2>1
    <3>2. Key(rows[i], rows[j])
      BY <1>3, <3>1
    <3> QED BY <1>9, <3>2
  <2> QED BY <1>5, <2>1 DEF Once
<1>12. /\ \A i \in DOMAIN rows : kept[i] \in Range(kept)
       /\ \A x \in Range(kept) : \E i \in DOMAIN rows : x = kept[i]
  BY <1>5, <1>10, RangeIs
<1>13. \A x \in Range(kept), y \in Range(added) : ~Key(x, y)
  <2> SUFFICES ASSUME NEW x \in Range(kept), NEW y \in Range(added), Key(x, y)
               PROVE  FALSE
    OBVIOUS
  <2>1. PICK i \in DOMAIN rows : x = kept[i]
    BY <1>12
  <2>2. PICK j \in P : y = new[j]
    BY <1>6
  <2>3. Key(new[j], rows[i])
    BY <1>3, <1>4, <2>1, <2>2
  <2> QED BY <1>1, <1>7, <1>8, <2>2, <2>3
<1>14. /\ kept \o added \in Seq(C) /\ Once(kept \o added)
       /\ Range(kept \o added) = Range(kept) \cup Range(added)
  <2>1. Range(kept) \cap Range(added) = {}
    BY <1>3, <1>13
  <2> QED BY <1>6, <1>10, <1>11, <2>1, JoinedOnce
<1> DEFINE all == Range(kept) \cup Range(added)
<1>15. KeysTell(all)
  <2> SUFFICES ASSUME NEW x \in all, NEW y \in all, Key(x, y)
               PROVE  x = y
    BY DEF KeysTell, Key
  <2>1. CASE x \in Range(kept) /\ y \in Range(kept)
    <3>1. PICK i \in DOMAIN rows : x = kept[i]
      BY <1>12, <2>1
    <3>2. PICK j \in DOMAIN rows : y = kept[j]
      BY <1>12, <2>1
    <3>3. Key(kept[i], rows[i]) /\ Key(kept[j], rows[j]) /\ Key(kept[i], kept[j])
      BY <1>4, <3>1, <3>2
    <3>4. Key(rows[i], kept[j])
      BY <1>3, <3>3
    <3>5. Key(rows[i], rows[j])
      BY <1>3, <3>3, <3>4
    <3> QED BY <1>9, <3>1, <3>2, <3>5
  <2>2. CASE x \in Range(added) /\ y \in Range(added)
    <3>1. x \in Range(new) /\ y \in Range(new)
      BY <1>1, <1>6, <1>8, <2>2
    <3> QED BY <1>9, <3>1
  <2>3. CASE ~(x \in Range(kept) /\ y \in Range(kept)) /\ ~(x \in Range(added) /\ y \in Range(added))
    BY <1>3, <1>13, <2>3
  <2> QED BY <2>1, <2>2, <2>3
<1>16. all \subseteq Range(rows) \cup Range(new)
  <2>1. \A x \in Range(kept) : x \in Range(rows) \cup Range(new)
    BY <1>1, <1>4, <1>12
  <2>2. \A x \in Range(added) : x \in Range(new)
    BY <1>1, <1>6, <1>8
  <2> QED BY <2>1, <2>2
<1>17. ASSUME NEW y \in Range(new)
       PROVE  y \in all
  <2>1. PICK j \in DOMAIN new : y = new[j]
    BY <1>1
  <2>2. CASE j \in P
    BY <1>6, <2>1, <2>2
  <2>3. CASE j \notin P
    <3>1. PICK q \in Range(rows) : Key(new[j], q)
      BY <1>7, <2>3
    <3>2. PICK i \in DOMAIN rows : q = rows[i]
      BY <1>1
    <3>3. kept[i] \in Range(new) /\ Key(kept[i], rows[i]) /\ Key(y, rows[i])
      BY <1>4, <2>1, <3>1, <3>2
    <3>4. Key(rows[i], y)
      BY <1>3, <3>3
    <3>5. Key(kept[i], y)
      BY <1>3, <3>3, <3>4
    <3>6. kept[i] = y
      BY <1>9, <3>3, <3>5
    <3> QED BY <1>12, <3>6
  <2> QED BY <2>2, <2>3
<1>18. ASSUME NEW r \in Range(rows)
       PROVE  \E q \in all : Key(r, q)
  <2>1. PICK i \in DOMAIN rows : r = rows[i]
    BY <1>1
  <2>2. kept[i] \in all /\ Key(r, kept[i])
    BY <1>3, <1>4, <1>12, <2>1
  <2> QED BY <2>2
<1>19. Paper!Upserted(rows, new) \in Seq(C) /\ Range(Paper!Upserted(rows, new)) = all
       /\ Once(Paper!Upserted(rows, new))
  BY <1>2, <1>14
<1> HIDE DEF all
<1> QED BY <1>15, <1>16, <1>17, <1>18, <1>19 DEF Key
-----------------------------------------------------------------------------
(* What the actions do to the traders.                                     *)

LEMMA OwnIs ==
  ASSUME PaperTypes, NEW tr \in Traders
  PROVE  /\ Paper!OwnTrades(tr) = {r \in Range(closed) : r.owner = tr /\ r.boot = boot}
         /\ IsFiniteSet(Paper!OwnTrades(tr)) /\ Cardinality(Paper!OwnTrades(tr)) \in Nat
         /\ Paper!Cardinality(Paper!OwnTrades(tr)) = Cardinality(Paper!OwnTrades(tr))
<1>1. Paper!OwnTrades(tr) = {r \in Range(closed) : r.owner = tr /\ r.boot = boot}
  BY SameOperators DEF Paper!OwnTrades
<1>2. IsFiniteSet(Range(closed))
  BY RangeFinite DEF PaperTypes
<1>3. IsFiniteSet(Paper!OwnTrades(tr))
  BY <1>1, <1>2, FS_Subset
<1> QED BY <1>1, <1>3, FS_CardinalityType, SameOperators

\* The trade a trader closes is not one that was closed before: its number is new to
\* this run of its trader.
LEMMA TradeCloses ==
  ASSUME PaperInv, NEW tr \in Traders, NEW closes \in BOOLEAN, Paper!Up(tr),
         closed' = closed \o Paper!Closing(tr, closes), boot' = boot,
         \A o \in Traders : /\ trader'[o].session = trader[o].session
                            /\ trader'[o].state = "STOPPED" <=> trader[o].state = "STOPPED"
  PROVE  /\ BootsOk' /\ (\A o \in Traders : OwnOk(o)')
         /\ closed' \in Seq(RowType) /\ Paper!Closing(tr, closes) \in Seq(RowType)
         /\ Once(Paper!Closing(tr, closes))
         /\ Range(closed') = Range(closed) \cup Range(Paper!Closing(tr, closes))
         /\ Range(closed) \cap Range(Paper!Closing(tr, closes)) = {}
         /\ \A o \in Traders : Paper!OwnTrades(o) \subseteq Paper!OwnTrades(o)'
         /\ Range(Paper!Closing(tr, closes)) \subseteq Paper!OwnTrades(tr)'
<1>1. /\ PaperTypes /\ BootsOk /\ OwnOk(tr) /\ \A o \in Traders : OwnOk(o)
      /\ closed \in Seq(RowType) /\ boot \in Nat /\ trader[tr].session \in Nat
      /\ Range(closed) \subseteq RowType
  <2>1. PaperTypes /\ closed \in Seq(RowType) /\ boot \in Nat /\ trader[tr] \in TraderType
    BY DEF PaperInv, PaperTypes
  <2>2. Range(closed) \subseteq RowType
    BY <2>1, RangeIs
  <2> QED BY <2>1, <2>2 DEF PaperInv, TraderType
<1>2. CASE ~closes
  <2>1. Paper!Closing(tr, closes) = <<>>
    BY <1>2 DEF Paper!Closing
  <2>2. closed' = closed /\ <<>> \in Seq(RowType)
    BY <1>1, <2>1, EmptySeq, ConcatEmptySeq
  <2>3. \A o \in Traders : Paper!OwnTrades(o)' = Paper!OwnTrades(o)
    BY <2>2, OwnIs DEF Paper!OwnTrades
  <2>4. \A o \in Traders : Paper!Up(o)' <=> Paper!Up(o)
    BY DEF Paper!Up
  <2>5. \A o \in Traders : OwnOk(o)'
    BY <1>1, <2>3, <2>4 DEF OwnOk
  <2>6. BootsOk'
    BY <1>1, <2>2 DEF BootsOk
  <2> QED BY <1>1, <2>1, <2>2, <2>3, <2>5, <2>6, EmptyOnce
<1>3. CASE closes
  <2> DEFINE n == Cardinality(Paper!OwnTrades(tr)) + 1
             row == [owner |-> tr, boot |-> boot, session |-> trader[tr].session, n |-> n]
  <2>1. Paper!Closing(tr, closes) = <<row>> /\ n \in Nat /\ row \in RowType
    <3>1. n \in Nat /\ Paper!Closing(tr, closes) = <<row>>
      BY <1>1, <1>3, OwnIs DEF Paper!Closing, Paper!Row
    <3> QED BY <1>1, <3>1 DEF RowType
  <2>2. /\ row.owner = tr /\ row.boot = boot /\ row.session = trader[tr].session /\ row.n = n
        /\ Paper!OwnTrades(tr) = {r \in Range(closed) : r.owner = tr /\ r.boot = boot}
        /\ \A r \in Paper!OwnTrades(tr) : r.session = trader[tr].session /\ r.n < n /\ r.n \in Nat
    <3>1. Paper!OwnTrades(tr) = {r \in Range(closed) : r.owner = tr /\ r.boot = boot}
          /\ Cardinality(Paper!OwnTrades(tr)) \in Nat
      BY <1>1, OwnIs
    <3>2. \A r \in Paper!OwnTrades(tr) : r.n \in Nat
      BY <1>1, <3>1 DEF RowType
    <3>3. \A r \in Paper!OwnTrades(tr) : r.session = trader[tr].session /\ r.n < n
      <4> DEFINE c == Cardinality(Paper!OwnTrades(tr))
      <4>1. n = c + 1 /\ c \in Nat
        BY <3>1
      <4>2. \A r \in Paper!OwnTrades(tr) : r.session = trader[tr].session /\ r.n <= c
        BY <1>1 DEF OwnOk
      <4> HIDE DEF n, c
      <4> QED BY <3>2, <4>1, <4>2
    <3> QED BY <1>1, <3>1, <3>2, <3>3
  <2> HIDE DEF n
  <2>3. <<row>> \in Seq(RowType) /\ Once(<<row>>) /\ Range(<<row>>) = {row}
    BY <2>1, SingleOnce
  <2>4. closed' \in Seq(RowType) /\ Range(closed') = Range(closed) \cup {row}
    <3> HIDE DEF row
    <3>1. closed' = closed \o <<row>>
      BY <2>1
    <3>2. closed \in Seq(RowType) /\ <<row>> \in Seq(RowType)
      BY <1>1, <2>3
    <3>3. closed \o <<row>> \in Seq(RowType)
      BY <3>2, ConcatProperties
    <3>4. Range(closed \o <<row>>) = Range(closed) \cup Range(<<row>>)
      BY <3>2, RangeConcatenation
    <3> QED BY <2>3, <3>1, <3>3, <3>4
  <2> HIDE DEF row
  <2>5. row \notin Range(closed)
    <3>1. ASSUME row \in Paper!OwnTrades(tr)
          PROVE  FALSE
      BY <2>1, <2>2, <3>1
    <3> QED BY <2>2, <3>1
  <2>8. \A o \in Traders : Paper!Up(o)' <=> Paper!Up(o)
    BY DEF Paper!Up
  <2>9. \A o \in Traders :
            Paper!OwnTrades(o)' = {r \in Range(closed') : r.owner = o /\ r.boot = boot}
    BY SameOperators DEF Paper!OwnTrades
  <2>10. /\ \A o \in Traders \ {tr} : Paper!OwnTrades(o)' = Paper!OwnTrades(o)
         /\ Paper!OwnTrades(tr)' = Paper!OwnTrades(tr) \cup {row}
    <3>1. \A o \in Traders :
              Paper!OwnTrades(o) = {r \in Range(closed) : r.owner = o /\ r.boot = boot}
      BY <1>1, OwnIs
    <3>2. ASSUME NEW o \in Traders \ {tr}
          PROVE  Paper!OwnTrades(o)' = Paper!OwnTrades(o)
      <4>1. \A r : r \in Paper!OwnTrades(o)' <=> r \in Paper!OwnTrades(o)
        BY <2>2, <2>4, <2>9, <3>1
      <4> QED BY <4>1
    <3>3. \A r : r \in Paper!OwnTrades(tr)' <=> r \in Paper!OwnTrades(tr) \cup {row}
      BY <2>2, <2>4, <2>9, <3>1
    <3> QED BY <3>2, <3>3
  <2>11. Cardinality(Paper!OwnTrades(tr)') = n
    <3>1. row \notin Paper!OwnTrades(tr)
      BY <2>2, <2>5
    <3> QED BY <1>1, <2>10, <3>1, OwnIs, FS_AddElement DEF n
  <2>12. ASSUME NEW o \in Traders PROVE OwnOk(o)'
    <3>1. CASE o = tr
      <4>1. \A r \in Paper!OwnTrades(tr)' : r.session = trader[tr].session /\ r.n <= n
        BY <2>1, <2>2, <2>10
      <4> QED BY <2>8, <2>11, <3>1, <4>1 DEF OwnOk
    <3>2. CASE o # tr
      <4>1. Paper!OwnTrades(o)' = Paper!OwnTrades(o)
        BY <2>10, <3>2
      <4> QED BY <1>1, <2>8, <4>1 DEF OwnOk
    <3> QED BY <3>1, <3>2
  <2>13. BootsOk'
    BY <1>1, <2>2, <2>4 DEF BootsOk
  <2>14. (\A o \in Traders : Paper!OwnTrades(o) \subseteq Paper!OwnTrades(o)')
         /\ row \in Paper!OwnTrades(tr)'
    BY <2>10
  <2> QED BY <2>1, <2>3, <2>4, <2>5, <2>12, <2>13, <2>14
<1> QED BY <1>2, <1>3

\* A trader starts with a journal read from storage, all of it written.
LEMMA TraderStarts ==
  ASSUME PaperInv, NEW tr \in Traders, NEW loads \in BOOLEAN,
         Paper!Start(tr, loads)
  PROVE  PaperInv'
<1>1. /\ now \in Nat /\ boot \in Nat /\ trader \in [Traders -> TraderType]
      /\ paperTable \in Seq(RowType) /\ closed \in Seq(RowType)
      /\ BootsOk /\ TableOk /\ \A o \in Traders : OwnOk(o) /\ JournalOk(o)
  BY DEF PaperInv, PaperTypes
<1>2. ~Paper!Up(tr) /\ UNCHANGED <<now, boot, paperTable, closed>>
  BY DEF Paper!Start
<1> DEFINE limit == IF Len(paperTable) < LoadLimit THEN Len(paperTable) ELSE LoadLimit
           rows == SubSeq(paperTable, 1, limit)
           t == IF loads
                THEN [Paper!Absent EXCEPT !.state = "RECOVERING", !.session = now,
                                          !.journal = rows, !.persisted = Range(rows)]
                ELSE [Paper!Absent EXCEPT !.state = "STORAGE_DEGRADED", !.session = now,
                                          !.failures = 1]
<1>3. rows \in Seq(RowType) /\ Once(rows) /\ Range(rows) \subseteq Range(paperTable)
  <2>1. Len(paperTable) \in Nat /\ DOMAIN paperTable = 1..Len(paperTable)
        /\ \A i \in DOMAIN paperTable : paperTable[i] \in Range(paperTable)
    BY <1>1, RangeIs
  <2>2. limit \in 0..Len(paperTable)
    BY <2>1, PaperAssumption
  <2> HIDE DEF limit
  <2>3. /\ rows \in Seq(RowType) /\ Len(rows) = limit
        /\ \A i \in 1..limit : rows[i] = paperTable[i]
    BY <1>1, <2>1, <2>2, SubSeqProperties
  <2> HIDE DEF rows
  <2>4. DOMAIN rows = 1..limit
    BY <2>3, RangeIs
  <2>5. \A i \in 1..limit : i \in DOMAIN paperTable
    BY <2>1, <2>2
  <2> QED BY <1>1, <2>1, <2>3, <2>4, <2>5 DEF Once, TableOk, Range
<1> HIDE DEF limit
<1>4. trader' = [trader EXCEPT ![tr] = t]
  BY SameOperators DEF Paper!Start, rows, limit
<1> HIDE DEF rows
<1>5. /\ t \in TraderType /\ t.session = now /\ t.state # "STOPPED"
      /\ Once(t.journal) /\ Range(t.journal) \subseteq Range(closed)
      /\ Range(t.journal) \subseteq t.persisted /\ t.persisted \subseteq Range(paperTable)
  <2>1. Range(rows) \subseteq RowType
    BY <1>3, RangeIs
  <2>2. <<>> \in Seq(RowType)
    BY EmptySeq
  <2>3. CASE loads
    <3>1. t \in TraderType /\ t.session = now /\ t.state # "STOPPED"
          /\ t.journal = rows /\ t.persisted = Range(rows)
      BY <1>1, <1>3, <2>1, <2>3 DEF TraderType, TraderStates, Paper!Absent
    <3> HIDE DEF t
    <3> QED BY <1>1, <1>3, <3>1 DEF TableOk
  <2>4. CASE ~loads
    <3>1. t \in TraderType /\ t.session = now /\ t.state # "STOPPED"
          /\ t.journal = <<>> /\ t.persisted = {}
      BY <1>1, <2>2, <2>4 DEF TraderType, TraderStates, Paper!Absent
    <3> HIDE DEF t
    <3> QED BY <3>1, EmptyOnce
  <2> QED BY <2>3, <2>4
<1> HIDE DEF t
<1>6. PaperTypes'
  BY <1>1, <1>2, <1>4, <1>5 DEF PaperTypes
<1>7. /\ trader'[tr] = t /\ \A o \in Traders \ {tr} : trader'[o] = trader[o]
      /\ \A o \in Traders : Paper!OwnTrades(o)' = Paper!OwnTrades(o)
      /\ Paper!OwnTrades(tr) = {}
  <2>1. \A o \in Traders : Paper!OwnTrades(o)' = Paper!OwnTrades(o)
    BY <1>2 DEF Paper!OwnTrades
  <2>2. Paper!OwnTrades(tr) = {}
    BY <1>1, <1>2 DEF OwnOk
  <2> QED BY <1>1, <1>4, <2>1, <2>2
<1>8. \A o \in Traders : Paper!Up(o)' <=> (Paper!Up(o) \/ o = tr)
  BY <1>5, <1>7 DEF Paper!Up
<1>9. \A r : Paper!Written(r)' <=> Paper!Written(r)
  BY <1>2 DEF Paper!Written
<1>10. \A r \in t.persisted : Paper!Written(r)
  BY <1>5, SameOperators DEF Paper!Written
<1>11. \A o \in Traders : OwnOk(o)' /\ JournalOk(o)'
  <2> SUFFICES ASSUME NEW o \in Traders
               PROVE  OwnOk(o)' /\ JournalOk(o)'
    OBVIOUS
  <2>1. CASE o = tr
    <3>1. OwnOk(o)'
      BY <1>7, <2>1 DEF OwnOk
    <3>2. JournalOk(o)'
      BY <1>2, <1>5, <1>7, <1>9, <1>10, <2>1 DEF JournalOk
    <3> QED BY <3>1, <3>2
  <2>2. CASE o # tr
    <3>1. OwnOk(o)'
      BY <1>1, <1>7, <1>8, <2>2 DEF OwnOk
    <3>2. JournalOk(o)'
      BY <1>1, <1>2, <1>7, <1>9, <2>2 DEF JournalOk
    <3> QED BY <3>1, <3>2
  <2> QED BY <2>1, <2>2
<1>12. BootsOk' /\ TableOk'
  BY <1>1, <1>2 DEF BootsOk, TableOk
<1> QED BY <1>6, <1>11, <1>12 DEF PaperInv

\* An upsert under keys nobody of the same run holds leaves what is held as written
\* so: a row goes only to one with its key.
LEMMA WrittenRemains ==
  ASSUME paperTable \in Seq(RowType), paperTable' \in Seq(RowType),
         \A q \in Range(paperTable) : \E y \in Range(paperTable') : Paper!SameKey(q, y),
         NEW r \in RowType, Paper!Written(r)
  PROVE  Paper!Written(r)'
<1>1. PICK q \in Range(paperTable) : q = r \/ Paper!SameKey(r, q)
  BY SameOperators DEF Paper!Written
<1>2. PICK y \in Range(paperTable') : Paper!SameKey(q, y)
  BY <1>1
<1>3. Paper!SameKey(r, y) /\ y \in RowType
  <2>1. y \in RowType
    BY <1>2, RangeIs
  <2> QED BY <1>1, <1>2, <2>1 DEF Paper!SameKey
<1>4. y = r \/ Paper!OtherRun(r, y)
  <2>1. /\ r = [owner |-> r.owner, boot |-> r.boot, session |-> r.session, n |-> r.n]
        /\ y = [owner |-> y.owner, boot |-> y.boot, session |-> y.session, n |-> y.n]
    BY <1>3 DEF RowType
  <2>2. r.session = y.session /\ r.n = y.n
    BY <1>3 DEF Paper!SameKey
  <2>3. CASE r.owner = y.owner /\ r.boot = y.boot
    BY <2>1, <2>2, <2>3
  <2> QED BY <2>3 DEF Paper!OtherRun
<1> QED BY <1>2, <1>3, <1>4, SameOperators DEF Paper!Written

\* What a frame leaves of a trader, before its rows go out.
LEMMA JournalGrows ==
  ASSUME PaperInv, NEW tr \in Traders, NEW new \in Seq(RowType), Once(new),
         Range(closed) \cap Range(new) = {}
  PROVE  /\ trader[tr].journal \o new \in Seq(RowType) /\ Once(trader[tr].journal \o new)
         /\ Range(trader[tr].journal \o new) = Range(trader[tr].journal) \cup Range(new)
         /\ Range(trader[tr].journal) \subseteq Range(closed)
<1> DEFINE j == trader[tr].journal
<1>1. j \in Seq(RowType) /\ Once(j) /\ Range(j) \subseteq Range(closed)
  BY DEF PaperInv, PaperTypes, TraderType, JournalOk
<1> HIDE DEF j
<1>2. /\ j \o new \in Seq(RowType) /\ Once(j \o new)
      /\ Range(j \o new) = Range(j) \cup Range(new)
  BY <1>1, JoinedOnce
<1> QED BY <1>1, <1>2 DEF j

\* A frame that is handled to its end.
LEMMA FrameComes ==
  ASSUME PaperInv, NEW tr \in Traders, NEW good \in BOOLEAN, NEW closes \in BOOLEAN,
         NEW answer \in {"ok", "lost", "fail"}, Paper!Frame(tr, good, closes, answer)
  PROVE  PaperInv'
<1> DEFINE new == Paper!Closing(tr, closes)
           seen == [trader[tr] EXCEPT !.journal = @ \o new,
                                      !.firstAt = IF @ = 0 THEN now ELSE @]
           t == [seen EXCEPT !.state = Paper!Advanced(seen, good)]
           due == Paper!Pending(t)
           u == IF due = <<>> THEN t ELSE Paper!Flushed(t, answer)
<1>1. /\ now \in Nat /\ boot \in Nat /\ trader \in [Traders -> TraderType]
      /\ trader[tr] \in TraderType
      /\ paperTable \in Seq(RowType) /\ closed \in Seq(RowType)
      /\ TableOk /\ \A o \in Traders : JournalOk(o)
  BY DEF PaperInv, PaperTypes
<1>2. /\ Paper!Up(tr) /\ now' = now /\ boot' = boot
      /\ closed' = closed \o new /\ trader' = [trader EXCEPT ![tr] = u]
      /\ paperTable' = IF answer = "fail" THEN paperTable
                       ELSE Paper!Upserted(paperTable, due)
  BY DEF Paper!Frame
<1>3. /\ t.journal = trader[tr].journal \o new /\ t.persisted = trader[tr].persisted
      /\ t.session = trader[tr].session /\ t.failures = trader[tr].failures
      /\ t.firstAt \in Nat /\ t.state \in TraderStates \ {"STOPPED"}
      /\ t = [state |-> t.state, session |-> t.session, journal |-> t.journal,
              persisted |-> t.persisted, firstAt |-> t.firstAt, failures |-> t.failures]
  <2>1. /\ seen.journal = trader[tr].journal \o new /\ seen.persisted = trader[tr].persisted
        /\ seen.session = trader[tr].session /\ seen.failures = trader[tr].failures
        /\ seen.firstAt \in Nat /\ seen.state = trader[tr].state
        /\ seen = [state |-> seen.state, session |-> seen.session, journal |-> seen.journal,
                   persisted |-> seen.persisted, firstAt |-> seen.firstAt,
                   failures |-> seen.failures]
    <3> DEFINE o == trader[tr]
               j == o.journal \o new
               f == IF o.firstAt = 0 THEN now ELSE o.firstAt
    <3>1. /\ f \in Nat
          /\ o = [state |-> o.state, session |-> o.session, journal |-> o.journal,
                  persisted |-> o.persisted, firstAt |-> o.firstAt, failures |-> o.failures]
      BY <1>1 DEF TraderType
    <3>2. seen = [[o EXCEPT !.journal = j] EXCEPT !.firstAt = f]
      BY <3>1
    <3> HIDE DEF seen, o, j, f
    <3>3. seen = [state |-> o.state, session |-> o.session, journal |-> j,
                  persisted |-> o.persisted, firstAt |-> f, failures |-> o.failures]
      BY <3>1, <3>2
    <3> QED BY <3>1, <3>3 DEF j, o
  <2> HIDE DEF seen
  <2>2. Paper!Advanced(seen, good) \in TraderStates \ {"STOPPED"}
    BY DEF Paper!Advanced, TraderStates
  <2> QED BY <2>1, <2>2
<1> HIDE DEF t
<1>4. /\ u.journal = t.journal /\ u.session = trader[tr].session
      /\ u.state \in TraderStates \ {"STOPPED"} /\ u.firstAt \in Nat /\ u.failures \in Nat
      /\ u.persisted = IF answer = "ok" THEN t.persisted \cup Range(due) ELSE t.persisted
      /\ u = [state |-> u.state, session |-> u.session, journal |-> u.journal,
              persisted |-> u.persisted, firstAt |-> u.firstAt, failures |-> u.failures]
  <2>1. t.failures \in Nat
    BY <1>1, <1>3 DEF TraderType
  <2>2. CASE due = <<>>
    <3>1. u = t /\ Range(due) = {}
      BY <2>2, EmptyOnce
    <3> QED BY <1>3, <2>1, <3>1
  <2>3. CASE due # <<>>
    <3>1. u = Paper!Flushed(t, answer) /\ Paper!Range(due) = Range(due)
      BY <2>3, SameOperators
    <3> HIDE DEF u
    <3>2. CASE answer = "ok"
      <4>1. u = [t EXCEPT !.persisted = @ \cup Range(due)]
        BY <3>1, <3>2 DEF Paper!Flushed
      <4> HIDE DEF due
      <4> QED BY <1>3, <2>1, <3>2, <4>1
    <3>3. CASE answer # "ok"
      <4>1. u = [t EXCEPT !.failures = IF @ < 2 THEN @ + 1 ELSE @,
                          !.state = "STORAGE_DEGRADED"]
        BY <3>1, <3>3 DEF Paper!Flushed
      <4> DEFINE f == IF t.failures < 2 THEN t.failures + 1 ELSE t.failures
      <4>2. f \in Nat /\ u = [[t EXCEPT !.failures = f] EXCEPT !.state = "STORAGE_DEGRADED"]
        BY <2>1, <4>1
      <4> HIDE DEF due, f
      <4>3. u = [state |-> "STORAGE_DEGRADED", session |-> t.session, journal |-> t.journal,
                 persisted |-> t.persisted, firstAt |-> t.firstAt, failures |-> f]
        BY <1>3, <4>2
      <4> QED BY <1>3, <3>3, <4>2, <4>3 DEF TraderStates
    <3> QED BY <3>2, <3>3
  <2> QED BY <2>2, <2>3
<1> HIDE DEF u
<1>5. /\ trader'[tr] = u /\ \A o \in Traders \ {tr} : trader'[o] = trader[o]
      /\ \A o \in Traders : /\ trader'[o].session = trader[o].session
                            /\ trader'[o].state = "STOPPED" <=> trader[o].state = "STOPPED"
  BY <1>1, <1>2, <1>4 DEF Paper!Up
<1>6. /\ BootsOk' /\ (\A o \in Traders : OwnOk(o)')
      /\ closed' \in Seq(RowType) /\ new \in Seq(RowType) /\ Once(new)
      /\ Range(closed') = Range(closed) \cup Range(new)
      /\ Range(closed) \cap Range(new) = {}
      /\ (\A o \in Traders : Paper!OwnTrades(o) \subseteq Paper!OwnTrades(o)')
      /\ Range(new) \subseteq Paper!OwnTrades(tr)'
  BY <1>2, <1>5, TradeCloses
<1> HIDE DEF new
<1>7. /\ t.journal \in Seq(RowType) /\ Once(t.journal)
      /\ Range(t.journal) \subseteq Range(closed')
      /\ Range(t.journal) \subseteq t.persisted \cup Paper!OwnTrades(tr)'
  <2>1. Range(t.journal) = Range(trader[tr].journal) \cup Range(new)
    BY <1>3, <1>6, JournalGrows
  <2>2. Range(trader[tr].journal) \subseteq t.persisted \cup Paper!OwnTrades(tr)
    BY <1>1, <1>3 DEF JournalOk
  <2>3. Range(t.journal) \subseteq t.persisted \cup Paper!OwnTrades(tr)'
    BY <1>6, <2>1, <2>2
  <2> QED BY <1>3, <1>6, <2>3, JournalGrows
<1>8. /\ due \in Seq(RowType) /\ Once(due) /\ Range(due) \subseteq Range(t.journal)
      /\ Range(due) \subseteq Paper!OwnTrades(tr)'
  <2> DEFINE P == {i \in DOMAIN t.journal : t.journal[i] \notin t.persisted}
  <2>1. due = Picked(t.journal, P)
    BY SameOperators DEF Paper!Pending
  <2> HIDE DEF due
  <2>2. /\ due \in Seq(RowType) /\ Once(due) /\ P \subseteq DOMAIN t.journal
        /\ \A x \in Range(due) : \E i \in P : x = t.journal[i]
    BY <1>7, <2>1, PickedOnce
  <2>3. \A i \in P : i \in DOMAIN t.journal /\ t.journal[i] \notin t.persisted
    OBVIOUS
  <2> HIDE DEF P
  <2>4. \A x \in Range(due) : x \in Range(t.journal) /\ x \notin t.persisted
    BY <1>7, <2>2, <2>3, RangeIs
  <2> QED BY <1>7, <2>2, <2>4
<1> HIDE DEF due
<1>9. /\ paperTable' \in Seq(RowType) /\ TableOk'
      /\ \A q \in Range(paperTable) : \E y \in Range(paperTable') : Paper!SameKey(q, y)
      /\ answer # "fail" => Range(due) \subseteq Range(paperTable')
  <2>1. CASE answer = "fail"
    <3>1. paperTable' = paperTable
      BY <1>2, <2>1
    <3>2. \A q : Paper!SameKey(q, q)
      BY DEF Paper!SameKey
    <3>3. TableOk'
      BY <1>1, <1>6, <3>1 DEF TableOk
    <3> QED BY <1>1, <2>1, <3>1, <3>2, <3>3
  <2>2. CASE answer # "fail"
    <3> DEFINE C == Range(closed')
    <3>1. KeysTell(Range(due))
      <4>1. ASSUME NEW r \in Range(due), NEW q \in Range(due), Paper!SameKey(r, q)
            PROVE  r = q
        <5>1. r \in RowType /\ q \in RowType
          BY <1>8, RangeIs
        <5>2. /\ r \in Paper!OwnTrades(tr)' /\ q \in Paper!OwnTrades(tr)'
          BY <1>8
        <5>3. r.owner = q.owner /\ r.boot = q.boot
          BY <5>2 DEF Paper!OwnTrades
        <5> QED BY <4>1, <5>1, <5>3 DEF Paper!SameKey, RowType
      <4> QED BY <4>1 DEF KeysTell
    <3>2. Range(paperTable) \subseteq C /\ Range(due) \subseteq C /\ Once(paperTable)
          /\ KeysTell(Range(paperTable))
      BY <1>1, <1>6, <1>7, <1>8 DEF TableOk
    <3>3. C \subseteq RowType
      BY <1>6, RangeIs
    <3> HIDE DEF C
    <3>4. paperTable \in Seq(C) /\ due \in Seq(C)
      BY <1>1, <1>8, <3>2, Narrowed
    <3>5. paperTable' = Paper!Upserted(paperTable, due)
      BY <1>2, <2>2
    <3>6. /\ paperTable' \in Seq(C) /\ Once(paperTable') /\ KeysTell(Range(paperTable'))
          /\ Range(due) \subseteq Range(paperTable')
          /\ \A q \in Range(paperTable) : \E y \in Range(paperTable') : Paper!SameKey(q, y)
      BY <1>8, <3>1, <3>2, <3>4, <3>5, UpsertReplaces
    <3>7. paperTable' \in Seq(RowType) /\ Range(paperTable') \subseteq C
      BY <3>3, <3>6, SeqMonotone, RangeIs
    <3>8. TableOk'
      BY <3>6, <3>7 DEF TableOk, KeysTell, C
    <3> QED BY <3>6, <3>7, <3>8
  <2> QED BY <2>1, <2>2
<1>10. u \in TraderType
  <2>1. Range(due) \subseteq RowType
    BY <1>8, RangeIs
  <2>2. u.persisted \subseteq RowType /\ u.session \in Nat
    BY <1>1, <1>3, <1>4, <2>1 DEF TraderType
  <2> QED BY <1>4, <1>7, <2>2 DEF TraderType
<1>11. PaperTypes'
  BY <1>1, <1>2, <1>6, <1>9, <1>10 DEF PaperTypes
<1>12. \A o \in Traders : \A r \in trader[o].persisted : Paper!Written(r)'
  <2> SUFFICES ASSUME NEW o \in Traders, NEW r \in trader[o].persisted
               PROVE  Paper!Written(r)'
    OBVIOUS
  <2>1. r \in RowType /\ Paper!Written(r)
    BY <1>1 DEF TraderType, JournalOk
  <2> QED BY <1>1, <1>9, <2>1, WrittenRemains
<1>13. ASSUME NEW o \in Traders
       PROVE  JournalOk(o)'
  <2>1. CASE o = tr
    <3>1. \A r \in u.persisted : Paper!Written(r)'
      <4>1. CASE answer = "ok"
        <5>1. \A r \in Range(due) : Paper!Written(r)'
          BY <1>9, <4>1, SameOperators DEF Paper!Written
        <5> QED BY <1>3, <1>4, <1>12, <4>1, <5>1
      <4>2. CASE answer # "ok"
        BY <1>3, <1>4, <1>12, <4>2
      <4> QED BY <4>1, <4>2
    <3>2. t.persisted \subseteq u.persisted
      BY <1>4
    <3> QED BY <1>4, <1>5, <1>7, <2>1, <3>1, <3>2 DEF JournalOk
  <2>2. CASE o # tr
    <3>1. Once(trader[o].journal) /\ Range(trader[o].journal) \subseteq Range(closed)
          /\ Range(trader[o].journal) \subseteq trader[o].persisted \cup Paper!OwnTrades(o)
      BY <1>1 DEF JournalOk
    <3>2. trader'[o] = trader[o]
      BY <1>5, <2>2
    <3> QED BY <1>6, <1>12, <3>1, <3>2 DEF JournalOk
  <2> QED BY <2>1, <2>2
<1> QED BY <1>6, <1>9, <1>11, <1>13 DEF PaperInv

\* A frame whose runner raises after it closed a trade.
LEMMA FrameFails ==
  ASSUME PaperInv, NEW tr \in Traders, Paper!FrameRaises(tr)
  PROVE  PaperInv'
<1> DEFINE new == Paper!Closing(tr, TRUE)
<1>1. /\ now \in Nat /\ boot \in Nat /\ trader \in [Traders -> TraderType]
      /\ trader[tr] \in TraderType /\ paperTable \in Seq(RowType)
      /\ TableOk /\ \A o \in Traders : JournalOk(o)
  BY DEF PaperInv, PaperTypes
<1>2. /\ Paper!Up(tr) /\ UNCHANGED <<now, boot, paperTable>> /\ closed' = closed \o new
      /\ trader' = [trader EXCEPT ![tr] = [trader[tr] EXCEPT
              !.journal = @ \o new, !.firstAt = IF @ = 0 THEN now ELSE @]]
  BY <1>1 DEF Paper!FrameRaises, TraderType
<1> HIDE DEF new
<1>3. /\ \A o \in Traders \ {tr} : trader'[o] = trader[o]
      /\ trader'[tr].journal = trader[tr].journal \o new
      /\ trader'[tr].session = trader[tr].session /\ trader'[tr].state = trader[tr].state
      /\ trader'[tr].persisted = trader[tr].persisted
      /\ \A o \in Traders : /\ trader'[o].session = trader[o].session
                            /\ trader'[o].state = "STOPPED" <=> trader[o].state = "STOPPED"
  BY <1>1, <1>2 DEF TraderType
<1>4. /\ BootsOk' /\ (\A o \in Traders : OwnOk(o)')
      /\ closed' \in Seq(RowType) /\ new \in Seq(RowType) /\ Once(new)
      /\ Range(closed') = Range(closed) \cup Range(new)
      /\ Range(closed) \cap Range(new) = {}
      /\ (\A o \in Traders : Paper!OwnTrades(o) \subseteq Paper!OwnTrades(o)')
      /\ Range(new) \subseteq Paper!OwnTrades(tr)'
  BY <1>2, <1>3, TradeCloses DEF new
<1>5. /\ trader'[tr].journal \in Seq(RowType) /\ Once(trader'[tr].journal)
      /\ Range(trader'[tr].journal) = Range(trader[tr].journal) \cup Range(new)
      /\ Range(trader'[tr].journal) \subseteq Range(closed')
  BY <1>3, <1>4, JournalGrows
<1>6. PaperTypes'
  <2>1. trader[tr].journal \o new \in Seq(RowType)
    BY <1>3, <1>5
  <2>2. trader' \in [Traders -> TraderType]
    BY <1>1, <1>2, <2>1 DEF TraderType
  <2> QED BY <1>1, <1>2, <1>4, <2>2 DEF PaperTypes
<1>7. TableOk'
  BY <1>1, <1>2, <1>4 DEF TableOk
<1>8. \A r : Paper!Written(r)' <=> Paper!Written(r)
  BY <1>2 DEF Paper!Written
<1>9. ASSUME NEW o \in Traders
      PROVE  JournalOk(o)'
  <2>1. CASE o = tr
    <3>1. Range(trader[tr].journal) \subseteq trader[tr].persisted \cup Paper!OwnTrades(tr)
          /\ \A r \in trader[tr].persisted : Paper!Written(r)
      BY <1>1 DEF JournalOk
    <3> QED BY <1>3, <1>4, <1>5, <1>8, <2>1, <3>1 DEF JournalOk
  <2>2. CASE o # tr
    BY <1>1, <1>3, <1>4, <1>8, <2>2 DEF JournalOk
  <2> QED BY <2>1, <2>2
<1> QED BY <1>4, <1>6, <1>7, <1>9 DEF PaperInv

\* A new process knows no trader.
LEMMA TradersRestart ==
  ASSUME PaperInv, Paper!Restart
  PROVE  PaperInv'
<1>1. /\ now \in Nat /\ boot \in Nat /\ paperTable \in Seq(RowType) /\ closed \in Seq(RowType)
      /\ BootsOk /\ TableOk /\ Range(closed) \subseteq RowType
  <2>1. Range(closed) \subseteq RowType
    BY RangeIs DEF PaperInv, PaperTypes
  <2> QED BY <2>1 DEF PaperInv, PaperTypes
<1>2. /\ UNCHANGED <<now, paperTable, closed>> /\ boot' = boot + 1
      /\ trader' = [tr \in Traders |-> Paper!Absent]
  BY DEF Paper!Restart
<1>3. /\ Paper!Absent \in TraderType /\ Paper!Absent.state = "STOPPED"
      /\ Paper!Absent.journal = <<>> /\ Paper!Absent.persisted = {}
  <2>1. <<>> \in Seq(RowType)
    BY EmptySeq
  <2> QED BY <2>1 DEF Paper!Absent, TraderType, TraderStates
<1>4. PaperTypes'
  BY <1>1, <1>2, <1>3 DEF PaperTypes
<1>5. \A r \in Range(closed) : r.boot \in Nat /\ r.boot <= boot
  BY <1>1 DEF BootsOk, RowType
<1>6. \A tr \in Traders : Paper!OwnTrades(tr)' = {} /\ ~Paper!Up(tr)'
  <2>1. \A r \in Range(closed) : r.boot # boot'
    BY <1>1, <1>2, <1>5
  <2> QED BY <1>2, <1>3, <2>1, SameOperators DEF Paper!OwnTrades, Paper!Up
<1>7. \A tr \in Traders : OwnOk(tr)' /\ JournalOk(tr)'
  BY <1>2, <1>3, <1>6, EmptyOnce DEF OwnOk, JournalOk
<1>8. BootsOk' /\ TableOk'
  BY <1>1, <1>2, <1>5 DEF BootsOk, TableOk
<1> QED BY <1>4, <1>7, <1>8 DEF PaperInv

LEMMA TradersRest ==
  ASSUME PaperInv, UNCHANGED <<boot, trader, paperTable, closed>>, now' \in Nat
  PROVE  PaperInv'
<1>1. \A tr \in Traders :
          Paper!OwnTrades(tr)' = Paper!OwnTrades(tr) /\ (Paper!Up(tr)' <=> Paper!Up(tr))
  BY DEF Paper!OwnTrades, Paper!Up
<1>2. PaperTypes' /\ BootsOk' /\ TableOk'
  BY DEF PaperInv, PaperTypes, BootsOk, TableOk
<1>3. \A r : Paper!Written(r)' <=> Paper!Written(r)
  BY DEF Paper!Written
<1>4. \A tr \in Traders : OwnOk(tr)' /\ JournalOk(tr)'
  BY <1>1, <1>3 DEF PaperInv, OwnOk, JournalOk
<1> QED BY <1>2, <1>4 DEF PaperInv
-----------------------------------------------------------------------------
(* The journal is true.                                                    *)

\* What a paper trader holds as written is written, or has given way to a trade of
\* another run that began in the same second; the table tells of an id once, and a
\* journal of every trade once, through lost answers, restarts and traders that start
\* and close at the same moment (PaperTrader._flush_journal, _recover; the table's
\* key): JournalIsTrue.
THEOREM JournalHolds == RecordsSpec => []JournalIsTrue
<1>1. RecordsInit => PaperInv
  <2> SUFFICES ASSUME Paper!Init
               PROVE  PaperInv
    BY DEF RecordsInit
  <2>1. /\ now = 1 /\ boot = 1 /\ trader = [tr \in Traders |-> Paper!Absent]
        /\ paperTable = <<>> /\ closed = <<>> /\ <<>> \in Seq(RowType)
    BY EmptySeq DEF Paper!Init
  <2>2. /\ Paper!Absent \in TraderType /\ Paper!Absent.state = "STOPPED"
        /\ Paper!Absent.journal = <<>> /\ Paper!Absent.persisted = {}
    BY <2>1 DEF Paper!Absent, TraderType, TraderStates
  <2>3. PaperTypes
    BY <2>1, <2>2 DEF PaperTypes
  <2>4. \A tr \in Traders : Paper!OwnTrades(tr) = {} /\ ~Paper!Up(tr)
    BY <2>1, <2>2, SameOperators, EmptyOnce DEF Paper!OwnTrades, Paper!Up
  <2> QED BY <2>1, <2>2, <2>3, <2>4, EmptyOnce
          DEF PaperInv, BootsOk, KeysTell, TableOk, OwnOk, JournalOk
<1>2. PaperInv /\ [RecordsNext]_<<part, vars, paperVars>> => PaperInv'
  <2> SUFFICES ASSUME PaperInv, [RecordsNext]_<<part, vars, paperVars>>
               PROVE  PaperInv'
    OBVIOUS
  <2>1. now \in Nat
    BY DEF PaperInv, PaperTypes
  <2>2. CASE UNCHANGED paperVars
    BY <2>1, <2>2, TradersRest DEF paperVars
  <2>3. CASE Paper!Next
    <3>1. CASE \E tr \in Traders, loads \in BOOLEAN : Paper!Start(tr, loads)
      BY <3>1, TraderStarts
    <3>2. CASE \E tr \in Traders, good, closes \in BOOLEAN, answer \in {"ok", "lost", "fail"} :
                   Paper!Frame(tr, good, closes, answer)
      BY <3>2, FrameComes
    <3>3. CASE \E tr \in Traders : Paper!FrameRaises(tr)
      BY <3>3, FrameFails
    <3>4. CASE Paper!Restart
      BY <3>4, TradersRestart
    <3>5. CASE Paper!Tick
      BY <2>1, <3>5, TradersRest DEF Paper!Tick
    <3> QED BY <2>3, <3>1, <3>2, <3>3, <3>4, <3>5 DEF Paper!Next
  <2> QED BY <2>2, <2>3 DEF RecordsNext
<1>3. PaperInv => JournalIsTrue
  <2> SUFFICES ASSUME PaperInv
               PROVE  JournalIsTrue
    OBVIOUS
  <2>1. \A i, j \in DOMAIN paperTable : Paper!SameKey(paperTable[i], paperTable[j]) => i = j
    BY RangeIs DEF PaperInv, PaperTypes, TableOk, KeysTell, Once
  <2> QED BY <2>1 DEF PaperInv, JournalOk, Once, JournalIsTrue, Paper!JournalIsTrue
<1> QED BY <1>1, <1>2, <1>3, PTL DEF RecordsSpec
=============================================================================
