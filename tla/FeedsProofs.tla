----------------------------- MODULE FeedsProofs -----------------------------
(***************************************************************************)
(* What holds of the order book and its feed, of the candles and of the    *)
(* recorder, for every queue, every exchange and every number of losses,   *)
(* restarts and reconnects.                                                *)
(*                                                                         *)
(* The book: the invariant is about the frames on their way, in the queue  *)
(* and on the wire.  Wherever two neighbours are of different epochs of    *)
(* the exchange, the second is a snapshot, and the first fits the book it  *)
(* will meet.  An id that follows the book's last one is of the book's     *)
(* epoch.  A reset of the socket thread may fall between any two steps of  *)
(* an application, after which only a snapshot makes the book synced: no   *)
(* one is in hand while it goes on, unless the book is torn, and the book  *)
(* is out of sync when it ends.                                            *)
(*                                                                         *)
(* The candles: the wire holds the market's newest trades, and the open    *)
(* bar is that of what was heard of its bucket, unless the socket was down *)
(* meanwhile.  Every other bucket of which something was heard is over or  *)
(* saw a dark tick, so that a bar is closed when nothing of it is to come. *)
(* The row of the bucket that was forming when the history was seeded is   *)
(* the last of the seed, and is not passed by what is heard.               *)
(*                                                                         *)
(* The recorder: what a reader has since the last gap, and what is pending *)
(* behind it, carries the tape up to its last trade.  Its replay gets to   *)
(* the book that the frame in the ingest thread's hand will make, because  *)
(* the pending window, laid over the exchange's book at any update since   *)
(* the window began, makes the exchange's book at its end.                 *)
(***************************************************************************)
EXTENDS Feeds, SelectionProofs

FrameType == [kind : {"snapshot", "delta"}, epoch : Nat \ {0}, u : Nat \ {0}]
LinkType == [up : BOOLEAN, subscribed : BOOLEAN, asks : Nat, wire : Seq(FrameType), connects : Nat]
ExchangeType == [epoch : 1..MaxEpochs, u : Nat \ {0}, lost : Nat]
SocketType == {Reading} \cup [call : {"run", "_receive"}, at : {"clear", "desync", "mute"}]
IsBook == book = [levels |-> book.levels, synced |-> book.synced, lastU |-> book.lastU]
IsWorker == worker = [stage |-> worker.stage, frame |-> worker.frame, wasSynced |-> worker.wasSynced]

\* A frame may follow one of epoch e.
Fits(e, f) == IsSnapshot(f) \/ f.epoch = e

\* The frames s on their way from an exchange in epoch n, to which the engine is
\* subscribed or not.
PipeOk(s, n, subscribed) ==
    /\ s \in Seq(FrameType)
    /\ \A i \in 1..Len(s) : s[i].epoch \in 1..n
    /\ \A i \in 1..Len(s) : i < Len(s) => Fits(s[i].epoch, s[i + 1])
    /\ subscribed /\ s # <<>> => s[Len(s)].epoch = n

\* What comes next fits a book of epoch e.
Ahead(e, s, n, subscribed) == IF s = <<>> THEN subscribed => e = n ELSE Fits(e, s[1])

Pipe == queue \o link.wire
NextFits(e) == Ahead(e, Pipe, exchange.epoch, link.subscribed)
Epochs == 1..exchange.epoch
BookIs(e) == book.lastU # 0 /\ book.levels = BookAt(e, book.lastU)

TypesOk ==
    /\ exchange \in ExchangeType /\ link \in LinkType /\ queue \in Seq(FrameType)
    /\ ~link.up => link.wire = <<>> /\ ~link.subscribed /\ link.asks = 0
    /\ socket \in SocketType /\ (socket # Reading => link.up)
    /\ PipeOk(Pipe, exchange.epoch, link.subscribed)
BookOk ==
    /\ IsBook /\ IsWorker
    /\ book.lastU \in Nat /\ book.synced \in BOOLEAN /\ muted \in BOOLEAN /\ torn \in BOOLEAN
    /\ ~muted /\ ~book.synced => worker.stage = "applied" \/ socket.at = "mute"
WorkerOk ==
    /\ worker.stage \in {"idle", "taken", "merged", "checked", "applied"}
    /\ worker.stage # "idle" => worker.frame \in FrameType /\ worker.frame.epoch \in Epochs
    /\ worker.stage = "merged" => IsSnapshot(worker.frame)
    /\ worker.stage = "checked" => ~IsSnapshot(worker.frame)

\* The book is of epoch e, and what comes next fits it.
Continued(e) == BookIs(e) /\ NextFits(e)

\* Where no reset is going on: the book in sync, or about to be, is of some epoch, that
\* of the frame in the ingest thread's hand, and what comes next fits it.
HandOk ==
    LET f == worker.frame
    IN  /\ worker.stage = "idle" /\ book.synced => \E e \in Epochs : Continued(e)
        /\ worker.stage = "taken" /\ IsSnapshot(f) => NextFits(f.epoch)
        /\ worker.stage = "taken" /\ ~IsSnapshot(f) /\ book.synced => Continued(f.epoch)
        /\ worker.stage = "merged" => Continued(f.epoch)
        /\ worker.stage = "checked" /\ book.synced => Continued(f.epoch) /\ f.u = book.lastU + 1
        /\ worker.stage = "applied" /\ book.synced => Continued(f.epoch)
SteadyOk == ~torn /\ socket = Reading => HandOk
ResetOk == ~torn /\ socket # Reading => ~HoldsSnapshot /\ (socket.at = "mute" => ~book.synced)

FeedInv == TypesOk /\ BookOk /\ WorkerOk /\ SteadyOk /\ ResetOk
-----------------------------------------------------------------------------
(* Sequences of frames.                                                    *)

LEMMA FrameFields ==
  ASSUME NEW f \in FrameType
  PROVE  f.epoch \in Nat \ {0} /\ f.u \in Nat \ {0}
  BY DEF FrameType

\* A frame is sent: by an exchange that is subscribed to, or a snapshot.
LEMMA SentOk ==
  ASSUME NEW s, NEW n \in Nat, NEW m \in Nat, NEW b, PipeOk(s, n, b), NEW f \in FrameType,
         f.epoch = m, n <= m, IsSnapshot(f) \/ (b /\ n = m)
  PROVE  /\ PipeOk(Append(s, f), m, TRUE)
         /\ \A e : Ahead(e, s, n, b) => Ahead(e, Append(s, f), m, TRUE)
<1> DEFINE t == Append(s, f)
<1>1. /\ s \in Seq(FrameType) /\ t \in Seq(FrameType) /\ Len(t) = Len(s) + 1 /\ Len(s) \in Nat
      /\ t # <<>> /\ t[Len(s) + 1] = f /\ \A i \in 1..Len(s) : t[i] = s[i]
  <2>1. s \in Seq(FrameType)
    BY DEF PipeOk
  <2> QED BY <2>1, AppendProperties
<1> HIDE DEF t
<1>2. \A i \in 1..Len(t) : i \in 1..Len(s) \/ i = Len(s) + 1
  BY <1>1
<1>3. ASSUME NEW i \in 1..Len(t) PROVE t[i].epoch \in 1..m
  <2>1. CASE i \in 1..Len(s)
    BY <1>1, <2>1 DEF PipeOk
  <2>2. CASE i = Len(s) + 1
    BY <1>1, <2>2, FrameFields
  <2> QED BY <1>2, <2>1, <2>2
<1>4. ASSUME NEW i \in 1..Len(t), i < Len(t) PROVE Fits(t[i].epoch, t[i + 1])
  <2>1. i \in 1..Len(s) /\ t[i] = s[i]
    BY <1>1, <1>4
  <2>2. CASE i < Len(s)
    <3>1. i + 1 \in 1..Len(s)
      BY <1>1, <2>1, <2>2
    <3> QED BY <1>1, <2>1, <2>2, <3>1 DEF PipeOk
  <2>3. CASE i = Len(s)
    <3>1. s # <<>> /\ t[i + 1] = f
      BY <1>1, <2>1, <2>3
    <3>2. b => s[i].epoch = n
      BY <2>3, <3>1 DEF PipeOk
    <3> QED BY <2>1, <3>1, <3>2 DEF Fits
  <2> QED BY <1>1, <2>1, <2>2, <2>3
<1>5. t[Len(t)].epoch = m
  BY <1>1
<1>6. PipeOk(t, m, TRUE)
  BY <1>1, <1>3, <1>4, <1>5 DEF PipeOk
<1>7. ASSUME NEW e, Ahead(e, s, n, b) PROVE Ahead(e, t, m, TRUE)
  <2>1. CASE s = <<>>
    <3>1. t[1] = f
      BY <1>1, <2>1
    <3> QED BY <1>1, <1>7, <2>1, <3>1 DEF Ahead, Fits
  <2>2. CASE s # <<>>
    <3>1. t[1] = s[1]
      BY <1>1, <2>2
    <3> QED BY <1>1, <1>7, <2>2, <3>1 DEF Ahead
  <2> QED BY <2>1, <2>2
<1> QED BY <1>6, <1>7 DEF t

\* Without a subscription the exchange's epochs do not matter.
LEMMA SilentOk ==
  ASSUME NEW s, NEW n \in Nat, NEW m \in Nat, NEW b, PipeOk(s, n, b), n <= m, n = m \/ ~b
  PROVE  /\ PipeOk(s, m, b)
         /\ \A e : Ahead(e, s, n, b) => Ahead(e, s, m, b)
<1>1. \A k \in 1..n : k \in 1..m
  OBVIOUS
<1> QED BY <1>1 DEF PipeOk, Ahead

\* The first frame is taken.
LEMMA TailOk ==
  ASSUME NEW s, NEW n \in Nat, NEW b, PipeOk(s, n, b), s # <<>>
  PROVE  /\ PipeOk(Tail(s), n, b)
         /\ Head(s) \in FrameType /\ Head(s).epoch \in 1..n /\ Ahead(Head(s).epoch, Tail(s), n, b)
         /\ \A e : Ahead(e, s, n, b) => Fits(e, Head(s))
<1> DEFINE t == Tail(s)
<1>1. /\ s \in Seq(FrameType) /\ t \in Seq(FrameType) /\ Len(t) = Len(s) - 1 /\ Len(s) \in Nat /\ Len(s) > 0
      /\ \A i \in 1..Len(t) : t[i] = s[i + 1]
      /\ Head(s) = s[1]
  BY DEF PipeOk
<1> HIDE DEF t
<1>2. \A i \in 1..Len(t) : i + 1 \in 1..Len(s)
  BY <1>1
<1>3. \A i \in 1..Len(t) : t[i].epoch \in 1..n
  BY <1>1, <1>2 DEF PipeOk
<1>4. ASSUME NEW i \in 1..Len(t), i < Len(t) PROVE Fits(t[i].epoch, t[i + 1])
  <2>1. /\ t[i] = s[i + 1] /\ t[i + 1] = s[i + 1 + 1]
        /\ i + 1 \in 1..Len(s) /\ i + 1 < Len(s)
    BY <1>1, <1>4
  <2> QED BY <2>1 DEF PipeOk
<1>5. b /\ t # <<>> => t[Len(t)].epoch = n
  <2> SUFFICES ASSUME b, t # <<>> PROVE t[Len(t)].epoch = n
    OBVIOUS
  <2>1. t[Len(t)] = s[Len(s)]
    BY <1>1
  <2> QED BY <1>1, <2>1 DEF PipeOk
<1>6. PipeOk(t, n, b)
  BY <1>1, <1>3, <1>4, <1>5 DEF PipeOk
<1>7. s[1] \in FrameType /\ s[1].epoch \in 1..n
  BY <1>1 DEF PipeOk
<1>8. Ahead(s[1].epoch, t, n, b)
  <2>1. CASE t = <<>>
    <3>1. Len(s) = 1
      BY <1>1, <2>1
    <3> QED BY <2>1, <3>1 DEF Ahead, PipeOk
  <2>2. CASE t # <<>>
    <3>1. 1 \in 1..Len(s) /\ 1 < Len(s) /\ t[1] = s[1 + 1]
      BY <1>1, <2>2
    <3>2. Fits(s[1].epoch, s[1 + 1])
      BY <3>1 DEF PipeOk
    <3> QED BY <2>2, <3>1, <3>2 DEF Ahead
  <2> QED BY <2>1, <2>2
<1>9. \A e : Ahead(e, s, n, b) => Fits(e, s[1])
  BY DEF Ahead
<1> QED BY <1>1, <1>6, <1>7, <1>8, <1>9 DEF t

\* The wire is lost, and with it the subscription.
LEMMA CutOk ==
  ASSUME NEW q \in Seq(FrameType), NEW w \in Seq(FrameType), NEW n \in Nat, NEW b, PipeOk(q \o w, n, b)
  PROVE  /\ PipeOk(q, n, FALSE)
         /\ \A e : Ahead(e, q \o w, n, b) => Ahead(e, q, n, FALSE)
<1> DEFINE s == q \o w
<1>1. /\ s \in Seq(FrameType) /\ Len(s) = Len(q) + Len(w) /\ Len(q) \in Nat /\ Len(w) \in Nat
      /\ \A i \in 1..Len(q) : s[i] = q[i] /\ i \in 1..Len(s)
  OBVIOUS
<1> HIDE DEF s
<1>2. PipeOk(s, n, b)
  BY DEF s
<1>3. \A i \in 1..Len(q) : q[i].epoch \in 1..n
  BY <1>1, <1>2 DEF PipeOk
<1>4. ASSUME NEW i \in 1..Len(q), i < Len(q) PROVE Fits(q[i].epoch, q[i + 1])
  <2>1. i \in 1..Len(s) /\ i < Len(s) /\ s[i] = q[i] /\ s[i + 1] = q[i + 1]
    BY <1>1, <1>4
  <2> QED BY <1>2, <2>1 DEF PipeOk
<1>5. ASSUME NEW e, Ahead(e, s, n, b) PROVE Ahead(e, q, n, FALSE)
  <2>1. q # <<>> => s # <<>> /\ s[1] = q[1]
    BY <1>1
  <2> QED BY <1>5, <2>1 DEF Ahead
<1> QED BY <1>3, <1>4, <1>5 DEF PipeOk, s

LEMMA Pipes ==
  ASSUME NEW q \in Seq(FrameType), NEW w \in Seq(FrameType), NEW f \in FrameType
  PROVE  /\ q \o Append(w, f) = Append(q \o w, f)
         /\ q \o <<>> = q
         /\ w # <<>> => Append(q, Head(w)) \o Tail(w) = q \o w
         /\ q # <<>> => Tail(q) \o w = Tail(q \o w) /\ Head(q) = Head(q \o w) /\ q \o w # <<>>
<1>1. q \o <<>> = q
  BY ConcatEmptySeq
<1>2. q \o Append(w, f) = Append(q \o w, f)
  <2>1. <<f>> \in Seq(FrameType) /\ q \o w \in Seq(FrameType)
    BY ConcatProperties
  <2> QED BY <2>1, AppendIsConcat, ConcatAssociative
<1>3. ASSUME w # <<>> PROVE Append(q, Head(w)) \o Tail(w) = q \o w
  <2>1. Head(w) \in FrameType /\ Tail(w) \in Seq(FrameType) /\ w = <<Head(w)>> \o Tail(w)
    BY <1>3
  <2>2. <<Head(w)>> \in Seq(FrameType)
    BY <2>1
  <2>3. Append(q, Head(w)) = q \o <<Head(w)>>
    BY <2>1, AppendIsConcat
  <2> QED BY <2>1, <2>2, <2>3, ConcatAssociative
<1>4. ASSUME q # <<>>
      PROVE  Tail(q) \o w = Tail(q \o w) /\ Head(q) = Head(q \o w) /\ q \o w # <<>>
  <2> DEFINE s == q \o w
             t == Tail(q) \o w
  <2>1. Tail(q) \in Seq(FrameType) /\ Len(Tail(q)) = Len(q) - 1 /\ Len(q) \in Nat /\ Len(q) > 0 /\ Len(w) \in Nat
        /\ Head(q) = q[1] /\ \A i \in 1..Len(Tail(q)) : Tail(q)[i] = q[i + 1]
    BY <1>4, HeadTailProperties
  <2>2. /\ s \in Seq(FrameType) /\ Len(s) = Len(q) + Len(w)
        /\ \A i \in 1..Len(q) + Len(w) : s[i] = IF i <= Len(q) THEN q[i] ELSE w[i - Len(q)]
    BY ConcatProperties
  <2>3. /\ t \in Seq(FrameType) /\ Len(t) = Len(Tail(q)) + Len(w)
        /\ \A i \in 1..Len(Tail(q)) + Len(w) :
              t[i] = IF i <= Len(Tail(q)) THEN Tail(q)[i] ELSE w[i - Len(Tail(q))]
    BY <2>1, ConcatProperties
  <2> HIDE DEF s, t
  <2>4. s # <<>> /\ s[1] = q[1] /\ Head(s) = s[1]
    BY <2>1, <2>2
  <2>5. Tail(s) \in Seq(FrameType) /\ Len(Tail(s)) = Len(s) - 1 /\ \A i \in 1..Len(Tail(s)) : Tail(s)[i] = s[i + 1]
    BY <2>2, <2>4, HeadTailProperties
  <2>6. Len(t) = Len(Tail(s))
    BY <2>1, <2>2, <2>3, <2>5
  <2>7. ASSUME NEW i \in 1..Len(t) PROVE t[i] = Tail(s)[i]
    <3>1. CASE i <= Len(Tail(q))
      BY <2>1, <2>2, <2>3, <2>5, <2>6, <3>1
    <3>2. CASE ~(i <= Len(Tail(q)))
      <4>1. i - Len(Tail(q)) = (i + 1) - Len(q) /\ ~(i + 1 <= Len(q)) /\ i + 1 \in 1..Len(q) + Len(w)
        BY <2>1, <2>3, <3>2
      <4> QED BY <2>1, <2>2, <2>3, <2>5, <2>6, <3>2, <4>1
    <3> QED BY <3>1, <3>2
  <2>8. t = Tail(s)
    BY <2>3, <2>5, <2>6, <2>7, SeqEqual
  <2> QED BY <2>1, <2>4, <2>8 DEF s, t
<1> QED BY <1>1, <1>2, <1>3, <1>4
-----------------------------------------------------------------------------
(* The exchange's book, update by update.                                  *)

LEMMA HighestIs ==
  ASSUME NEW S, NEW n \in S, S \subseteq Nat, \A m \in S : m <= n
  PROVE  Highest(S) = n
<1>1. \A m \in S : (\A k \in S : k <= m) => m = n
  BY SMT
<1> QED BY <1>1 DEF Highest

LEMMA BookAtNext ==
  ASSUME NEW e, NEW u \in Nat
  PROVE  [BookAt(e, u) EXCEPT ![(u + 1) % 2] = <<e, u + 1>>] = BookAt(e, u + 1)
<1> DEFINE Changes(l, n) == {0} \cup {v \in 1..n : v % 2 = l}
<1>1. (u + 1) % 2 \in Levels
  BY DEF Levels
<1>2. BookAt(e, u) = [l \in Levels |-> <<e, Highest(Changes(l, u))>>]
      /\ BookAt(e, u + 1) = [l \in Levels |-> <<e, Highest(Changes(l, u + 1))>>]
  BY DEF BookAt
<1>3. ASSUME NEW l \in Levels, l # (u + 1) % 2
      PROVE  Changes(l, u + 1) = Changes(l, u)
  BY <1>3 DEF Levels
<1>4. Highest(Changes((u + 1) % 2, u + 1)) = u + 1
  <2> DEFINE S == Changes((u + 1) % 2, u + 1)
  <2>1. u + 1 \in S /\ S \subseteq Nat /\ \A m \in S : m <= u + 1
    OBVIOUS
  <2> HIDE DEF S
  <2>2. Highest(S) = u + 1
    BY <2>1, HighestIs
  <2> QED BY <2>2 DEF S
<1> HIDE DEF Last
<1> QED BY <1>1, <1>2, <1>3, <1>4
-----------------------------------------------------------------------------
(* The steps of the exchange and the network.                              *)

LEMMA FeedTypes ==
  ASSUME TypesOk
  PROVE  /\ exchange.epoch \in 1..MaxEpochs /\ exchange.epoch \in Nat \ {0} /\ exchange.u \in Nat \ {0}
         /\ exchange.lost \in Nat
         /\ link.wire \in Seq(FrameType) /\ link.asks \in Nat /\ link.connects \in Nat
         /\ link.up \in BOOLEAN /\ link.subscribed \in BOOLEAN
         /\ Pipe \in Seq(FrameType)
<1>1. MaxEpochs \in Nat
  BY FeedAssumption
<1> QED BY <1>1 DEF TypesOk, ExchangeType, LinkType, PipeOk

\* A step that moves the frames on and keeps the book.
LEMMA PipeMoves ==
  ASSUME FeedInv, TypesOk', UNCHANGED <<book, muted, socket, worker, torn>>, exchange.epoch <= exchange'.epoch,
         \A e : NextFits(e) => NextFits(e)'
  PROVE  FeedInv'
<1>1. exchange.epoch \in Nat /\ exchange'.epoch \in Nat
  <2>1. MaxEpochs \in Nat
    BY FeedAssumption
  <2> QED BY <2>1 DEF FeedInv, TypesOk, ExchangeType
<1>2. \A e \in Epochs : e \in Epochs'
  BY <1>1 DEF Epochs
<1>3. \A e : Continued(e) => Continued(e)'
  BY DEF Continued, BookIs
<1>4. BookOk'
  BY DEF FeedInv, BookOk, IsBook, IsWorker
<1>5. WorkerOk'
  BY <1>2 DEF FeedInv, WorkerOk
<1>6. SteadyOk'
  BY <1>2, <1>3 DEF FeedInv, SteadyOk, HandOk
<1>7. ResetOk'
  BY DEF FeedInv, ResetOk, HoldsSnapshot
<1> QED BY <1>4, <1>5, <1>6, <1>7 DEF FeedInv

LEMMA LinkFields ==
  ASSUME NEW l \in LinkType, NEW w \in Seq(FrameType), NEW asks \in Nat, NEW b \in BOOLEAN
  PROVE  /\ [l EXCEPT !.wire = w] \in LinkType
         /\ [l EXCEPT !.asks = asks] \in LinkType
         /\ [l EXCEPT !.asks = asks, !.subscribed = b, !.wire = w] \in LinkType
  BY DEF LinkType

LEMMA UpdateKeeps ==
  ASSUME FeedInv, Update
  PROVE  FeedInv'
<1> DEFINE f == Delta(exchange.epoch, exchange.u + 1)
<1>1. TypesOk
  BY DEF FeedInv
<1>2. /\ exchange' = [exchange EXCEPT !.u = @ + 1]
      /\ link' = [link EXCEPT !.wire = Sends(f)] /\ UNCHANGED <<queue, book, muted, socket, worker, torn>>
  BY DEF Update, threads
<1>3. f \in FrameType /\ f.epoch = exchange.epoch
  BY <1>1, FeedTypes DEF Delta, FrameType
<1> HIDE DEF f
<1>4. exchange' \in ExchangeType /\ exchange'.epoch = exchange.epoch
  <2>1. exchange \in ExchangeType /\ exchange.u + 1 \in Nat \ {0}
    BY <1>1, FeedTypes DEF TypesOk
  <2> QED BY <1>2, <2>1 DEF ExchangeType
<1>5. Sends(f) = IF link.subscribed THEN Append(link.wire, f) ELSE link.wire
  BY DEF Sends
<1>6. Sends(f) \in Seq(FrameType)
  BY <1>1, <1>3, <1>5, FeedTypes, AppendProperties
<1>7. /\ link' \in LinkType /\ link'.wire = Sends(f) /\ link'.subscribed = link.subscribed /\ link'.up = link.up
      /\ link'.asks = link.asks
  BY <1>1, <1>2, <1>6 DEF TypesOk, LinkType
<1>8. CASE link.subscribed
  <2>1. Pipe' = Append(Pipe, f)
    <3>1. queue' = queue /\ link'.wire = Append(link.wire, f)
      BY <1>2, <1>5, <1>7, <1>8
    <3>2. queue \in Seq(FrameType) /\ link.wire \in Seq(FrameType)
      BY <1>1, FeedTypes DEF TypesOk
    <3>3. queue \o Append(link.wire, f) = Append(queue \o link.wire, f)
      BY <1>3, <3>2, Pipes
    <3> QED BY <3>1, <3>3 DEF Pipe
  <2>2. /\ PipeOk(Append(Pipe, f), exchange.epoch, TRUE)
        /\ \A e : Ahead(e, Pipe, exchange.epoch, link.subscribed) => Ahead(e, Append(Pipe, f), exchange.epoch, TRUE)
    <3>1. exchange.epoch \in Nat /\ exchange.epoch <= exchange.epoch /\ PipeOk(Pipe, exchange.epoch, link.subscribed)
      BY <1>1, FeedTypes DEF TypesOk
    <3> QED BY <1>3, <1>8, <3>1, SentOk
  <2>3. link.subscribed = TRUE /\ link'.subscribed = TRUE /\ link.up
    BY <1>1, <1>7, <1>8, FeedTypes DEF TypesOk
  <2>4. TypesOk'
    BY <1>1, <1>2, <1>4, <1>7, <2>1, <2>2, <2>3 DEF TypesOk
  <2>5. \A e : NextFits(e) => NextFits(e)'
    BY <1>4, <2>1, <2>2, <2>3 DEF NextFits
  <2> QED BY <1>2, <1>4, <2>4, <2>5, PipeMoves, FeedTypes, <1>1
<1>9. CASE ~link.subscribed
  <2>1. Pipe' = Pipe
    BY <1>2, <1>5, <1>7, <1>9 DEF Pipe
  <2>2. TypesOk'
    BY <1>1, <1>2, <1>4, <1>5, <1>7, <1>9, <2>1 DEF TypesOk
  <2>3. \A e : NextFits(e) => NextFits(e)'
    BY <1>4, <1>7, <2>1 DEF NextFits
  <2> QED BY <1>1, <1>2, <1>4, <2>2, <2>3, PipeMoves, FeedTypes
<1> QED BY <1>8, <1>9

LEMMA LoseUpdateKeeps ==
  ASSUME FeedInv, LoseUpdate
  PROVE  FeedInv'
<1>1. TypesOk
  BY DEF FeedInv
<1>2. /\ exchange' = [exchange EXCEPT !.u = @ + 1, !.lost = @ + 1] /\ UNCHANGED <<link, queue, book, muted, socket, worker, torn>>
  BY DEF LoseUpdate, threads
<1>3. exchange' \in ExchangeType /\ exchange'.epoch = exchange.epoch
  <2>1. exchange \in ExchangeType /\ exchange.u + 1 \in Nat \ {0} /\ exchange.lost + 1 \in Nat
    BY <1>1, FeedTypes DEF TypesOk
  <2> QED BY <1>2, <2>1 DEF ExchangeType
<1>4. Pipe' = Pipe
  BY <1>2 DEF Pipe
<1>5. TypesOk'
  BY <1>1, <1>2, <1>3, <1>4 DEF TypesOk
<1>6. \A e : NextFits(e) => NextFits(e)'
  BY <1>2, <1>3, <1>4 DEF NextFits
<1> QED BY <1>1, <1>2, <1>3, <1>5, <1>6, PipeMoves, FeedTypes

LEMMA RestartKeeps ==
  ASSUME FeedInv, RestartExchange
  PROVE  FeedInv'
<1> DEFINE n == exchange.epoch + 1
           f == Delta(n, 1)
<1>1. TypesOk
  BY DEF FeedInv
<1>2. /\ exchange' = [exchange EXCEPT !.epoch = n, !.u = 1] /\ exchange.epoch < MaxEpochs
      /\ link' = [link EXCEPT !.wire = Sends(f)] /\ UNCHANGED <<queue, book, muted, socket, worker, torn>>
  BY DEF RestartExchange, threads
<1>3. MaxEpochs \in Nat /\ exchange.epoch \in Nat \ {0}
  BY <1>1, FeedTypes, FeedAssumption
<1>4. n \in 1..MaxEpochs /\ n \in Nat \ {0} /\ exchange.epoch <= n
  BY <1>2, <1>3
<1>5. f \in FrameType /\ f.epoch = n /\ IsSnapshot(f)
  BY <1>4 DEF Delta, FrameType, IsSnapshot
<1> HIDE DEF f, n
<1>6. exchange' \in ExchangeType /\ exchange'.epoch = n
  <2>1. exchange \in ExchangeType
    BY <1>1 DEF TypesOk
  <2>2. [exchange EXCEPT !.epoch = n, !.u = 1] \in ExchangeType
    <3>1. 1 \in Nat \ {0}
      OBVIOUS
    <3> QED BY <1>4, <2>1, <3>1, ZenonT(30) DEF ExchangeType
  <2>3. exchange'.epoch = n
    BY <1>2, <2>1 DEF ExchangeType
  <2> QED BY <1>2, <2>2, <2>3
<1>7. Sends(f) = IF link.subscribed THEN Append(link.wire, f) ELSE link.wire
  BY DEF Sends
<1>8. Sends(f) \in Seq(FrameType)
  BY <1>1, <1>5, <1>7, FeedTypes, AppendProperties
<1>9. /\ link' \in LinkType /\ link'.wire = Sends(f) /\ link'.subscribed = link.subscribed /\ link'.up = link.up
      /\ link'.asks = link.asks
  BY <1>1, <1>2, <1>8 DEF TypesOk, LinkType
<1>10. CASE link.subscribed
  <2>1. Pipe' = Append(Pipe, f)
    <3>1. Pipe' = queue \o Append(link.wire, f)
      BY <1>2, <1>7, <1>9, <1>10 DEF Pipe
    <3>2. queue \in Seq(FrameType) /\ link.wire \in Seq(FrameType)
      BY <1>1, FeedTypes DEF TypesOk
    <3> QED BY <1>5, <3>1, <3>2, Pipes DEF Pipe
  <2>2. /\ PipeOk(Append(Pipe, f), n, TRUE)
        /\ \A e : Ahead(e, Pipe, exchange.epoch, link.subscribed) => Ahead(e, Append(Pipe, f), n, TRUE)
    BY <1>1, <1>3, <1>4, <1>5, SentOk DEF TypesOk
  <2>3. link'.subscribed = TRUE /\ link'.up
    BY <1>1, <1>9, <1>10, FeedTypes DEF TypesOk
  <2>4. TypesOk'
    BY <1>1, <1>2, <1>6, <1>9, <2>1, <2>2, <2>3 DEF TypesOk
  <2>5. \A e : NextFits(e) => NextFits(e)'
    BY <1>6, <2>1, <2>2, <2>3 DEF NextFits
  <2> QED BY <1>2, <1>4, <1>6, <2>4, <2>5, PipeMoves
<1>11. CASE ~link.subscribed
  <2>1. Pipe' = Pipe
    BY <1>2, <1>7, <1>9, <1>11 DEF Pipe
  <2>2. /\ PipeOk(Pipe, n, link.subscribed)
        /\ \A e : Ahead(e, Pipe, exchange.epoch, link.subscribed) => Ahead(e, Pipe, n, link.subscribed)
    BY <1>1, <1>3, <1>4, <1>11, SilentOk DEF TypesOk
  <2>3. TypesOk'
    BY <1>1, <1>2, <1>6, <1>7, <1>9, <1>11, <2>1, <2>2 DEF TypesOk
  <2>4. \A e : NextFits(e) => NextFits(e)'
    BY <1>6, <1>9, <2>1, <2>2 DEF NextFits
  <2> QED BY <1>2, <1>4, <1>6, <2>3, <2>4, PipeMoves
<1> QED BY <1>10, <1>11

LEMMA ServeKeeps ==
  ASSUME FeedInv, Serve
  PROVE  FeedInv'
<1> DEFINE f == Snapshot(exchange.epoch, exchange.u)
<1>1. TypesOk
  BY DEF FeedInv
<1>2. /\ link' = [link EXCEPT !.asks = @ - 1, !.subscribed = TRUE, !.wire = Append(@, f)] /\ link.asks > 0
      /\ UNCHANGED <<exchange, queue, book, muted, socket, worker, torn>>
  BY DEF Serve, threads
<1>3. f \in FrameType /\ f.epoch = exchange.epoch /\ IsSnapshot(f)
  BY <1>1, FeedTypes DEF Snapshot, FrameType, IsSnapshot
<1> HIDE DEF f
<1>4. Append(link.wire, f) \in Seq(FrameType) /\ link.asks - 1 \in Nat
  BY <1>1, <1>2, <1>3, FeedTypes, AppendProperties
<1>5. link' \in LinkType /\ link'.wire = Append(link.wire, f) /\ link'.subscribed = TRUE /\ link'.up = link.up
  BY <1>1, <1>2, <1>4 DEF TypesOk, LinkType
<1>6. Pipe' = Append(Pipe, f)
  <2>1. Pipe' = queue \o Append(link.wire, f)
    BY <1>2, <1>5 DEF Pipe
  <2>2. queue \in Seq(FrameType) /\ link.wire \in Seq(FrameType)
    BY <1>1, FeedTypes DEF TypesOk
  <2>3. queue \o Append(link.wire, f) = Append(queue \o link.wire, f)
    BY <1>3, <2>2, Pipes
  <2> QED BY <2>1, <2>3 DEF Pipe
<1>7. /\ PipeOk(Append(Pipe, f), exchange.epoch, TRUE)
      /\ \A e : Ahead(e, Pipe, exchange.epoch, link.subscribed) => Ahead(e, Append(Pipe, f), exchange.epoch, TRUE)
  <2>1. exchange.epoch \in Nat /\ exchange.epoch <= exchange.epoch /\ PipeOk(Pipe, exchange.epoch, link.subscribed)
    BY <1>1, FeedTypes DEF TypesOk
  <2> QED BY <1>3, <2>1, SentOk
<1>8. link.up
  BY <1>1, <1>2 DEF TypesOk
<1>9. TypesOk'
  BY <1>1, <1>2, <1>5, <1>6, <1>7, <1>8 DEF TypesOk
<1>10. \A e : NextFits(e) => NextFits(e)'
  BY <1>2, <1>5, <1>6, <1>7 DEF NextFits
<1> QED BY <1>1, <1>2, <1>9, <1>10, PipeMoves, FeedTypes

LEMMA DisconnectKeeps ==
  ASSUME FeedInv, Disconnect
  PROVE  FeedInv'
<1>1. TypesOk
  BY DEF FeedInv
<1>2. /\ link' = [NoLink EXCEPT !.connects = link.connects] /\ socket = Reading
      /\ UNCHANGED <<exchange, queue, book, muted, socket, worker, torn>>
  BY DEF Disconnect, threads
<1>3. /\ link' \in LinkType /\ link'.wire = <<>> /\ link'.subscribed = FALSE /\ link'.up = FALSE /\ link'.asks = 0
  <2>1. link.connects \in Nat /\ <<>> \in Seq(FrameType)
    BY <1>1, FeedTypes
  <2> QED BY <1>2, <2>1 DEF NoLink, LinkType
<1>4. queue \in Seq(FrameType) /\ link.wire \in Seq(FrameType) /\ exchange.epoch \in Nat
  BY <1>1, FeedTypes DEF TypesOk
<1>5. Pipe' = queue
  BY <1>2, <1>3, <1>4, ConcatEmptySeq DEF Pipe
<1>6. PipeOk(queue \o link.wire, exchange.epoch, link.subscribed)
  BY <1>1 DEF TypesOk, Pipe
<1>7. /\ PipeOk(queue, exchange.epoch, FALSE)
      /\ \A e : Ahead(e, Pipe, exchange.epoch, link.subscribed) => Ahead(e, queue, exchange.epoch, FALSE)
  BY <1>4, <1>6, CutOk DEF Pipe
<1>8. TypesOk'
  BY <1>1, <1>2, <1>3, <1>5, <1>7 DEF TypesOk
<1>9. \A e : NextFits(e) => NextFits(e)'
  BY <1>2, <1>3, <1>5, <1>7 DEF NextFits
<1> QED BY <1>2, <1>4, <1>8, <1>9, PipeMoves
-----------------------------------------------------------------------------
(* The steps of the socket thread.                                         *)

\* A reset begins: what is in hand is from before it.
LEMMA ResetBegins ==
  ASSUME FeedInv, TypesOk', UNCHANGED <<exchange, book, muted, worker>>, socket = Reading,
         socket'.at = "clear", socket' # Reading, torn' = (torn \/ HoldsSnapshot)
  PROVE  FeedInv'
<1>1. Reading.at # "mute"
  BY DEF Reading
<1>2. BookOk'
  BY <1>1 DEF FeedInv, BookOk, IsBook, IsWorker
<1>3. WorkerOk'
  BY DEF FeedInv, WorkerOk, Epochs
<1>4. SteadyOk' /\ ResetOk'
  BY DEF SteadyOk, ResetOk, HoldsSnapshot
<1> QED BY <1>2, <1>3, <1>4 DEF FeedInv

\* A reset is over: the book is out of sync, unless it was torn.
LEMMA ResetEnds ==
  ASSUME FeedInv, TypesOk', UNCHANGED <<exchange, book, worker, torn>>, socket.at = "mute",
         socket' = Reading, muted' = TRUE
  PROVE  FeedInv'
<1>1. socket # Reading
  BY DEF Reading
<1>2. BookOk'
  BY DEF FeedInv, BookOk, IsBook, IsWorker
<1>3. WorkerOk'
  BY DEF FeedInv, WorkerOk, Epochs
<1>4. ResetOk'
  BY DEF ResetOk
<1>5. SteadyOk'
  <2> SUFFICES ASSUME ~torn PROVE HandOk'
    BY DEF SteadyOk
  <2>1. ~HoldsSnapshot /\ ~book.synced
    BY <1>1 DEF FeedInv, ResetOk
  <2>2. ~book'.synced /\ worker'.stage # "merged" /\ (worker'.stage = "taken" => ~IsSnapshot(worker'.frame))
    BY <2>1 DEF FeedInv, WorkerOk, HoldsSnapshot
  <2> QED BY <2>2 DEF HandOk
<1> QED BY <1>2, <1>3, <1>4, <1>5 DEF FeedInv

LEMMA Resets ==
  ASSUME NEW call \in {"run", "_receive"}, NEW at \in {"clear", "desync", "mute"}
  PROVE  /\ [call |-> call, at |-> at] \in SocketType
         /\ [call |-> call, at |-> at] # Reading
         /\ [call |-> call, at |-> at].at = at
  BY DEF SocketType, Reading

LEMMA ConnectKeeps ==
  ASSUME FeedInv, Connect
  PROVE  FeedInv'
<1>1. TypesOk /\ socket = Reading
  BY DEF FeedInv, Connect
<1>2. /\ link' = [NoLink EXCEPT !.up = TRUE, !.connects = link.connects + 1]
      /\ ~link.up /\ UNCHANGED <<exchange, queue, book, muted, worker>>
      /\ socket' = [call |-> "run", at |-> "clear"] /\ torn' = (torn \/ HoldsSnapshot)
  BY DEF Connect
<1>3. link' \in LinkType /\ link'.wire = <<>> /\ link'.subscribed = FALSE /\ link'.up
  <2>1. link.connects + 1 \in Nat /\ <<>> \in Seq(FrameType)
    BY <1>1, FeedTypes
  <2> QED BY <1>2, <2>1 DEF NoLink, LinkType
<1>4. queue \in Seq(FrameType) /\ link.wire = <<>> /\ ~link.subscribed
  BY <1>1, <1>2 DEF TypesOk
<1>5. Pipe' = queue /\ Pipe = queue
  BY <1>2, <1>3, <1>4, ConcatEmptySeq DEF Pipe
<1>6. socket' \in SocketType /\ socket' # Reading /\ socket'.at = "clear"
  BY <1>2, Resets
<1>7. TypesOk'
  BY <1>1, <1>2, <1>3, <1>4, <1>5, <1>6 DEF TypesOk, PipeOk
<1> QED BY <1>1, <1>2, <1>6, <1>7, ResetBegins

LEMMA DropKeeps ==
  ASSUME FeedInv, Drop
  PROVE  FeedInv'
<1>1. TypesOk /\ socket = Reading /\ link.wire # <<>> /\ Len(queue) >= QueueLimit
  BY DEF FeedInv, Drop
<1>2. /\ queue' = Tail(queue) /\ UNCHANGED <<exchange, link, book, muted, worker>>
      /\ socket' = [call |-> "_receive", at |-> "clear"] /\ torn' = (torn \/ HoldsSnapshot)
  BY DEF Drop
<1>3. /\ queue \in Seq(FrameType) /\ link.wire \in Seq(FrameType) /\ link.up /\ exchange.epoch \in Nat
      /\ PipeOk(Pipe, exchange.epoch, link.subscribed)
  BY <1>1, FeedTypes DEF TypesOk
<1>4. queue # <<>>
  BY <1>1, FeedAssumption
<1>5. Tail(queue) \in Seq(FrameType) /\ Head(queue) \in FrameType
  BY <1>3, <1>4, HeadTailProperties
<1>6. Pipe' = Tail(Pipe) /\ Pipe # <<>>
  BY <1>2, <1>3, <1>4, <1>5, Pipes DEF Pipe
<1>7. PipeOk(Tail(Pipe), exchange.epoch, link.subscribed)
  BY <1>3, <1>6, TailOk
<1>8. socket' \in SocketType /\ socket' # Reading /\ socket'.at = "clear"
  BY <1>2, Resets
<1>9. TypesOk'
  BY <1>1, <1>2, <1>3, <1>5, <1>6, <1>7, <1>8 DEF TypesOk
<1> QED BY <1>1, <1>2, <1>8, <1>9, ResetBegins

\* The steps of a reset, which the ingest thread may come between.
LEMMA ResetSteps ==
  ASSUME FeedInv, NEW from \in {"clear", "desync"}, NEW to \in {"desync", "mute"},
         socket.at = from, socket' = [socket EXCEPT !.at = to]
  PROVE  socket # Reading /\ socket' \in SocketType /\ socket' # Reading /\ socket'.at = to /\ link.up
<1>1. socket \in SocketType /\ (socket # Reading => link.up)
  BY DEF FeedInv, TypesOk
<1>2. socket # Reading
  BY DEF Reading
<1>3. socket \in [call : {"run", "_receive"}, at : {"clear", "desync", "mute"}]
  BY <1>1, <1>2 DEF SocketType
<1>4. socket' \in [call : {"run", "_receive"}, at : {"clear", "desync", "mute"}] /\ socket'.at = to
  BY <1>3
<1>5. socket' # Reading
  BY <1>4 DEF Reading
<1> QED BY <1>1, <1>2, <1>4, <1>5 DEF SocketType

LEMMA ClearLevelsKeeps ==
  ASSUME FeedInv, ClearLevels
  PROVE  FeedInv'
<1>1. /\ TypesOk /\ BookOk /\ WorkerOk /\ ResetOk
      /\ socket.at = "clear" /\ socket' = [socket EXCEPT !.at = "desync"]
      /\ book' = [book EXCEPT !.levels = EmptyBook]
      /\ UNCHANGED <<exchange, link, queue, muted, worker, torn>>
  BY DEF FeedInv, ClearLevels
<1> HIDE DEF EmptyBook
<1>2. socket # Reading /\ socket' \in SocketType /\ socket' # Reading /\ socket'.at = "desync" /\ link.up
  BY <1>1, ResetSteps
<1>3. IsBook' /\ book'.synced = book.synced /\ book'.lastU = book.lastU
  BY <1>1 DEF BookOk, IsBook
<1>4. BookOk'
  BY <1>1, <1>3 DEF BookOk, IsWorker
<1>5. TypesOk' /\ WorkerOk'
  BY <1>1, <1>2 DEF TypesOk, WorkerOk, Epochs, Pipe
<1>6. SteadyOk' /\ ResetOk'
  BY <1>1, <1>2 DEF SteadyOk, ResetOk, HoldsSnapshot
<1> QED BY <1>4, <1>5, <1>6 DEF FeedInv

LEMMA LoseSyncKeeps ==
  ASSUME FeedInv, LoseSync
  PROVE  FeedInv'
<1>1. /\ TypesOk /\ BookOk /\ WorkerOk /\ ResetOk
      /\ socket.at = "desync" /\ socket' = [socket EXCEPT !.at = "mute"]
      /\ book' = [book EXCEPT !.synced = FALSE, !.lastU = 0]
      /\ UNCHANGED <<exchange, link, queue, muted, worker, torn>>
  BY DEF FeedInv, LoseSync
<1>2. socket # Reading /\ socket' \in SocketType /\ socket' # Reading /\ socket'.at = "mute" /\ link.up
  BY <1>1, ResetSteps
<1>3. IsBook' /\ book'.synced = FALSE /\ book'.lastU = 0
  BY <1>1 DEF BookOk, IsBook
<1>4. BookOk'
  BY <1>1, <1>2, <1>3 DEF BookOk, IsWorker
<1>5. TypesOk' /\ WorkerOk'
  BY <1>1, <1>2 DEF TypesOk, WorkerOk, Epochs, Pipe
<1>6. SteadyOk' /\ ResetOk'
  BY <1>1, <1>2, <1>3 DEF SteadyOk, ResetOk, HoldsSnapshot
<1> QED BY <1>4, <1>5, <1>6 DEF FeedInv

LEMMA SubscribeKeeps ==
  ASSUME FeedInv, Subscribe
  PROVE  FeedInv'
<1>1. /\ TypesOk /\ socket = [call |-> "run", at |-> "mute"] /\ socket' = Reading /\ muted' = TRUE
      /\ link' = [link EXCEPT !.asks = 1] /\ UNCHANGED <<exchange, queue, book, worker, torn>>
  BY DEF FeedInv, Subscribe
<1>2. socket.at = "mute" /\ link.up
  BY <1>1, Resets DEF TypesOk
<1>3. /\ link' \in LinkType /\ link'.wire = link.wire
      /\ link'.subscribed = link.subscribed /\ link'.up = link.up
  BY <1>1 DEF TypesOk, LinkType
<1>4. Pipe' = Pipe
  BY <1>1, <1>3 DEF Pipe
<1>5. TypesOk'
  BY <1>1, <1>2, <1>3, <1>4 DEF TypesOk, SocketType
<1> QED BY <1>1, <1>2, <1>5, ResetEnds

LEMMA ReceiveKeeps ==
  ASSUME FeedInv, Receive
  PROVE  FeedInv'
<1> DEFINE w == link.wire
<1>1. TypesOk
  BY DEF FeedInv
<1>2. /\ w # <<>> /\ UNCHANGED <<exchange, book, worker, torn>> /\ socket' = Reading
      /\ queue' = Append(queue, Head(w))
  BY DEF Receive
<1>3. /\ queue \in Seq(FrameType) /\ w \in Seq(FrameType) /\ link.up /\ exchange.epoch \in Nat
      /\ link \in LinkType /\ link.asks \in Nat
  BY <1>1, <1>2, FeedTypes DEF TypesOk
<1>4. Head(w) \in FrameType /\ Tail(w) \in Seq(FrameType) /\ Append(queue, Head(w)) \in Seq(FrameType)
  BY <1>2, <1>3, HeadTailProperties, AppendProperties
<1>5. Append(queue, Head(w)) \o Tail(w) = Pipe
  BY <1>2, <1>3, <1>4, Pipes DEF Pipe
<1>6. ASSUME NEW k \in Nat, link' = [link EXCEPT !.wire = Tail(w), !.asks = k]
      PROVE  /\ link' \in LinkType /\ link'.wire = Tail(w)
             /\ link'.subscribed = link.subscribed /\ link'.up = link.up
  BY <1>3, <1>4, <1>6 DEF LinkType
<1>7. /\ link' \in LinkType /\ link'.wire = Tail(w)
      /\ link'.subscribed = link.subscribed /\ link'.up = link.up
  <2>1. \E k \in {link.asks, link.asks + 1} : link' = [link EXCEPT !.wire = Tail(w), !.asks = k]
    BY <1>3 DEF Receive, Resubscribed, LinkType
  <2>2. link.asks \in Nat /\ link.asks + 1 \in Nat
    BY <1>3
  <2> QED BY <1>6, <2>1, <2>2
<1>8. Pipe' = Pipe
  BY <1>2, <1>5, <1>7 DEF Pipe
<1>9. TypesOk'
  BY <1>1, <1>2, <1>3, <1>4, <1>7, <1>8 DEF TypesOk, SocketType
<1>10. CASE socket = Reading /\ muted' = muted
  <2>1. \A e : NextFits(e) => NextFits(e)'
    BY <1>2, <1>7, <1>8 DEF NextFits
  <2> QED BY <1>2, <1>3, <1>9, <1>10, <2>1, PipeMoves
<1>11. CASE socket = [call |-> "_receive", at |-> "mute"] /\ muted' = TRUE
  <2>1. socket.at = "mute"
    BY <1>11
  <2> QED BY <1>2, <1>9, <1>11, <2>1, ResetEnds
<1> QED BY <1>10, <1>11 DEF Receive

LEMMA ReceiveOtherKeeps ==
  ASSUME FeedInv, ReceiveOther
  PROVE  FeedInv'
<1>1. TypesOk /\ link.up /\ link \in LinkType
  BY DEF FeedInv, TypesOk, ReceiveOther
<1>2. link' = [link EXCEPT !.asks = @ + 1] /\ UNCHANGED <<exchange, queue, book, muted, socket, worker, torn>>
  BY DEF ReceiveOther, Resubscribed
<1>3. /\ link' \in LinkType /\ link'.wire = link.wire
      /\ link'.subscribed = link.subscribed /\ link'.up = link.up
  <2>1. link.asks + 1 \in Nat
    BY <1>1, FeedTypes
  <2> QED BY <1>1, <1>2, <2>1 DEF LinkType
<1>4. Pipe' = Pipe
  BY <1>2, <1>3 DEF Pipe
<1>5. TypesOk'
  BY <1>1, <1>2, <1>3, <1>4 DEF TypesOk
<1>6. \A e : NextFits(e) => NextFits(e)'
  BY <1>2, <1>3, <1>4 DEF NextFits
<1> QED BY <1>1, <1>2, <1>5, <1>6, PipeMoves, FeedTypes
-----------------------------------------------------------------------------
(* The steps of the ingest thread.                                         *)

LEMMA TakeKeeps ==
  ASSUME FeedInv, Take
  PROVE  FeedInv'
<1>1. TypesOk /\ BookOk /\ SteadyOk /\ ResetOk
  BY DEF FeedInv
<1>2. /\ worker.stage = "idle" /\ queue # <<>> /\ queue' = Tail(queue)
      /\ UNCHANGED <<exchange, link, book, muted, socket>>
      /\ worker' = [stage |-> "taken", frame |-> Head(queue), wasSynced |-> book.synced]
      /\ torn' = IF IsSnapshot(Head(queue)) THEN socket # Reading ELSE torn
  BY DEF Take
<1>3. /\ queue \in Seq(FrameType) /\ link.wire \in Seq(FrameType) /\ exchange.epoch \in Nat
      /\ PipeOk(Pipe, exchange.epoch, link.subscribed)
  BY <1>1, FeedTypes DEF TypesOk
<1>4. Tail(queue) \in Seq(FrameType) /\ Head(queue) \in FrameType
  BY <1>2, <1>3, HeadTailProperties
<1>5. Pipe' = Tail(Pipe) /\ Pipe # <<>> /\ Head(queue) = Head(Pipe)
  BY <1>2, <1>3, <1>4, Pipes DEF Pipe
<1>6. /\ PipeOk(Tail(Pipe), exchange.epoch, link.subscribed)
      /\ Head(Pipe).epoch \in 1..exchange.epoch
      /\ Ahead(Head(Pipe).epoch, Tail(Pipe), exchange.epoch, link.subscribed)
      /\ \A e : Ahead(e, Pipe, exchange.epoch, link.subscribed) => Fits(e, Head(Pipe))
  BY <1>3, <1>5, TailOk
<1>7. TypesOk'
  BY <1>1, <1>2, <1>4, <1>5, <1>6 DEF TypesOk
<1>8. BookOk'
  <2>1. torn' \in BOOLEAN
    BY <1>1, <1>2 DEF BookOk
  <2> QED BY <1>1, <1>2, <2>1 DEF BookOk, IsBook, IsWorker
<1>9. PICK f : f = Head(Pipe)
  OBVIOUS
<1>10. /\ worker'.frame = f /\ worker'.stage = "taken" /\ f \in FrameType /\ f.epoch \in Epochs'
       /\ torn' = IF IsSnapshot(f) THEN socket # Reading ELSE torn
  BY <1>2, <1>4, <1>5, <1>6, <1>9 DEF Epochs
<1>11. WorkerOk'
  BY <1>10 DEF WorkerOk
<1>12. NextFits(f.epoch)'
  BY <1>2, <1>5, <1>6, <1>9 DEF NextFits
<1>13. ASSUME book.synced, ~torn, socket = Reading, ~IsSnapshot(f) PROVE Continued(f.epoch)'
  <2>1. PICK e \in Epochs : Continued(e)
    BY <1>1, <1>2, <1>13 DEF SteadyOk, HandOk
  <2>2. BookIs(e)' /\ Fits(e, f)
    BY <1>2, <1>6, <1>9, <2>1 DEF Continued, BookIs, NextFits
  <2>3. f.epoch = e
    BY <1>13, <2>2 DEF Fits
  <2> QED BY <1>12, <2>2, <2>3 DEF Continued
<1>14. SteadyOk'
  <2> SUFFICES ASSUME ~torn', socket = Reading PROVE HandOk'
    BY <1>2 DEF SteadyOk
  <2>1. ~IsSnapshot(f) => ~torn
    BY <1>10
  <2> QED BY <1>2, <1>10, <1>12, <1>13, <2>1 DEF HandOk
<1>15. ResetOk'
  <2> SUFFICES ASSUME ~torn', socket # Reading
               PROVE  ~HoldsSnapshot' /\ (socket.at = "mute" => ~book.synced)
    BY <1>2 DEF ResetOk
  <2>1. ~IsSnapshot(f) /\ ~torn
    BY <1>10
  <2> QED BY <1>1, <1>10, <2>1 DEF ResetOk, HoldsSnapshot
<1> QED BY <1>7, <1>8, <1>11, <1>14, <1>15 DEF FeedInv

\* A step of the ingest thread leaves the frames on their way alone.
LEMMA PipeRests ==
  ASSUME TypesOk, UNCHANGED <<exchange, link, queue, socket>>
  PROVE  /\ TypesOk' /\ Pipe' = Pipe /\ Epochs' = Epochs
         /\ \A e : NextFits(e)' <=> NextFits(e)
  BY DEF TypesOk, Pipe, Epochs, NextFits

\* It goes on with the frame in hand: what it must leave behind.
LEMMA IngestKeeps ==
  ASSUME FeedInv, UNCHANGED <<exchange, link, queue, socket, torn>>, NEW f, f = worker.frame,
         worker.stage # "idle", worker' = [worker EXCEPT !.stage = worker'.stage],
         worker'.stage \in {"merged", "checked", "applied"},
         worker'.stage = "merged" => IsSnapshot(f), worker'.stage = "checked" => ~IsSnapshot(f),
         IsBook', book'.lastU \in Nat, book'.synced \in BOOLEAN, muted' = muted,
         book'.synced => book.synced \/ IsSnapshot(f),
         ~book'.synced => ~book.synced \/ worker'.stage = "applied",
         ~book.synced => worker.stage # "applied",
         socket = Reading /\ ~torn /\ (book'.synced \/ worker'.stage = "merged") =>
            BookIs(f.epoch)' /\ NextFits(f.epoch) /\ (worker'.stage = "checked" => f.u = book'.lastU + 1)
  PROVE  FeedInv'
<1>1. TypesOk /\ BookOk /\ WorkerOk /\ SteadyOk /\ ResetOk
  BY DEF FeedInv
<1>2. TypesOk' /\ Epochs' = Epochs /\ \A e : NextFits(e)' <=> NextFits(e)
  BY <1>1, PipeRests
<1>3. worker'.frame = f /\ IsWorker'
  BY <1>1 DEF BookOk, IsWorker
<1>4. BookOk'
  <2>1. ~muted' /\ ~book'.synced => worker'.stage = "applied" \/ socket'.at = "mute"
    BY <1>1 DEF BookOk
  <2> QED BY <1>1, <1>3, <2>1 DEF BookOk
<1>5. WorkerOk'
  BY <1>1, <1>2, <1>3 DEF WorkerOk
<1>6. SteadyOk'
  BY <1>2, <1>3 DEF SteadyOk, HandOk, Continued
<1>7. ResetOk'
  <2> SUFFICES ASSUME ~torn, socket # Reading
               PROVE  ~HoldsSnapshot' /\ (socket.at = "mute" => ~book'.synced)
    BY DEF ResetOk
  <2>1. ~IsSnapshot(f) /\ (socket.at = "mute" => ~book.synced)
    BY <1>1 DEF ResetOk, HoldsSnapshot
  <2> QED BY <1>3, <2>1 DEF HoldsSnapshot
<1> QED BY <1>2, <1>4, <1>5, <1>6, <1>7 DEF FeedInv

LEMMA ApplyKeeps ==
  ASSUME FeedInv, Apply
  PROVE  FeedInv'
<1>0. PICK f : f = worker.frame
  OBVIOUS
<1>1. /\ BookOk /\ WorkerOk /\ SteadyOk /\ worker.stage = "taken"
      /\ UNCHANGED <<exchange, link, queue, muted, socket, torn>>
  BY DEF FeedInv, Apply
<1>2. f \in FrameType /\ f.epoch \in Epochs /\ f.u \in Nat \ {0}
  BY <1>0, <1>1, FrameFields DEF WorkerOk
<1>3. IsBook /\ IsWorker /\ book.lastU \in Nat /\ book.synced \in BOOLEAN
  BY <1>1 DEF BookOk
<1>4. ASSUME NEW stage, worker' = [worker EXCEPT !.stage = stage]
      PROVE  worker'.stage = stage
  BY <1>3, <1>4 DEF IsWorker
<1>5. ASSUME socket = Reading, ~torn
      PROVE  /\ IsSnapshot(f) => NextFits(f.epoch)
             /\ ~IsSnapshot(f) /\ book.synced => BookIs(f.epoch) /\ NextFits(f.epoch)
  BY <1>0, <1>1, <1>5 DEF SteadyOk, HandOk, Continued
<1>6. CASE /\ IsSnapshot(f)
           /\ book' = [book EXCEPT !.levels = BookAt(f.epoch, f.u), !.lastU = f.u]
           /\ worker' = [worker EXCEPT !.stage = "merged"]
  <2>1. IsBook' /\ book'.levels = BookAt(f.epoch, f.u) /\ book'.lastU = f.u /\ book'.synced = book.synced
    BY <1>3, <1>6 DEF IsBook
  <2>2. worker'.stage = "merged"
    BY <1>4, <1>6
  <2>3. BookIs(f.epoch)'
    BY <1>2, <2>1 DEF BookIs
  <2> QED BY <1>0, <1>1, <1>2, <1>3, <1>5, <1>6, <2>1, <2>2, <2>3, IngestKeeps
<1>7. CASE /\ ~IsSnapshot(f) /\ Continues(f) /\ UNCHANGED book
           /\ worker' = [worker EXCEPT !.stage = "checked"]
  <2>1. IsBook' /\ worker'.stage = "checked"
    BY <1>3, <1>4, <1>7 DEF IsBook
  <2>2. ASSUME socket = Reading, ~torn, book.synced
        PROVE  BookIs(f.epoch)' /\ NextFits(f.epoch) /\ f.u = book'.lastU + 1
    BY <1>5, <1>7, <2>2 DEF BookIs, Continues
  <2> QED BY <1>0, <1>1, <1>3, <1>7, <2>1, <2>2, IngestKeeps
<1>8. CASE /\ ~IsSnapshot(f) /\ ~Continues(f)
           /\ book' = IF IsGap(f) THEN [book EXCEPT !.synced = FALSE] ELSE book
           /\ worker' = [worker EXCEPT !.stage = "applied"]
  <2>1. worker'.stage = "applied"
    BY <1>4, <1>8
  <2>2. /\ IsBook' /\ book'.levels = book.levels /\ book'.lastU = book.lastU
        /\ book'.synced \in BOOLEAN /\ (book'.synced => book.synced)
    BY <1>3, <1>8 DEF IsBook
  <2>3. ASSUME socket = Reading, ~torn, book'.synced PROVE BookIs(f.epoch)' /\ NextFits(f.epoch)
    BY <1>5, <1>8, <2>2, <2>3 DEF BookIs
  <2> QED BY <1>0, <1>1, <1>3, <1>8, <2>1, <2>2, <2>3, IngestKeeps
<1> QED BY <1>0, <1>6, <1>7, <1>8 DEF Apply

LEMMA FinishSnapshotKeeps ==
  ASSUME FeedInv, FinishSnapshot
  PROVE  FeedInv'
<1>0. PICK f : f = worker.frame
  OBVIOUS
<1>1. /\ BookOk /\ WorkerOk /\ SteadyOk /\ worker.stage = "merged"
      /\ UNCHANGED <<exchange, link, queue, muted, socket, torn>>
      /\ book' = [book EXCEPT !.synced = TRUE] /\ worker' = [worker EXCEPT !.stage = "applied"]
  BY DEF FeedInv, FinishSnapshot
<1>2. /\ IsBook' /\ book'.synced = TRUE /\ book'.levels = book.levels /\ book'.lastU = book.lastU
      /\ book.lastU \in Nat /\ worker'.stage = "applied"
  BY <1>1 DEF BookOk, IsBook, IsWorker
<1>3. IsSnapshot(f)
  BY <1>0, <1>1 DEF WorkerOk
<1>4. ASSUME socket = Reading, ~torn PROVE BookIs(f.epoch)' /\ NextFits(f.epoch)
  BY <1>0, <1>1, <1>2, <1>4 DEF SteadyOk, HandOk, Continued, BookIs
<1> QED BY <1>0, <1>1, <1>2, <1>3, <1>4, IngestKeeps

LEMMA MergeDeltaKeeps ==
  ASSUME FeedInv, MergeDelta
  PROVE  FeedInv'
<1>0. PICK f : f = worker.frame
  OBVIOUS
<1>1. /\ BookOk /\ WorkerOk /\ SteadyOk /\ worker.stage = "checked"
      /\ UNCHANGED <<exchange, link, queue, muted, socket, torn>>
      /\ book' = [book EXCEPT !.levels = Merged(@, f), !.lastU = f.u]
      /\ worker' = [worker EXCEPT !.stage = "applied"]
  BY <1>0 DEF FeedInv, MergeDelta
<1>2. f \in FrameType /\ f.u \in Nat \ {0}
  BY <1>0, <1>1, FrameFields DEF WorkerOk
<1>3. /\ IsBook' /\ book'.synced = book.synced /\ book'.levels = Merged(book.levels, f) /\ book'.lastU = f.u
      /\ book.synced \in BOOLEAN /\ book.lastU \in Nat /\ worker'.stage = "applied"
  BY <1>1 DEF BookOk, IsBook, IsWorker
<1>4. ASSUME socket = Reading, ~torn, book.synced PROVE BookIs(f.epoch)' /\ NextFits(f.epoch)
  <2>1. BookIs(f.epoch) /\ NextFits(f.epoch) /\ f.u = book.lastU + 1
    BY <1>0, <1>1, <1>4 DEF SteadyOk, HandOk, Continued
  <2>2. Merged(book.levels, f) = BookAt(f.epoch, f.u)
    BY <1>3, <2>1, BookAtNext DEF Merged, BookIs
  <2> QED BY <1>2, <1>3, <2>1, <2>2 DEF BookIs
<1> QED BY <1>0, <1>1, <1>2, <1>3, <1>4, IngestKeeps

LEMMA FinishKeeps ==
  ASSUME FeedInv, Finish
  PROVE  FeedInv'
<1>1. /\ TypesOk /\ BookOk /\ SteadyOk /\ ResetOk /\ worker.stage = "applied"
      /\ UNCHANGED <<exchange, link, queue, socket, torn>> /\ worker' = Idle
  BY DEF FeedInv, Finish
<1>2. TypesOk' /\ Epochs' = Epochs /\ \A e : NextFits(e)' <=> NextFits(e)
  BY <1>1, PipeRests
<1>3. IsWorker' /\ worker'.stage = "idle"
  BY <1>1 DEF Idle, IsWorker
<1>4. WorkerOk'
  BY <1>3 DEF WorkerOk
<1>5. CASE muted' = TRUE /\ book' = [levels |-> EmptyBook, synced |-> FALSE, lastU |-> 0]
  <2> HIDE DEF EmptyBook
  <2>1. BookOk'
    BY <1>1, <1>3, <1>5 DEF BookOk, IsBook
  <2>2. SteadyOk'
    BY <1>3, <1>5 DEF SteadyOk, HandOk
  <2>3. ResetOk'
    BY <1>3, <1>5 DEF ResetOk, HoldsSnapshot
  <2> QED BY <1>2, <1>4, <2>1, <2>2, <2>3 DEF FeedInv
<1>6. CASE muted' = ~book.synced /\ UNCHANGED book
  <2>1. BookOk'
    BY <1>1, <1>3, <1>6 DEF BookOk, IsBook
  <2>2. \A e : Continued(e) => Continued(e)'
    BY <1>2, <1>6 DEF Continued, BookIs
  <2>3. ASSUME ~torn, socket = Reading, book.synced
        PROVE  \E e \in Epochs' : Continued(e)'
    <3>1. Continued(worker.frame.epoch) /\ worker.frame.epoch \in Epochs
      BY <1>1, <2>3 DEF SteadyOk, HandOk, FeedInv, WorkerOk
    <3> QED BY <1>2, <2>2, <3>1
  <2>4. SteadyOk'
    BY <1>1, <1>3, <1>6, <2>3 DEF SteadyOk, HandOk
  <2>5. ResetOk'
    BY <1>1, <1>3, <1>6 DEF ResetOk, HoldsSnapshot
  <2> QED BY <1>2, <1>4, <2>1, <2>4, <2>5 DEF FeedInv
<1> QED BY <1>1, <1>5, <1>6 DEF Finish

LEMMA FeedRests ==
  ASSUME FeedInv, UNCHANGED <<exchange, link, queue, book, muted, socket, worker, torn>>
  PROVE  FeedInv'
<1>1. TypesOk' /\ Epochs' = Epochs /\ \A e : NextFits(e)' <=> NextFits(e)
  BY PipeRests DEF FeedInv
<1>2. \A e : NextFits(e) => NextFits(e)'
  BY <1>1
<1>3. exchange'.epoch = exchange.epoch /\ exchange.epoch \in Nat
  BY FeedTypes DEF FeedInv
<1> QED BY <1>1, <1>2, <1>3, PipeMoves
-----------------------------------------------------------------------------
(* The theorems.                                                           *)

LEMMA FeedStarts ==
  ASSUME Init
  PROVE  FeedInv
<1>1. /\ exchange = [epoch |-> 1, u |-> 1, lost |-> 0] /\ link = NoLink /\ queue = <<>>
      /\ book = [levels |-> EmptyBook, synced |-> FALSE, lastU |-> 0] /\ muted = TRUE
      /\ socket = Reading /\ worker = Idle /\ torn = FALSE
  BY DEF Init
<1>2. exchange \in ExchangeType
  <2>1. 1 \in 1..MaxEpochs
    BY FeedAssumption
  <2> QED BY <1>1, <2>1 DEF ExchangeType
<1>3. link \in LinkType /\ link.wire = <<>> /\ ~link.subscribed /\ link.asks = 0
  BY <1>1 DEF NoLink, LinkType
<1>4. Pipe = <<>>
  BY <1>1, <1>3, ConcatEmptySeq DEF Pipe
<1>5. TypesOk
  BY <1>1, <1>2, <1>3, <1>4 DEF TypesOk, PipeOk, SocketType
<1> HIDE DEF EmptyBook
<1>6. BookOk /\ WorkerOk
  BY <1>1 DEF BookOk, WorkerOk, IsBook, IsWorker, Idle
<1>7. SteadyOk /\ ResetOk
  BY <1>1 DEF SteadyOk, ResetOk, HandOk, Idle
<1> QED BY <1>5, <1>6, <1>7 DEF FeedInv

LEMMA FeedGoesOn ==
  ASSUME FeedInv, [FeedsNext]_<<part, vars, recorderVars, candleVars>>
  PROVE  FeedInv'
<1>1. CASE SocketSteps
  BY <1>1, ConnectKeeps, DropKeeps, ClearLevelsKeeps, LoseSyncKeeps, SubscribeKeeps, ReceiveKeeps
     DEF SocketSteps
<1>2. CASE IngestSteps
  BY <1>2, TakeKeeps, ApplyKeeps, FinishSnapshotKeeps, MergeDeltaKeeps, FinishKeeps DEF IngestSteps
<1>3. CASE DebounceEnds
  BY <1>3, FeedRests DEF DebounceEnds
<1>4. CASE Next
  BY <1>1, <1>2, <1>3, <1>4, UpdateKeeps, LoseUpdateKeeps, RestartKeeps, ServeKeeps, DisconnectKeeps,
     ReceiveOtherKeeps DEF Next
<1>5. CASE UNCHANGED vars
  BY <1>5, FeedRests DEF vars
<1> QED BY <1>4, <1>5 DEF FeedsNext

\* Wherever the exchange's epoch changes in the frames on their way a snapshot
\* stands, whatever is lost, dropped or reconnected (BybitStream, OrderBook.apply).
THEOREM FramesFit == FeedsSpec => []FeedInv
<1>1. FeedsInit => FeedInv
  BY FeedStarts DEF FeedsInit
<1>2. FeedInv /\ [FeedsNext]_<<part, vars, recorderVars, candleVars>> => FeedInv'
  BY FeedGoesOn
<1> QED BY <1>1, <1>2, PTL DEF FeedsSpec

\* Between two frames and two resets, a book that says it is in sync is the exchange's
\* book of some moment, update for update, and signals are computed from no other: a gap,
\* a drop and a reset each end the sync, wherever they fall, and an old frame never
\* follows a new book (OrderBook.apply, BybitLeadStream._receive,
\* SymbolState.on_orderbook).  The one exception is the book of a snapshot that a reset
\* overlapped, which nothing in the code tells from another.
THEOREM SyncedBooksAreTrue == FeedsSpec => []SyncedBookIsTrue
<1>1. FeedInv => SyncedBookIsTrue
  <2> SUFFICES ASSUME FeedInv, worker.stage = "idle", socket = Reading
               PROVE  (book.synced => IsTrueBook \/ torn) /\ (~muted => book.synced)
    BY DEF SyncedBookIsTrue, AtRest
  <2>1. \A e \in Epochs : e \in 1..MaxEpochs
    <3>1. exchange.epoch \in 1..MaxEpochs /\ exchange.epoch \in Nat /\ MaxEpochs \in Nat
      BY FeedTypes, FeedAssumption DEF FeedInv
    <3> QED BY <3>1 DEF Epochs
  <2>2. \A e : Continued(e) => book.lastU # 0 /\ book.levels = BookAt(e, book.lastU)
    BY DEF Continued, BookIs
  <2>3. book.synced /\ ~torn => \E e \in Epochs : Continued(e)
    BY DEF FeedInv, SteadyOk, HandOk
  <2>4. ~muted => book.synced
    BY DEF FeedInv, BookOk, Reading
  <2> QED BY <2>1, <2>2, <2>3, <2>4 DEF IsTrueBook
<1> QED BY FramesFit, <1>1, PTL
-----------------------------------------------------------------------------
(* Bars and buckets.                                                       *)

TradeType == [at : Nat, price : Nat]
BarType == [bucket : Nat, open : Nat, high : Nat, low : Nat, close : Nat, trades : Nat]

BucketOf(m, i) == Candles!Bucket(m[i].at)
InOf(m, b) == {i \in DOMAIN m : BucketOf(m, i) = b}
BeforeOf(m, b) == {i \in DOMAIN m : BucketOf(m, i) < b}
PaidIn(m, P) == {m[i].price : i \in P}

\* x is the least, or the greatest, of T.
IsLeast(x, T) == x \in T /\ \A y \in T : x <= y
IsGreatest(x, T) == x \in T /\ \A y \in T : y <= x

\* A bar is that of the trades at the positions P.
Sums(bar, m, b, P) ==
    /\ bar = [bucket |-> b, open |-> bar.open, high |-> bar.high, low |-> bar.low,
              close |-> bar.close, trades |-> Cardinality(P)]
    /\ \E f \in P : IsLeast(f, P) /\ bar.open = m[f].price
    /\ \E l \in P : IsGreatest(l, P) /\ bar.close = m[l].price
    /\ IsGreatest(bar.high, PaidIn(m, P)) /\ IsLeast(bar.low, PaidIn(m, P))

\* The bar of a bucket without a trade repeats the last price before it.
Repeats(bar, m, b) ==
    \E l \in BeforeOf(m, b) :
        IsGreatest(l, BeforeOf(m, b)) /\ bar = Candles!Flat(b, m[l].price)

\* The exchange's bar of a bucket.
IsBarOf(bar, m, b) ==
    IF InOf(m, b) # {} THEN Sums(bar, m, b, InOf(m, b)) ELSE Repeats(bar, m, b)

\* What Selections says of lists holds of the instance's lists.
LEMMA SameCardinality == \A P : Candles!Cardinality(P) = Cardinality(P)
  BY DEF Candles!Cardinality, Cardinality

LEMMA SameSelections == \A s, P : Candles!Picked(s, P) = Picked(s, P)
<1>1. \A P, k : Candles!Nth(P, k) = Nth(P, k)
  BY SameCardinality DEF Candles!Nth, Nth
<1> QED BY <1>1, SameCardinality, Zenon DEF Candles!Picked, Picked

\* The least and the greatest of a set are what the specification calls so.
LEMMA ExtremesAre ==
  ASSUME NEW T \in SUBSET Int, NEW x
  PROVE  /\ IsLeast(x, T) => Candles!Min(T) = x
         /\ IsGreatest(x, T) => Candles!Max(T) = x
<1>1. ASSUME IsLeast(x, T) PROVE Candles!Min(T) = x
  <2>1. \A y \in T : (\A z \in T : y <= z) => y = x
    BY <1>1 DEF IsLeast
  <2>2. x \in T /\ \A z \in T : x <= z
    BY <1>1 DEF IsLeast
  <2> QED BY <2>1, <2>2 DEF Candles!Min
<1>2. ASSUME IsGreatest(x, T) PROVE Candles!Max(T) = x
  <2>1. \A y \in T : (\A z \in T : y >= z) => y = x
    BY <1>2 DEF IsGreatest
  <2>2. x \in T /\ \A z \in T : x >= z
    BY <1>2 DEF IsGreatest
  <2> QED BY <2>1, <2>2 DEF Candles!Max
<1> QED BY <1>1, <1>2

\* What the trades of a market are made of.
LEMMA TradesAre ==
  ASSUME NEW m \in Seq(TradeType)
  PROVE  /\ Len(m) \in Nat /\ DOMAIN m = 1..Len(m)
         /\ \A i \in 1..Len(m) : m[i] \in TradeType /\ m[i].at \in Nat /\ m[i].price \in Nat
         /\ \A b : InOf(m, b) \in SUBSET (1..Len(m)) /\ BeforeOf(m, b) \in SUBSET (1..Len(m))
         /\ \A P \in SUBSET (1..Len(m)) : PaidIn(m, P) \in SUBSET Nat
<1>1. Len(m) \in Nat /\ DOMAIN m = 1..Len(m) /\ \A i \in 1..Len(m) : m[i] \in TradeType
  BY RangeIs, LenProperties
<1>2. \A i \in 1..Len(m) : m[i].at \in Nat /\ m[i].price \in Nat
  BY <1>1 DEF TradeType
<1>3. \A b : InOf(m, b) \in SUBSET (1..Len(m)) /\ BeforeOf(m, b) \in SUBSET (1..Len(m))
  BY <1>1 DEF InOf, BeforeOf
<1>4. \A P \in SUBSET (1..Len(m)) : PaidIn(m, P) \in SUBSET Nat
  BY <1>2 DEF PaidIn
<1> QED BY <1>1, <1>2, <1>3, <1>4

\* A bar that is the exchange's is the one the specification calls so.
LEMMA TrueBarIs ==
  ASSUME market \in Seq(TradeType), NEW b \in Nat, NEW bar, IsBarOf(bar, market, b)
  PROVE  bar = Candles!TrueBar(b)
<1>1. /\ Candles!InBucket(b) = InOf(market, b) /\ Candles!Earlier(b) = BeforeOf(market, b)
      /\ \A P : Candles!Paid(P) = PaidIn(market, P)
  BY DEF Candles!InBucket, Candles!Earlier, Candles!Paid, InOf, BeforeOf, PaidIn, BucketOf
<1>2. InOf(market, b) \in SUBSET Int /\ BeforeOf(market, b) \in SUBSET Int
      /\ PaidIn(market, InOf(market, b)) \in SUBSET Int
  BY TradesAre
<1>3. CASE InOf(market, b) # {}
  <2> DEFINE P == InOf(market, b)
  <2>1. Sums(bar, market, b, P)
    BY <1>3 DEF IsBarOf
  <2>2. PICK f \in P : IsLeast(f, P) /\ bar.open = market[f].price
    BY <2>1 DEF Sums
  <2>3. PICK l \in P : IsGreatest(l, P) /\ bar.close = market[l].price
    BY <2>1 DEF Sums
  <2>4. IsGreatest(bar.high, PaidIn(market, P)) /\ IsLeast(bar.low, PaidIn(market, P))
    BY <2>1 DEF Sums
  <2> HIDE DEF P
  <2>5. f = Candles!Min(P) /\ l = Candles!Max(P)
    BY <1>2, <2>2, <2>3, ExtremesAre DEF P
  <2>6. bar.high = Candles!Max(PaidIn(market, P)) /\ bar.low = Candles!Min(PaidIn(market, P))
    BY <1>2, <2>4, ExtremesAre DEF P
  <2>7. bar = Candles!BarOf(b, P)
    BY <1>1, <2>1, <2>2, <2>3, <2>5, <2>6, SameCardinality DEF Sums, Candles!BarOf
  <2> QED BY <1>1, <1>3, <2>7 DEF Candles!TrueBar, P
<1>4. CASE InOf(market, b) = {}
  <2>1. PICK l \in BeforeOf(market, b) :
            IsGreatest(l, BeforeOf(market, b)) /\ bar = Candles!Flat(b, market[l].price)
    BY <1>4 DEF IsBarOf, Repeats
  <2>2. l = Candles!Max(BeforeOf(market, b))
    BY <1>2, <2>1, ExtremesAre
  <2> QED BY <1>1, <1>4, <2>1, <2>2 DEF Candles!TrueBar
<1> QED BY <1>3, <1>4
-----------------------------------------------------------------------------
(* What a bar keeps as the market goes on.                                 *)

LitIn(d, b) == \A at \in b * BarLength .. (b + 1) * BarLength - 1 : at \notin d

\* Buckets follow each other without a gap, and a bucket is over when its last tick is.
LEMMA Buckets ==
  /\ \A at \in Nat : Candles!Bucket(at) \in Nat
  /\ \A a, c \in Nat : a <= c => Candles!Bucket(a) <= Candles!Bucket(c)
  /\ \A d : \A at \in Nat : LitIn(d, Candles!Bucket(at)) => at \notin d
  /\ \A b, n \in Nat : b < Candles!Bucket(n) <=> (b + 1) * BarLength <= n
<1>1. BarLength \in Nat \ {0}
  BY CandleAssumption
<1>2. ASSUME NEW at \in Nat
      PROVE  /\ Candles!Bucket(at) \in Nat
             /\ Candles!Bucket(at) * BarLength <= at
             /\ at < (Candles!Bucket(at) + 1) * BarLength
  BY <1>1 DEF Candles!Bucket
<1>3. ASSUME NEW a \in Nat, NEW c \in Nat, a <= c
      PROVE  Candles!Bucket(a) <= Candles!Bucket(c)
  BY <1>1, <1>3 DEF Candles!Bucket
<1>4. ASSUME NEW at \in Nat, NEW d, LitIn(d, Candles!Bucket(at))
      PROVE  at \notin d
  <2> DEFINE lo == Candles!Bucket(at) * BarLength
             hi == (Candles!Bucket(at) + 1) * BarLength
  <2>1. lo <= at /\ at < hi /\ lo \in Nat /\ hi \in Nat
    BY <1>1, <1>2
  <2>2. \A c \in lo..(hi - 1) : c \notin d
    BY <1>4 DEF LitIn
  <2> HIDE DEF lo, hi
  <2>3. at \in lo..(hi - 1)
    BY <2>1
  <2> QED BY <2>2, <2>3
<1>5. ASSUME NEW b \in Nat, NEW n \in Nat
      PROVE  b < Candles!Bucket(n) <=> (b + 1) * BarLength <= n
  <2> DEFINE c == Candles!Bucket(n)
  <2>1. c \in Nat /\ c * BarLength <= n /\ n < (c + 1) * BarLength
    BY <1>2
  <2> HIDE DEF c
  <2>2. c * BarLength \in Nat /\ (b + 1) * BarLength \in Nat /\ (c + 1) * BarLength \in Nat
    BY <1>1, <2>1
  <2>3. b + 1 <= c => (b + 1) * BarLength <= c * BarLength
    BY <1>1, <2>1
  <2>4. c + 1 <= b + 1 => (c + 1) * BarLength <= (b + 1) * BarLength
    BY <1>1, <2>1
  <2>5. c <= b => c + 1 <= b + 1
    BY <2>1
  <2>6. b < c => b + 1 <= c
    BY <2>1
  <2>7. b < c \/ c <= b
    BY <2>1
  <2>8. (b + 1) * BarLength <= n <=> b < c
    BY <2>1, <2>2, <2>3, <2>4, <2>5, <2>6, <2>7
  <2> QED BY <2>8 DEF c
<1> QED BY <1>2, <1>3, <1>4, <1>5

\* A later tick is of the same bucket or of a later one.
LEMMA BucketOrder ==
  /\ \A at \in Nat : Candles!Bucket(at) \in Nat
  /\ \A a, c \in Nat : a <= c => Candles!Bucket(a) <= Candles!Bucket(c)
BY Buckets, Zenon

\* A bar opened with a trade is that of this trade.
LEMMA OpenedSums ==
  ASSUME NEW m \in Seq(TradeType), NEW i \in 1..Len(m)
  PROVE  /\ Candles!Opened(m[i]) \in BarType
         /\ Candles!Opened(m[i]).bucket = BucketOf(m, i) /\ BucketOf(m, i) \in Nat
         /\ Sums(Candles!Opened(m[i]), m, BucketOf(m, i), {i})
<1>1. m[i].at \in Nat /\ m[i].price \in Nat /\ BucketOf(m, i) \in Nat
  BY TradesAre, BucketOrder DEF BucketOf
<1>2. Candles!Opened(m[i]) = [bucket |-> BucketOf(m, i), open |-> m[i].price, high |-> m[i].price,
                              low |-> m[i].price, close |-> m[i].price, trades |-> 1]
  BY DEF Candles!Opened, BucketOf
<1>3. Cardinality({i}) = 1
  BY FS_Singleton
<1>4. PaidIn(m, {i}) = {m[i].price}
  BY DEF PaidIn
<1>5. IsLeast(i, {i}) /\ IsGreatest(i, {i}) /\ IsLeast(m[i].price, {m[i].price})
      /\ IsGreatest(m[i].price, {m[i].price})
  BY <1>1 DEF IsLeast, IsGreatest
<1> DEFINE bar == Candles!Opened(m[i])
<1> HIDE DEF bar
<1>6. /\ bar.bucket = BucketOf(m, i) /\ bar.open = m[i].price /\ bar.high = m[i].price
      /\ bar.low = m[i].price /\ bar.close = m[i].price
      /\ bar = [bucket |-> BucketOf(m, i), open |-> bar.open, high |-> bar.high, low |-> bar.low,
                close |-> bar.close, trades |-> Cardinality({i})]
  BY <1>2, <1>3 DEF bar
<1>7. bar \in BarType
  BY <1>1, <1>2 DEF BarType, bar
<1>8. Sums(bar, m, BucketOf(m, i), {i})
  BY <1>4, <1>5, <1>6 DEF Sums
<1> QED BY <1>1, <1>6, <1>7, <1>8 DEF bar

\* A bar extended with a later trade is that of what it was and this trade.
LEMMA ExtendedSums ==
  ASSUME NEW m \in Seq(TradeType), NEW n \in Nat, n + 1 <= Len(m), NEW P \in SUBSET (1..n),
         NEW b, NEW bar \in BarType, Sums(bar, m, b, P)
  PROVE  Sums(Candles!Extended(bar, m[n + 1]), m, b, P \cup {n + 1})
<1> DEFINE t == m[n + 1]
           new == Candles!Extended(bar, t)
           Q == P \cup {n + 1}
           hi == IF bar.high >= t.price THEN bar.high ELSE t.price
           lo == IF bar.low <= t.price THEN bar.low ELSE t.price
<1>1. /\ t.price \in Nat /\ n + 1 \notin P
      /\ \A i \in P : i \in Int /\ i < n + 1 /\ m[i].price \in Nat
      /\ bar.high \in Nat /\ bar.low \in Nat
  <2>1. /\ Len(m) \in Nat
        /\ \A i \in 1..Len(m) : m[i].price \in Nat
    BY TradesAre
  <2>2. n + 1 \in 1..Len(m) /\ \A i \in P : i \in 1..Len(m) /\ i \in Int /\ i < n + 1
    BY <2>1
  <2> QED BY <2>1, <2>2 DEF BarType
<1>2. new = [bucket |-> bar.bucket, open |-> bar.open, high |-> hi, low |-> lo,
             close |-> t.price, trades |-> bar.trades + 1]
  <2>1. bar = [bucket |-> bar.bucket, open |-> bar.open, high |-> bar.high, low |-> bar.low,
               close |-> bar.close, trades |-> bar.trades]
    BY DEF BarType
  <2>2. new = [bar EXCEPT !.high = hi, !.low = lo, !.close = t.price, !.trades = bar.trades + 1]
    BY DEF Candles!Extended, Candles!Higher, Candles!Lower
  <2> HIDE DEF hi, lo, new
  <2> QED BY <2>1, <2>2
<1>3. bar.bucket = b /\ bar.trades = Cardinality(P) /\ Cardinality(Q) = Cardinality(P) + 1
  <2>1. bar = [bucket |-> b, open |-> bar.open, high |-> bar.high, low |-> bar.low,
               close |-> bar.close, trades |-> Cardinality(P)]
    BY DEF Sums
  <2>2. IsFiniteSet(P)
    BY NthPosition
  <2>3. Cardinality(Q) = Cardinality(P) + 1
    BY <1>1, <2>2, FS_AddElement
  <2> HIDE DEF Q
  <2> QED BY <2>1, <2>3
<1>4. \E f \in Q : IsLeast(f, Q) /\ bar.open = m[f].price
  <2>1. PICK f \in P : IsLeast(f, P) /\ bar.open = m[f].price
    BY DEF Sums
  <2>2. f \in Q /\ f <= n + 1 /\ (\A y \in P : f <= y) /\ \A y \in Q : y \in P \/ y = n + 1
    BY <1>1, <2>1 DEF IsLeast
  <2> HIDE DEF Q
  <2>3. IsLeast(f, Q)
    BY <2>2 DEF IsLeast
  <2> QED BY <2>1, <2>2, <2>3
<1>5. IsGreatest(n + 1, Q)
  <2>1. n + 1 \in Q /\ \A y \in Q : y \in 1..n \/ y = n + 1
    OBVIOUS
  <2> HIDE DEF Q
  <2>2. \A y \in Q : y <= n + 1
    BY <2>1
  <2> QED BY <2>1, <2>2 DEF IsGreatest
<1>6. PaidIn(m, Q) = PaidIn(m, P) \cup {t.price} /\ PaidIn(m, P) \subseteq Nat
  BY <1>1 DEF PaidIn
<1>7. IsGreatest(hi, PaidIn(m, Q)) /\ IsLeast(lo, PaidIn(m, Q))
  <2>1. IsGreatest(bar.high, PaidIn(m, P)) /\ IsLeast(bar.low, PaidIn(m, P))
    BY DEF Sums
  <2>2. /\ hi \in {bar.high, t.price} /\ bar.high <= hi /\ t.price <= hi
        /\ lo \in {bar.low, t.price} /\ lo <= bar.low /\ lo <= t.price
        /\ hi \in Nat /\ lo \in Nat
    BY <1>1
  <2> HIDE DEF hi, lo, t
  <2>3. IsGreatest(hi, PaidIn(m, Q))
    <3>1. \A y \in PaidIn(m, P) : y \in Nat /\ y <= bar.high
      BY <1>6, <2>1 DEF IsGreatest
    <3>2. \A y \in PaidIn(m, P) : y <= hi
      BY <1>1, <2>2, <3>1
    <3>3. hi \in PaidIn(m, Q)
      BY <1>6, <2>1, <2>2 DEF IsGreatest
    <3> QED BY <1>6, <2>2, <3>2, <3>3 DEF IsGreatest
  <2>4. IsLeast(lo, PaidIn(m, Q))
    <3>1. \A y \in PaidIn(m, P) : y \in Nat /\ bar.low <= y
      BY <1>6, <2>1 DEF IsLeast
    <3>2. \A y \in PaidIn(m, P) : lo <= y
      BY <1>1, <2>2, <3>1
    <3>3. lo \in PaidIn(m, Q)
      BY <1>6, <2>1, <2>2 DEF IsLeast
    <3> QED BY <1>6, <2>2, <3>2, <3>3 DEF IsLeast
  <2> QED BY <2>3, <2>4
<1> HIDE DEF new, Q, hi, lo
<1>8. new = [bucket |-> b, open |-> new.open, high |-> new.high, low |-> new.low,
             close |-> new.close, trades |-> Cardinality(Q)]
      /\ new.open = bar.open /\ new.high = hi /\ new.low = lo /\ new.close = m[n + 1].price
  BY <1>2, <1>3
<1>9. n + 1 \in Q
  BY DEF Q
<1>10. Sums(new, m, b, Q)
  BY <1>4, <1>5, <1>7, <1>8, <1>9 DEF Sums
<1> QED BY <1>10 DEF new, Q

\* What is said of positions of the market stays true when it grows.
LEMMA SumsStand ==
  ASSUME NEW m \in Seq(TradeType), NEW t \in TradeType, NEW b, NEW bar,
         NEW P \in SUBSET (1..Len(m)), Sums(bar, m, b, P)
  PROVE  Sums(bar, Append(m, t), b, P)
<1> DEFINE n == Append(m, t)
<1>1. \A i \in P : n[i] = m[i]
  BY Appended
<1> HIDE DEF n
<1>2. PaidIn(n, P) = PaidIn(m, P)
  BY <1>1 DEF PaidIn
<1> QED BY <1>1, <1>2 DEF Sums, n

\* Trades of other, later buckets leave the exchange's bar what it is.
LEMMA BarStands ==
  ASSUME NEW m \in Seq(TradeType), NEW t \in TradeType, NEW b \in Nat, NEW bar,
         IsBarOf(bar, m, b), b < Candles!Bucket(t.at)
  PROVE  IsBarOf(bar, Append(m, t), b)
<1> DEFINE n == Append(m, t)
<1>1. /\ n \in Seq(TradeType) /\ Len(m) \in Nat
      /\ DOMAIN m = 1..Len(m) /\ DOMAIN n = 1..Len(m) + 1
      /\ \A i \in DOMAIN m : n[i] = m[i]
      /\ n[Len(m) + 1] = t
  BY Appended
<1> HIDE DEF n
<1>2. Candles!Bucket(t.at) \in Nat /\ \A i \in 1..Len(m) : BucketOf(n, i) = BucketOf(m, i)
  BY <1>1, BucketOrder DEF TradeType, BucketOf
<1>3. BucketOf(n, Len(m) + 1) = Candles!Bucket(t.at)
  BY <1>1 DEF BucketOf
<1>4. InOf(n, b) = InOf(m, b) /\ BeforeOf(n, b) = BeforeOf(m, b)
  <2>1. \A i \in 1..Len(m) + 1 : i \in 1..Len(m) \/ i = Len(m) + 1
    BY <1>1
  <2>2. \A i \in 1..Len(m) : i \in 1..Len(m) + 1
    BY <1>1
  <2>3. ~(Candles!Bucket(t.at) = b) /\ ~(Candles!Bucket(t.at) < b)
    BY <1>2
  <2>4. InOf(n, b) = InOf(m, b)
    BY <1>1, <1>2, <1>3, <2>1, <2>2, <2>3, Zenon DEF InOf
  <2>5. BeforeOf(n, b) = BeforeOf(m, b)
    BY <1>1, <1>2, <1>3, <2>1, <2>2, <2>3, Zenon DEF BeforeOf
  <2> QED BY <2>4, <2>5
<1>5. CASE InOf(m, b) # {}
  <2>1. InOf(m, b) \in SUBSET (1..Len(m))
    BY TradesAre
  <2>2. Sums(bar, n, b, InOf(m, b))
    BY <1>5, <2>1, SumsStand DEF IsBarOf, n
  <2> QED BY <1>4, <1>5, <2>2 DEF IsBarOf, n
<1>6. CASE InOf(m, b) = {}
  <2>1. \A l \in BeforeOf(m, b) : n[l] = m[l]
    BY <1>1 DEF BeforeOf
  <2>2. Repeats(bar, n, b)
    BY <1>4, <1>6, <2>1 DEF IsBarOf, Repeats
  <2> QED BY <1>4, <1>6, <2>2 DEF IsBarOf, n
<1> QED BY <1>5, <1>6

Known(m, b) == \E i \in 1..Len(m) : BucketOf(m, i) <= b

\* The exchange answers for every bucket since its first trade.
LEMMA BarIsTold ==
  ASSUME market \in Seq(TradeType), NEW b \in Nat, Known(market, b)
  PROVE  /\ Candles!TrueBar(b) \in BarType /\ Candles!TrueBar(b).bucket = b
         /\ IsBarOf(Candles!TrueBar(b), market, b)
<1>1. /\ Len(market) \in Nat /\ DOMAIN market = 1..Len(market)
      /\ \A i \in 1..Len(market) : market[i].at \in Nat /\ market[i].price \in Nat
                                  /\ BucketOf(market, i) \in Nat
  BY TradesAre, BucketOrder DEF BucketOf
<1> DEFINE price == [i \in 1..Len(market) |-> market[i].price]
           place == [i \in 1..Len(market) |-> i]
<1>2. ASSUME NEW P \in SUBSET (1..Len(market)), P # {}
      PROVE  /\ \E f \in P : IsLeast(f, P)
             /\ \E l \in P : IsGreatest(l, P)
             /\ \E x \in PaidIn(market, P) : IsGreatest(x, PaidIn(market, P))
             /\ \E x \in PaidIn(market, P) : IsLeast(x, PaidIn(market, P))
  <2>1. (\A i \in 1..Len(market) : price[i] \in Nat) /\ (\A i \in 1..Len(market) : place[i] \in Nat)
    BY <1>1
  <2> HIDE DEF price, place
  <2>2. /\ \E i \in P : \A j \in P : place[i] <= place[j]
        /\ \E i \in P : \A j \in P : place[j] <= place[i]
        /\ \E i \in P : \A j \in P : price[i] <= price[j]
        /\ \E i \in P : \A j \in P : price[j] <= price[i]
    <3>1. \E i \in P : \A j \in P : place[i] <= place[j]
      BY <1>1, <1>2, <2>1, LeastHeld
    <3>2. \E i \in P : \A j \in P : place[j] <= place[i]
      BY <1>1, <1>2, <2>1, GreatestHeld
    <3>3. \E i \in P : \A j \in P : price[i] <= price[j]
      BY <1>1, <1>2, <2>1, LeastHeld
    <3>4. \E i \in P : \A j \in P : price[j] <= price[i]
      BY <1>1, <1>2, <2>1, GreatestHeld
    <3> QED BY <3>1, <3>2, <3>3, <3>4
  <2>3. \A i \in P : place[i] = i /\ price[i] = market[i].price
    BY DEF place, price
  <2>4. (\E f \in P : IsLeast(f, P)) /\ (\E l \in P : IsGreatest(l, P))
    <3>1. PICK f \in P : \A j \in P : place[f] <= place[j]
      BY <2>2
    <3>2. PICK l \in P : \A j \in P : place[j] <= place[l]
      BY <2>2
    <3>3. (\A j \in P : f <= j) /\ (\A j \in P : j <= l)
      BY <2>3, <3>1, <3>2
    <3> QED BY <3>3 DEF IsLeast, IsGreatest
  <2>5. \E x \in PaidIn(market, P) : IsGreatest(x, PaidIn(market, P))
    <3>1. PICK i \in P : \A j \in P : market[j].price <= market[i].price
      BY <2>2, <2>3
    <3> QED BY <3>1 DEF IsGreatest, PaidIn
  <2>6. \E x \in PaidIn(market, P) : IsLeast(x, PaidIn(market, P))
    <3>1. PICK i \in P : \A j \in P : market[i].price <= market[j].price
      BY <2>2, <2>3
    <3> QED BY <3>1 DEF IsLeast, PaidIn
  <2> QED BY <2>4, <2>5, <2>6
<1>3. CASE InOf(market, b) # {}
  <2> DEFINE P == InOf(market, b)
  <2>1. P \in SUBSET (1..Len(market)) /\ P # {} /\ Cardinality(P) \in Nat
    BY <1>1, <1>3, TradesAre, NthPosition
  <2> HIDE DEF P
  <2>2. PICK f \in P, l \in P : IsLeast(f, P) /\ IsGreatest(l, P)
    BY <1>2, <2>1
  <2>3. PICK hi \in PaidIn(market, P), lo \in PaidIn(market, P) :
            IsGreatest(hi, PaidIn(market, P)) /\ IsLeast(lo, PaidIn(market, P))
    BY <1>2, <2>1
  <2>4. hi \in Nat /\ lo \in Nat /\ market[f].price \in Nat /\ market[l].price \in Nat
    BY <1>1, <2>1 DEF PaidIn
  <2> DEFINE bar == [bucket |-> b, open |-> market[f].price, high |-> hi, low |-> lo,
                     close |-> market[l].price, trades |-> Cardinality(P)]
  <2>5. bar \in BarType /\ bar.bucket = b
    BY <2>1, <2>4 DEF BarType
  <2>6. Sums(bar, market, b, P)
    BY <2>2, <2>3 DEF Sums
  <2> HIDE DEF bar
  <2>7. IsBarOf(bar, market, b)
    BY <1>3, <2>6 DEF IsBarOf, P
  <2> QED BY <2>5, <2>7, TrueBarIs
<1>4. CASE InOf(market, b) = {}
  <2> DEFINE P == BeforeOf(market, b)
  <2>1. PICK i \in 1..Len(market) : BucketOf(market, i) <= b
    BY DEF Known
  <2>2. BucketOf(market, i) # b /\ BucketOf(market, i) \in Nat
    BY <1>1, <1>4 DEF InOf
  <2>3. P \in SUBSET (1..Len(market)) /\ P # {}
    <3>1. BucketOf(market, i) < b
      BY <2>1, <2>2
    <3> QED BY <1>1, <3>1 DEF BeforeOf
  <2> HIDE DEF P
  <2>4. PICK l \in P : IsGreatest(l, P)
    BY <1>2, <2>3
  <2> DEFINE bar == Candles!Flat(b, market[l].price)
  <2>5. bar \in BarType /\ bar.bucket = b
    BY <1>1, <2>3 DEF BarType, Candles!Flat
  <2> HIDE DEF bar
  <2>6. IsBarOf(bar, market, b)
    BY <1>4, <2>4 DEF IsBarOf, Repeats, P, bar
  <2> QED BY <2>5, <2>6, TrueBarIs
<1> QED BY <1>3, <1>4
-----------------------------------------------------------------------------
(* The invariant.  Of the market the session hears what is beyond position *)
(* r once more; m is the market, h the history, c the open bar, today the  *)
(* bucket of the tick and d the dark ticks.                                *)

\* A bar that was processed: its bucket is over, nothing of it is to come, and
\* unless it saw a dark tick it is the exchange's.
BarOk(bar, m, today, r, d) ==
    /\ bar.bucket < today /\ Known(m, bar.bucket)
    /\ \A k \in r + 1..Len(m) : bar.bucket < BucketOf(m, k)
    /\ LitIn(d, bar.bucket) => IsBarOf(bar, m, bar.bucket)

\* A bar of the bucket that was forming when the history was seeded: it is not passed.
FormingOk(bar, m, today, r) ==
    bar.bucket <= today /\ \A k \in r + 1..Len(m) : bar.bucket <= BucketOf(m, k)

\* The processed bars, where x is that bucket.
HistoryOk(h, m, today, r, d, x) ==
    \A i \in 1..Len(h) :
        IF h[i].bucket = x THEN FormingOk(h[i], m, today, r) ELSE BarOk(h[i], m, today, r, d)

\* Bars follow each other, but for the two that bucket x may have.
InOrder(h, x) ==
    \A i, j \in 1..Len(h) : i < j =>
        h[i].bucket < h[j].bucket \/ (j = i + 1 /\ h[i].bucket = x /\ h[j].bucket = x)

\* The open bar c follows them, unless it is the second of x.  Before there is one, the
\* first of x is the last that was seeded.
NextInOrder(h, c, x) ==
    IF c = Candles!NoBar
    THEN \A i \in 1..Len(h) : h[i].bucket = x => i = Len(h)
    ELSE \A i \in 1..Len(h) :
            h[i].bucket < c.bucket \/ (i = Len(h) /\ h[i].bucket = x /\ c.bucket = x)

HeardOf(m, r, b) == {i \in 1..r : BucketOf(m, i) = b}

\* The open bar is that of what was heard of its bucket.
OpenOk(bar, m, today, r, d) ==
    /\ bar \in BarType
    /\ bar.bucket <= today /\ Known(m, bar.bucket)
    /\ \A k \in r + 1..Len(m) : bar.bucket <= BucketOf(m, k)
    /\ LitIn(d, bar.bucket) => Sums(bar, m, bar.bucket, HeardOf(m, r, bar.bucket))

\* A bucket of which something was heard, but which is not open, is dark or over.
SeamOk(c, m, today, r, d) ==
    \A i \in 1..r :
        LitIn(d, BucketOf(m, i)) /\ BucketOf(m, i) # c.bucket =>
            /\ BucketOf(m, i) < today
            /\ \A k \in r + 1..Len(m) : BucketOf(m, i) < BucketOf(m, k)

Today == Candles!Bucket(now)
Read == Len(market) - Len(wire)

CandleTypes ==
    /\ now \in Nat /\ market \in Seq(TradeType) /\ wire \in Seq(TradeType)
    /\ connected \in BOOLEAN
    /\ session = [stage |-> session.stage, count |-> session.count]
    /\ session.stage \in {"none", "seeded", "live"}
    /\ history \in Seq(BarType)
\* The exchange trades forward in time, and the wire holds its newest trades.
StreamOk ==
    /\ \A i \in 1..Len(market) : market[i].at <= now
    /\ \A i, j \in 1..Len(market) : i < j => market[i].at <= market[j].at
    /\ Len(wire) <= Len(market)
    /\ \A k \in 1..Len(wire) : wire[k] = market[Read + k]
    /\ ~connected => wire = <<>>
    /\ connected => session.stage = "live"
    /\ session.stage = "live" /\ ~connected => now \in dark
    /\ session.stage # "live" => current = Candles!NoBar
BarsOk ==
    /\ InOrder(history, forming) /\ NextInOrder(history, current, forming)
    /\ HistoryOk(history, market, Today, Read, dark, forming)
    /\ current # Candles!NoBar => OpenOk(current, market, Today, Read, dark)
    /\ connected => SeamOk(current, market, Today, Read, dark)

CandleInv == CandleTypes /\ StreamOk /\ BarsOk
-----------------------------------------------------------------------------
\* What is lit stays so in a set with fewer dark ticks.
LEMMA Darker ==
  ASSUME NEW d, NEW e, d \subseteq e, NEW b, LitIn(e, b)
  PROVE  LitIn(d, b)
BY DEF LitIn

\* A bar stays what it is while time goes on, more is heard, and ticks get dark.
LEMMA BarStays ==
  ASSUME NEW bar \in BarType, NEW m, NEW today \in Nat, NEW late \in Nat, today <= late,
         NEW r \in Nat, NEW s \in Nat, r <= s, NEW d, NEW e, d \subseteq e,
         BarOk(bar, m, today, r, d)
  PROVE  BarOk(bar, m, late, s, e)
<1>1. bar.bucket \in Nat /\ bar.bucket < late
  BY DEF BarOk, BarType
<1>2. \A k \in s + 1..Len(m) : k \in r + 1..Len(m)
  OBVIOUS
<1> QED BY <1>1, <1>2, Darker DEF BarOk

\* The processed bars stay what they are, as a bar does.
LEMMA HistoryStays ==
  ASSUME NEW h \in Seq(BarType), NEW m, NEW today \in Nat, NEW late \in Nat, today <= late,
         NEW r \in Nat, NEW s \in Nat, r <= s, NEW d, NEW e, d \subseteq e, NEW x,
         HistoryOk(h, m, today, r, d, x)
  PROVE  HistoryOk(h, m, late, s, e, x)
<1>1. \A i \in 1..Len(h) : h[i] \in BarType
  BY RangeIs, LenProperties
<1>2. ASSUME NEW i \in 1..Len(h), FormingOk(h[i], m, today, r) PROVE FormingOk(h[i], m, late, s)
  <2>1. h[i].bucket \in Nat
    BY <1>1 DEF BarType
  <2>2. \A k \in s + 1..Len(m) : k \in r + 1..Len(m)
    OBVIOUS
  <2> QED BY <1>2, <2>1, <2>2 DEF FormingOk
<1>3. ASSUME NEW i \in 1..Len(h), BarOk(h[i], m, today, r, d) PROVE BarOk(h[i], m, late, s, e)
  BY <1>1, <1>3, BarStays
<1> QED BY <1>2, <1>3 DEF HistoryOk

\* The open bar stays, unless something of its bucket is missed.
LEMMA OpenStays ==
  ASSUME NEW bar, NEW m, NEW today \in Nat, NEW late \in Nat, today <= late,
         NEW r \in Nat, NEW s \in Nat, r <= s, NEW d, NEW e, d \subseteq e,
         OpenOk(bar, m, today, r, d),
         \A i \in r + 1..s : BucketOf(m, i) = bar.bucket => ~LitIn(e, bar.bucket)
  PROVE  OpenOk(bar, m, late, s, e)
<1>1. bar.bucket \in Nat /\ bar.bucket <= late
  BY DEF OpenOk, BarType
<1>2. \A k \in s + 1..Len(m) : k \in r + 1..Len(m)
  OBVIOUS
<1>3. ASSUME LitIn(e, bar.bucket)
      PROVE  HeardOf(m, s, bar.bucket) = HeardOf(m, r, bar.bucket)
  <2>1. \A i \in 1..s : i \in 1..r \/ i \in r + 1..s
    OBVIOUS
  <2>2. \A i \in 1..r : i \in 1..s
    OBVIOUS
  <2> QED BY <1>3, <2>1, <2>2 DEF HeardOf
<1> QED BY <1>1, <1>2, <1>3, Darker DEF OpenOk

\* The ranges of what the invariant speaks of.
LEMMA CandleFacts ==
  ASSUME CandleInv
  PROVE  /\ now \in Nat /\ Today \in Nat /\ Read \in Nat /\ Len(market) \in Nat
         /\ Len(wire) \in Nat /\ Read <= Len(market) /\ Len(history) \in Nat
         /\ \A i \in 1..Len(market) :
                /\ market[i].at \in Nat /\ BucketOf(market, i) \in Nat
                /\ BucketOf(market, i) <= Today
         /\ \A i \in 1..Len(history) : history[i] \in BarType
<1>1. /\ now \in Nat /\ market \in Seq(TradeType) /\ wire \in Seq(TradeType)
      /\ history \in Seq(BarType) /\ Len(wire) <= Len(market)
      /\ \A i \in 1..Len(market) : market[i].at <= now
  BY DEF CandleInv, CandleTypes, StreamOk
<1>2. /\ Len(market) \in Nat /\ Len(wire) \in Nat /\ Len(history) \in Nat
      /\ \A i \in 1..Len(market) : market[i].at \in Nat
      /\ \A i \in 1..Len(history) : history[i] \in BarType
  BY <1>1, TradesAre, RangeIs, LenProperties
<1>3. Today \in Nat /\ Read \in Nat /\ Read <= Len(market)
  <2>1. \A a, c \in Nat : c <= a => a - c \in Nat /\ a - c <= a
    OBVIOUS
  <2> QED BY <1>1, <1>2, <2>1, BucketOrder DEF Today, Read
<1>4. \A i \in 1..Len(market) : BucketOf(market, i) \in Nat /\ BucketOf(market, i) <= Today
  BY <1>1, <1>2, BucketOrder DEF Today, BucketOf
<1> QED BY <1>1, <1>2, <1>3, <1>4

\* A tick passes.
LEMMA TickPasses ==
  ASSUME CandleInv, Candles!Tick
  PROVE  CandleInv'
<1>1. /\ now' = now + 1 /\ UNCHANGED <<market, session, wire, connected, current, history, forming>>
      /\ dark' = IF session.stage = "live" /\ ~connected THEN dark \cup {now + 1} ELSE dark
  BY DEF Candles!Tick
<1>2. CandleTypes /\ StreamOk /\ BarsOk
  BY DEF CandleInv
<1>3. /\ now \in Nat /\ Today \in Nat /\ Read \in Nat /\ Len(market) \in Nat
      /\ \A i \in 1..Len(market) : market[i].at \in Nat
  BY CandleFacts
<1>4. CandleTypes'
  BY <1>1, <1>2 DEF CandleTypes
<1>5. StreamOk'
  BY <1>1, <1>2, <1>3 DEF StreamOk, Read
<1>6. Today' \in Nat /\ Today <= Today' /\ Read' = Read /\ dark \subseteq dark'
  BY <1>1, <1>3, BucketOrder DEF Today, Read
<1>7. HistoryOk(history, market, Today', Read, dark', forming)
  <2>1. /\ history \in Seq(BarType) /\ Read <= Read
        /\ HistoryOk(history, market, Today, Read, dark, forming)
    BY <1>2, <1>3 DEF BarsOk, CandleTypes
  <2> QED BY <1>3, <1>6, <2>1, HistoryStays
<1>8. current # Candles!NoBar => OpenOk(current, market, Today', Read, dark')
  <2>1. \A i \in Read + 1..Read : FALSE
    BY <1>3
  <2> QED BY <1>2, <1>3, <1>6, <2>1, OpenStays DEF BarsOk
<1>9. connected => SeamOk(current, market, Today', Read, dark')
  <2>1. \A i \in 1..Read : BucketOf(market, i) < Today => BucketOf(market, i) < Today'
    <3>1. \A i \in 1..Read : BucketOf(market, i) \in Nat
      BY CandleFacts
    <3> QED BY <1>3, <1>6, <3>1
  <2> QED BY <1>2, <1>6, <2>1, Darker DEF BarsOk, SeamOk
<1>10. BarsOk'
  BY <1>1, <1>2, <1>6, <1>7, <1>8, <1>9 DEF BarsOk
<1> QED BY <1>4, <1>5, <1>10 DEF CandleInv

\* The exchange trades in the tick that it is.
LEMMA Grown ==
  ASSUME NEW m \in Seq(TradeType), NEW t \in TradeType
  PROVE  /\ Append(m, t) \in Seq(TradeType) /\ Len(m) \in Nat /\ Len(Append(m, t)) = Len(m) + 1
         /\ \A i \in 1..Len(m) : Append(m, t)[i] = m[i] /\ BucketOf(Append(m, t), i) = BucketOf(m, i)
         /\ Append(m, t)[Len(m) + 1] = t /\ BucketOf(Append(m, t), Len(m) + 1) = Candles!Bucket(t.at)
         /\ \A i \in 1..Len(Append(m, t)) : i \in 1..Len(m) \/ i = Len(m) + 1
         /\ \A i \in 1..Len(m) : i \in 1..Len(Append(m, t))
         /\ \A r \in Nat : \A k \in r + 1..Len(Append(m, t)) : k \in r + 1..Len(m) \/ k = Len(m) + 1
<1> DEFINE n == Append(m, t)
<1>1. /\ n \in Seq(TradeType) /\ Len(m) \in Nat /\ Len(n) = Len(m) + 1
      /\ DOMAIN m = 1..Len(m) /\ (\A i \in DOMAIN m : n[i] = m[i]) /\ n[Len(m) + 1] = t
  BY Appended
<1> HIDE DEF n
<1>2. \A i \in 1..Len(n) : i \in 1..Len(m) \/ i = Len(m) + 1
  BY <1>1
<1>3. \A r \in Nat : \A k \in r + 1..Len(n) : k \in r + 1..Len(m) \/ k = Len(m) + 1
  BY <1>1
<1>4. \A i \in 1..Len(m) : i \in 1..Len(n)
  BY <1>1
<1> QED BY <1>1, <1>2, <1>3, <1>4 DEF n, BucketOf

\* A processed bar stays what it is when the exchange trades on.
LEMMA BarGrows ==
  ASSUME NEW m \in Seq(TradeType), NEW t \in TradeType, NEW bar \in BarType, NEW r \in Nat, NEW d,
         BarOk(bar, m, Candles!Bucket(t.at), r, d)
  PROVE  BarOk(bar, Append(m, t), Candles!Bucket(t.at), r, d)
<1> DEFINE n == Append(m, t)
<1>1. bar.bucket \in Nat
  BY DEF BarType
<1>2. LitIn(d, bar.bucket) => IsBarOf(bar, n, bar.bucket)
  BY <1>1, BarStands DEF BarOk
<1>3. Known(n, bar.bucket)
  BY Grown DEF BarOk, Known
<1>4. \A k \in r + 1..Len(n) : bar.bucket < BucketOf(n, k)
  <2>1. \A k \in r + 1..Len(m) : bar.bucket < BucketOf(m, k) /\ k \in 1..Len(m)
    BY Grown DEF BarOk
  <2> QED BY <2>1, Grown DEF BarOk
<1> QED BY <1>2, <1>3, <1>4 DEF BarOk

\* So do all of them.
LEMMA HistoryGrows ==
  ASSUME NEW m \in Seq(TradeType), NEW t \in TradeType, NEW h \in Seq(BarType), NEW r \in Nat, NEW d, NEW x,
         HistoryOk(h, m, Candles!Bucket(t.at), r, d, x)
  PROVE  HistoryOk(h, Append(m, t), Candles!Bucket(t.at), r, d, x)
<1> DEFINE n == Append(m, t)
<1>1. \A i \in 1..Len(h) : h[i] \in BarType
  BY RangeIs, LenProperties
<1>2. ASSUME NEW bar, FormingOk(bar, m, Candles!Bucket(t.at), r)
      PROVE  FormingOk(bar, n, Candles!Bucket(t.at), r)
  <2>1. \A k \in r + 1..Len(m) : bar.bucket <= BucketOf(m, k) /\ k \in 1..Len(m)
    BY <1>2, Grown DEF FormingOk
  <2> QED BY <1>2, <2>1, Grown DEF FormingOk
<1>3. ASSUME NEW i \in 1..Len(h), BarOk(h[i], m, Candles!Bucket(t.at), r, d)
      PROVE  BarOk(h[i], n, Candles!Bucket(t.at), r, d)
  BY <1>1, <1>3, BarGrows
<1> QED BY <1>2, <1>3 DEF HistoryOk

\* So does the open one.
LEMMA OpenGrows ==
  ASSUME NEW m \in Seq(TradeType), NEW t \in TradeType, NEW bar, NEW r \in Nat, r <= Len(m), NEW d,
         OpenOk(bar, m, Candles!Bucket(t.at), r, d)
  PROVE  OpenOk(bar, Append(m, t), Candles!Bucket(t.at), r, d)
<1> DEFINE n == Append(m, t)
           b == bar.bucket
<1>1. HeardOf(n, r, b) = HeardOf(m, r, b) /\ HeardOf(m, r, b) \in SUBSET (1..Len(m))
  <2>1. \A i \in 1..r : i \in 1..Len(m)
    BY Grown
  <2>2. \A i \in 1..r : BucketOf(n, i) = BucketOf(m, i)
    BY <2>1, Grown
  <2> HIDE DEF n
  <2> QED BY <2>1, <2>2 DEF HeardOf
<1>2. LitIn(d, b) => Sums(bar, n, b, HeardOf(n, r, b))
  BY <1>1, SumsStand DEF OpenOk
<1>3. Known(n, b)
  BY Grown DEF OpenOk, Known
<1>4. \A k \in r + 1..Len(n) : b <= BucketOf(n, k)
  <2>1. \A k \in r + 1..Len(m) : b <= BucketOf(m, k) /\ k \in 1..Len(m)
    BY Grown DEF OpenOk
  <2> QED BY <2>1, Grown DEF OpenOk
<1> QED BY <1>2, <1>3, <1>4 DEF OpenOk

\* So does the seam between the seed and the stream.
LEMMA SeamGrows ==
  ASSUME NEW m \in Seq(TradeType), NEW t \in TradeType, NEW c, NEW r \in Nat, r <= Len(m), NEW d,
         SeamOk(c, m, Candles!Bucket(t.at), r, d)
  PROVE  SeamOk(c, Append(m, t), Candles!Bucket(t.at), r, d)
<1> DEFINE n == Append(m, t)
<1> SUFFICES ASSUME NEW i \in 1..r, LitIn(d, BucketOf(n, i)), BucketOf(n, i) # c.bucket
             PROVE  /\ BucketOf(n, i) < Candles!Bucket(t.at)
                    /\ \A k \in r + 1..Len(n) : BucketOf(n, i) < BucketOf(n, k)
  BY DEF SeamOk
<1>1. i \in 1..Len(m) /\ BucketOf(n, i) = BucketOf(m, i)
  <2>1. i \in 1..Len(m)
    BY Grown
  <2> QED BY <2>1, Grown
<1>2. /\ BucketOf(m, i) < Candles!Bucket(t.at)
      /\ \A k \in r + 1..Len(m) : BucketOf(m, i) < BucketOf(m, k)
  BY <1>1 DEF SeamOk
<1>3. \A k \in r + 1..Len(m) : k \in 1..Len(m)
  BY Grown
<1> QED BY <1>1, <1>2, <1>3, Grown

\* A trade goes to the wire of a connected engine; without one, the tick gets dark.
LEMMA MarketTrades ==
  ASSUME CandleInv, Candles!Trade
  PROVE  CandleInv'
<1>1. PICK p \in Prices : /\ market' = Append(market, [at |-> now, price |-> p])
                         /\ wire' = IF connected THEN Append(wire, [at |-> now, price |-> p]) ELSE wire
  BY DEF Candles!Trade
<1>2. UNCHANGED <<now, session, connected, dark, current, history, forming>>
  BY DEF Candles!Trade
<1> DEFINE t == [at |-> now, price |-> p]
<1>3. CandleTypes /\ StreamOk /\ BarsOk
  BY DEF CandleInv
<1>4. /\ now \in Nat /\ Today \in Nat /\ Read \in Nat /\ Len(market) \in Nat /\ Len(wire) \in Nat
      /\ Read <= Len(market)
      /\ \A i \in 1..Len(market) : market[i].at \in Nat
  BY CandleFacts
<1>5. t \in TradeType /\ t.at = now
  BY <1>4, CandleAssumption DEF TradeType
<1> HIDE DEF t
<1>6. market' = Append(market, t) /\ wire' = IF connected THEN Append(wire, t) ELSE wire
  BY <1>1 DEF t
<1>7. /\ market' \in Seq(TradeType) /\ Len(market') = Len(market) + 1
      /\ (\A i \in 1..Len(market) : market'[i] = market[i]) /\ market'[Len(market) + 1] = t
      /\ \A i \in 1..Len(market') : i \in 1..Len(market) \/ i = Len(market) + 1
  BY <1>3, <1>5, <1>6, Grown DEF CandleTypes
<1>8. CASE connected
  <2>1. /\ wire' \in Seq(TradeType) /\ Len(wire') = Len(wire) + 1
        /\ (\A k \in 1..Len(wire) : wire'[k] = wire[k]) /\ wire'[Len(wire) + 1] = t
        /\ \A k \in 1..Len(wire') : k \in 1..Len(wire) \/ k = Len(wire) + 1
    BY <1>3, <1>5, <1>6, <1>8, Grown DEF CandleTypes
  <2>2. Read' = Read /\ Read + Len(wire) = Len(market)
    BY <1>4, <1>7, <2>1 DEF Read
  <2>3. CandleTypes'
    BY <1>2, <1>3, <1>7, <2>1 DEF CandleTypes
  <2>4. StreamOk'
    <3>1. \A i \in 1..Len(market') : market'[i].at <= now
      BY <1>3, <1>4, <1>5, <1>7 DEF StreamOk
    <3>2. \A i, j \in 1..Len(market') : i < j => market'[i].at <= market'[j].at
      <4> SUFFICES ASSUME NEW i \in 1..Len(market'), NEW j \in 1..Len(market'), i < j
                   PROVE  market'[i].at <= market'[j].at
        OBVIOUS
      <4>1. i \in 1..Len(market)
        BY <1>4, <1>7
      <4>2. CASE j = Len(market) + 1
        BY <1>3, <1>5, <1>7, <4>1, <4>2 DEF StreamOk
      <4>3. CASE j \in 1..Len(market)
        BY <1>3, <1>7, <4>1, <4>3 DEF StreamOk
      <4> QED BY <1>7, <4>2, <4>3
    <3>3. \A k \in 1..Len(wire') : wire'[k] = market'[Read' + k]
      <4> SUFFICES ASSUME NEW k \in 1..Len(wire')
                   PROVE  wire'[k] = market'[Read' + k]
        OBVIOUS
      <4>1. CASE k = Len(wire) + 1
        <5>1. Read' + k = Len(market) + 1
          BY <1>4, <2>2, <4>1
        <5> QED BY <1>7, <2>1, <4>1, <5>1
      <4>2. CASE k \in 1..Len(wire)
        <5>1. Read + k \in 1..Len(market)
          BY <1>4, <2>2, <4>2
        <5> QED BY <1>3, <1>7, <2>1, <2>2, <4>2, <5>1 DEF StreamOk
      <4> QED BY <2>1, <4>1, <4>2
    <3>4. Len(wire') <= Len(market')
      BY <1>3, <1>4, <1>7, <2>1 DEF StreamOk
    <3> QED BY <1>2, <1>3, <1>8, <3>1, <3>2, <3>3, <3>4 DEF StreamOk
  <2>5. BarsOk'
    <3>1. HistoryOk(history, market', Today, Read, dark, forming)
      BY <1>3, <1>4, <1>5, <1>6, HistoryGrows DEF BarsOk, CandleTypes, Today
    <3>2. current # Candles!NoBar => OpenOk(current, market', Today, Read, dark)
      BY <1>3, <1>4, <1>5, <1>6, OpenGrows DEF BarsOk, CandleTypes, Today
    <3>3. SeamOk(current, market', Today, Read, dark)
      BY <1>3, <1>4, <1>5, <1>6, <1>8, SeamGrows DEF BarsOk, CandleTypes, Today
    <3>4. Today' = Today
      BY <1>2 DEF Today
    <3> QED BY <1>2, <1>3, <2>2, <3>1, <3>2, <3>3, <3>4 DEF BarsOk
  <2> QED BY <2>3, <2>4, <2>5 DEF CandleInv
<1>9. CASE ~connected
  <2>1. wire' = wire /\ Len(wire) = 0 /\ Read = Len(market) /\ Read' = Len(market) + 1
        /\ wire = <<>>
    BY <1>3, <1>4, <1>6, <1>7, <1>9, EmptySeq DEF StreamOk, Read
  <2>2. CandleTypes'
    BY <1>2, <1>3, <1>7, <2>1 DEF CandleTypes
  <2>3. StreamOk'
    <3>1. \A i \in 1..Len(market') : market'[i].at <= now
      BY <1>3, <1>4, <1>5, <1>7 DEF StreamOk
    <3>2. \A i, j \in 1..Len(market') : i < j => market'[i].at <= market'[j].at
      <4> SUFFICES ASSUME NEW i \in 1..Len(market'), NEW j \in 1..Len(market'), i < j
                   PROVE  market'[i].at <= market'[j].at
        OBVIOUS
      <4>1. i \in 1..Len(market)
        BY <1>4, <1>7
      <4>2. CASE j = Len(market) + 1
        BY <1>3, <1>5, <1>7, <4>1, <4>2 DEF StreamOk
      <4>3. CASE j \in 1..Len(market)
        BY <1>3, <1>7, <4>1, <4>3 DEF StreamOk
      <4> QED BY <1>7, <4>2, <4>3
    <3>3. \A k \in 1..Len(wire') : FALSE
      BY <2>1
    <3>4. Len(wire') <= Len(market')
      BY <1>4, <1>7, <2>1
    <3> QED BY <1>2, <1>3, <1>9, <2>1, <3>1, <3>2, <3>3, <3>4 DEF StreamOk
  <2>4. BarsOk'
    <3>1. HistoryOk(history, market', Today, Read, dark, forming)
      BY <1>3, <1>4, <1>5, <1>6, HistoryGrows DEF BarsOk, CandleTypes, Today
    <3>2. HistoryOk(history, market', Today, Read', dark, forming)
      <4>1. Read' \in Nat /\ Read <= Read' /\ Today <= Today /\ history \in Seq(BarType)
            /\ dark \subseteq dark
        BY <1>3, <1>4, <2>1 DEF CandleTypes
      <4> QED BY <1>4, <3>1, <4>1, HistoryStays
    <3>3. current # Candles!NoBar => OpenOk(current, market', Today, Read', dark)
      <4> SUFFICES ASSUME current # Candles!NoBar
                   PROVE  OpenOk(current, market', Today, Read', dark)
        OBVIOUS
      <4>1. OpenOk(current, market', Today, Read, dark)
        BY <1>3, <1>4, <1>5, <1>6, OpenGrows DEF BarsOk, CandleTypes, Today
      <4>2. now \in dark
        BY <1>3, <1>9 DEF StreamOk
      <4>3. BucketOf(market', Len(market) + 1) = Today
        BY <1>5, <1>7 DEF BucketOf, Today
      <4>4. ~LitIn(dark, Today)
        BY <1>4, <4>2, Buckets DEF Today
      <4>5. Read' \in Nat /\ Read <= Read' /\ Today <= Today /\ dark \subseteq dark
            /\ \A i \in Read + 1..Read' : i = Len(market) + 1
        BY <1>4, <2>1
      <4> QED BY <1>4, <4>1, <4>3, <4>4, <4>5, OpenStays
    <3>4. Today' = Today
      BY <1>2 DEF Today
    <3> QED BY <1>2, <1>3, <1>9, <3>2, <3>3, <3>4 DEF BarsOk
  <2> QED BY <2>2, <2>3, <2>4 DEF CandleInv
<1> QED BY <1>8, <1>9

\* The session connects: what it may have missed is dark.
LEMMA SessionConnects ==
  ASSUME CandleInv, Candles!Connect
  PROVE  CandleInv'
<1>1. /\ session.stage \in {"seeded", "live"} /\ ~connected
      /\ session' = [session EXCEPT !.stage = "live"] /\ connected' = TRUE /\ wire' = <<>>
      /\ dark' = dark \cup {now} /\ UNCHANGED <<now, market, current, history, forming>>
  BY DEF Candles!Connect
<1>2. CandleTypes /\ StreamOk /\ BarsOk
  BY DEF CandleInv
<1>3. /\ now \in Nat /\ Today \in Nat /\ Read \in Nat /\ Len(market) \in Nat
      /\ \A i \in 1..Len(market) : BucketOf(market, i) \in Nat /\ BucketOf(market, i) <= Today
  BY CandleFacts
<1>4. wire = <<>> /\ wire' = wire /\ Len(wire) = 0 /\ Read = Len(market) /\ Read' = Read /\ Today' = Today
  BY <1>1, <1>2, <1>3, EmptySeq DEF StreamOk, Read, Today
<1>5. session' = [stage |-> session'.stage, count |-> session'.count] /\ session'.stage = "live"
  BY <1>1, <1>2 DEF CandleTypes
<1>6. CandleTypes'
  BY <1>1, <1>2, <1>4, <1>5 DEF CandleTypes
<1>7. StreamOk'
  BY <1>1, <1>2, <1>4, <1>5 DEF StreamOk
<1>8. HistoryOk(history, market, Today, Read, dark', forming)
  <2>1. history \in Seq(BarType) /\ Read <= Read /\ Today <= Today /\ dark \subseteq dark'
        /\ HistoryOk(history, market, Today, Read, dark, forming)
    BY <1>1, <1>2, <1>3 DEF CandleTypes, BarsOk
  <2> QED BY <1>3, <2>1, HistoryStays
<1>9. current # Candles!NoBar => OpenOk(current, market, Today, Read, dark')
  <2>1. Read <= Read /\ Today <= Today /\ dark \subseteq dark' /\ \A i \in Read + 1..Read : FALSE
    BY <1>1, <1>3
  <2> QED BY <1>2, <1>3, <2>1, OpenStays DEF BarsOk
<1>10. SeamOk(current, market, Today, Read, dark')
  <2>1. ~LitIn(dark', Today)
    BY <1>1, <1>3, Buckets DEF Today
  <2>2. \A i \in 1..Read : BucketOf(market, i) \in Nat /\ BucketOf(market, i) <= Today
    BY <1>3, <1>4
  <2>3. \A k \in Read + 1..Len(market) : FALSE
    BY <1>3, <1>4
  <2>4. \A i \in 1..Read : BucketOf(market, i) = Today \/ BucketOf(market, i) < Today
    BY <1>3, <2>2
  <2> QED BY <2>1, <2>3, <2>4 DEF SeamOk
<1>11. BarsOk'
  BY <1>1, <1>2, <1>4, <1>8, <1>9, <1>10 DEF BarsOk
<1> QED BY <1>6, <1>7, <1>11 DEF CandleInv

\* The socket drops: what was on the wire is lost, and dark.
LEMMA SocketDrops ==
  ASSUME CandleInv, Candles!Drop
  PROVE  CandleInv'
<1>1. /\ connected /\ connected' = FALSE /\ wire' = <<>>
      /\ dark' = dark \cup {now} \cup {wire[i].at : i \in DOMAIN wire}
      /\ UNCHANGED <<now, market, session, current, history, forming>>
  BY DEF Candles!Drop
<1>2. CandleTypes /\ StreamOk /\ BarsOk
  BY DEF CandleInv
<1>3. /\ now \in Nat /\ Today \in Nat /\ Read \in Nat /\ Len(market) \in Nat /\ Len(wire) \in Nat
      /\ Read <= Len(market)
      /\ \A i \in 1..Len(market) : market[i].at \in Nat
  BY CandleFacts
<1>4. wire' \in Seq(TradeType) /\ Len(wire') = 0 /\ Read' = Len(market) /\ Today' = Today
  BY <1>1, <1>3, EmptySeq DEF Read, Today
<1>5. CandleTypes'
  BY <1>1, <1>2, <1>4 DEF CandleTypes
<1>6. StreamOk'
  <2>1. \A k \in 1..Len(wire') : FALSE
    BY <1>4
  <2> QED BY <1>1, <1>2, <1>3, <1>4, <2>1 DEF StreamOk
<1>7. dark \subseteq dark' /\ Today <= Today /\ Read <= Len(market)
  BY <1>1, <1>3
<1>8. HistoryOk(history, market, Today, Len(market), dark', forming)
  BY <1>2, <1>3, <1>7, HistoryStays DEF CandleTypes, BarsOk
<1>9. current # Candles!NoBar => OpenOk(current, market, Today, Len(market), dark')
  <2>1. ASSUME NEW i \in Read + 1..Len(market)
        PROVE  ~LitIn(dark', BucketOf(market, i))
    <3>1. i - Read \in 1..Len(wire) /\ Read + (i - Read) = i /\ i \in 1..Len(market)
      BY <1>3 DEF Read
    <3>2. wire[i - Read] = market[i] /\ i - Read \in DOMAIN wire
      <4>1. DOMAIN wire = 1..Len(wire)
        BY <1>2, RangeIs DEF CandleTypes
      <4> QED BY <1>2, <3>1, <4>1 DEF StreamOk
    <3>3. market[i].at \in dark' /\ market[i].at \in Nat
      BY <1>1, <1>3, <3>1, <3>2
    <3> QED BY <3>3, Buckets DEF BucketOf
  <2> QED BY <1>2, <1>3, <1>7, <2>1, OpenStays DEF BarsOk
<1>10. BarsOk'
  BY <1>1, <1>2, <1>4, <1>8, <1>9 DEF BarsOk
<1> QED BY <1>5, <1>6, <1>10 DEF CandleInv

\* The session stops, or starts with what REST answers.
LEMMA SessionStops ==
  ASSUME CandleInv, Candles!Stop
  PROVE  CandleInv'
<1>1. /\ session' = [session EXCEPT !.stage = "none"] /\ connected' = FALSE /\ wire' = <<>>
      /\ current' = Candles!NoBar /\ history' = <<>> /\ UNCHANGED <<now, market>>
  BY DEF Candles!Stop
<1>2. CandleTypes /\ StreamOk /\ Len(market) \in Nat
  BY CandleFacts DEF CandleInv
<1>3. /\ session' = [stage |-> session'.stage, count |-> session'.count] /\ session'.stage = "none"
      /\ wire' \in Seq(TradeType) /\ Len(wire') = 0 /\ history' \in Seq(BarType) /\ Len(history') = 0
  BY <1>1, <1>2, EmptySeq DEF CandleTypes
<1>4. CandleTypes'
  BY <1>1, <1>2, <1>3 DEF CandleTypes
<1>5. StreamOk'
  <2>1. \A k \in 1..Len(wire') : FALSE
    BY <1>3
  <2> QED BY <1>1, <1>2, <1>3, <2>1 DEF StreamOk
<1>6. BarsOk'
  <2>1. \A k \in 1..Len(history') : FALSE
    BY <1>3
  <2> QED BY <1>1, <2>1 DEF BarsOk, HistoryOk, InOrder, NextInOrder
<1> QED BY <1>4, <1>5, <1>6 DEF CandleInv

\* The rows of REST: one for every bucket from the first trade, or later, to the
\* one in progress.
LEMMA RowsAre ==
  ASSUME CandleInv, NEW from \in Nat
  PROVE  LET rows == Candles!Rows(from)
         IN  /\ rows \in Seq(BarType)
             /\ \A i \in 1..Len(rows) :
                    /\ rows[i].bucket \in Nat /\ rows[i].bucket <= Today
                    /\ rows[i].bucket # Today => BarOk(rows[i], market, Today, Len(market), {})
             /\ \A i, j \in 1..Len(rows) : i < j => rows[i].bucket < rows[j].bucket
<1> DEFINE rows == Candles!Rows(from)
<1>1. market \in Seq(TradeType) /\ Today \in Nat /\ Len(market) \in Nat
      /\ \A i \in 1..Len(market) : BucketOf(market, i) \in Nat
  BY CandleFacts DEF CandleInv, CandleTypes
<1>2. CASE market = <<>>
  <2>1. rows = <<>>
    BY <1>2 DEF Candles!Rows
  <2> HIDE DEF rows
  <2>2. rows \in Seq(BarType) /\ \A i \in 1..Len(rows) : FALSE
    BY <2>1, EmptySeq
  <2> QED BY <2>2 DEF rows
<1>3. CASE market # <<>>
  <2>1. 1 \in 1..Len(market) /\ Head(market) = market[1]
    BY <1>1, <1>3, HeadTailProperties, EmptySeq
  <2> DEFINE first == BucketOf(market, 1)
             start == IF first >= from THEN first ELSE from
             count == IF 0 >= Today - start + 1 THEN 0 ELSE Today - start + 1
  <2>2. first \in Nat /\ start \in Nat /\ first <= start /\ count \in Nat
        /\ \A i \in 1..count : start + i - 1 \in Nat /\ start + i - 1 <= Today
                               /\ first <= start + i - 1
    BY <1>1, <2>1
  <2>3. rows = [i \in 1..count |-> Candles!TrueBar(start + i - 1)]
    BY <1>3, <2>1 DEF Candles!Rows, Candles!Higher, Today, BucketOf
  <2> HIDE DEF rows, first, start, count
  <2>4. ASSUME NEW b \in Nat, first <= b, b <= Today
        PROVE  /\ Candles!TrueBar(b) \in BarType /\ Candles!TrueBar(b).bucket = b
               /\ b # Today => BarOk(Candles!TrueBar(b), market, Today, Len(market), {})
    <3>1. Known(market, b)
      BY <2>1, <2>4 DEF Known, first
    <3>2. /\ Candles!TrueBar(b) \in BarType /\ Candles!TrueBar(b).bucket = b
          /\ IsBarOf(Candles!TrueBar(b), market, b)
      BY <1>1, <3>1, BarIsTold
    <3>3. \A k \in Len(market) + 1..Len(market) : FALSE
      BY <1>1
    <3>4. b # Today => b < Today
      BY <1>1, <2>4
    <3> QED BY <3>1, <3>2, <3>3, <3>4 DEF BarOk
  <2>5. \A i \in 1..count : /\ Candles!TrueBar(start + i - 1) \in BarType
                            /\ Candles!TrueBar(start + i - 1).bucket = start + i - 1
                            /\ start + i - 1 # Today =>
                                  BarOk(Candles!TrueBar(start + i - 1), market, Today, Len(market), {})
    BY <2>2, <2>4
  <2>6. rows \in Seq(BarType) /\ Len(rows) = count /\ \A i \in 1..count : rows[i] = Candles!TrueBar(start + i - 1)
    <3> DEFINE row(i) == Candles!TrueBar(start + i - 1)
    <3>1. \A i \in 1..count : row(i) \in BarType
      BY <2>5
    <3>2. rows = [i \in 1..count |-> row(i)]
      BY <2>3
    <3> HIDE DEF row
    <3>3. rows \in Seq(BarType) /\ Len(rows) = count /\ \A i \in 1..count : rows[i] = row(i)
      BY <2>2, <3>1, <3>2
    <3> QED BY <3>3 DEF row
  <2>7. \A i, j \in 1..count : i < j => start + i - 1 < start + j - 1
    BY <2>2
  <2> QED BY <2>2, <2>5, <2>6, <2>7 DEF rows
<1> QED BY <1>2, <1>3

\* A session seeds its history with the bars of the exchange, the one in progress last.
LEMMA SessionStarts ==
  ASSUME CandleInv, Candles!Start
  PROVE  CandleInv'
<1>1. /\ session.stage = "none" /\ session' = [stage |-> "seeded", count |-> session.count + 1]
      /\ current' = Candles!NoBar /\ dark' = {} /\ UNCHANGED <<now, market, wire, connected>>
      /\ \/ history' = <<>>
         \/ \E from \in 0..Candles!Bucket(now) : history' = Candles!Seeded(Candles!Rows(from))
      /\ forming' = IF history' = <<>> THEN Candles!NoBar.bucket ELSE Today
  BY DEF Candles!Start, Today
<1>2. CandleTypes /\ StreamOk /\ BarsOk
  BY DEF CandleInv
<1>3. /\ Today \in Nat /\ Len(market) \in Nat /\ ~connected /\ wire = <<>> /\ Len(wire) = 0
      /\ Read' = Len(market) /\ Today' = Today
  BY <1>1, <1>2, CandleFacts, EmptySeq DEF StreamOk, Read, Today
<1>4. /\ history' \in Seq(BarType) /\ Len(history') \in Nat
      /\ \A i \in 1..Len(history') :
            /\ history'[i].bucket \in Nat /\ history'[i].bucket <= Today
            /\ history'[i].bucket # Today => BarOk(history'[i], market, Today, Len(market), {})
      /\ \A i, j \in 1..Len(history') : i < j => history'[i].bucket < history'[j].bucket
  <2>1. CASE history' = <<>>
    <3>1. history' \in Seq(BarType) /\ Len(history') = 0 /\ \A i \in 1..Len(history') : FALSE
      BY <2>1, EmptySeq
    <3> QED BY <3>1
  <2>2. ASSUME NEW from \in 0..Candles!Bucket(now), history' = Candles!Seeded(Candles!Rows(from))
        PROVE  /\ history' \in Seq(BarType) /\ Len(history') \in Nat
               /\ \A i \in 1..Len(history') :
                      /\ history'[i].bucket \in Nat /\ history'[i].bucket <= Today
                      /\ history'[i].bucket # Today => BarOk(history'[i], market, Today, Len(market), {})
               /\ \A i, j \in 1..Len(history') : i < j => history'[i].bucket < history'[j].bucket
    <3> DEFINE rows == Candles!Rows(from)
               P == {i \in DOMAIN rows : \A j \in 1..i - 1 : rows[j].bucket < rows[i].bucket}
               Right(bar) == /\ bar.bucket \in Nat /\ bar.bucket <= Today
                             /\ bar.bucket # Today => BarOk(bar, market, Today, Len(market), {})
    <3>1. from \in Nat
      OBVIOUS
    <3>2. /\ rows \in Seq(BarType)
          /\ \A i \in 1..Len(rows) : Right(rows[i])
          /\ \A i, j \in 1..Len(rows) : i < j => rows[i].bucket < rows[j].bucket
      BY <3>1, RowsAre
    <3> HIDE DEF rows, Right
    <3>3. P \in SUBSET (1..Len(rows))
      BY <3>2, RangeIs
    <3> HIDE DEF P
    <3>4. history' = Picked(rows, P)
      BY <2>2, SameSelections DEF Candles!Seeded, rows, P
    <3>5. /\ Picked(rows, P) \in Seq(BarType) /\ Len(Picked(rows, P)) = Cardinality(P)
          /\ \A k \in 1..Cardinality(P) : Nth(P, k) \in P /\ Picked(rows, P)[k] = rows[Nth(P, k)]
          /\ \A k, l \in 1..Cardinality(P) : k < l => Nth(P, k) < Nth(P, l)
      BY <3>2, <3>3, PickedElements
    <3>6. \A k \in 1..Cardinality(P) : Nth(P, k) \in 1..Len(rows)
      BY <3>3, <3>5
    <3> DEFINE picked == Picked(rows, P)
    <3> HIDE DEF picked
    <3>7. /\ picked \in Seq(BarType) /\ Len(picked) = Cardinality(P)
          /\ \A k \in 1..Len(picked) : Right(picked[k])
      BY <3>2, <3>5, <3>6 DEF picked
    <3>8. ASSUME NEW k \in 1..Len(picked), NEW l \in 1..Len(picked), k < l
          PROVE  picked[k].bucket < picked[l].bucket
      BY <3>2, <3>5, <3>6, <3>7, <3>8 DEF picked
    <3>9. history' = picked /\ Len(picked) \in Nat
      BY <3>4, <3>7, LenProperties DEF picked
    <3> QED BY <3>7, <3>8, <3>9 DEF Right
  <2> QED BY <1>1, <2>1, <2>2
<1>5. \A i \in 1..Len(history') : forming' = Today
  BY <1>1, EmptySeq
<1>6. InOrder(history', forming')
  BY <1>4 DEF InOrder
<1>7. NextInOrder(history', current', forming')
  <2>1. ASSUME NEW i \in 1..Len(history'), history'[i].bucket = Today PROVE i = Len(history')
    <3>1. Len(history') \in 1..Len(history')
      BY <1>4
    <3> QED BY <1>3, <1>4, <2>1, <3>1
  <2> QED BY <1>1, <1>5, <2>1 DEF NextInOrder
<1>8. HistoryOk(history', market, Today, Len(market), {}, forming')
  <2>1. \A k \in Len(market) + 1..Len(market) : FALSE
    BY <1>3
  <2> QED BY <1>4, <1>5, <2>1 DEF HistoryOk, FormingOk
<1>9. CandleTypes'
  BY <1>1, <1>2, <1>4 DEF CandleTypes
<1>10. StreamOk'
  BY <1>1, <1>2, <1>3 DEF StreamOk, Read
<1>11. BarsOk'
  BY <1>1, <1>3, <1>6, <1>7, <1>8 DEF BarsOk
<1> QED BY <1>9, <1>10, <1>11 DEF CandleInv

\* A trade is received: position n of the market is heard.
LEMMA TradeHeard ==
  ASSUME CandleInv, connected, wire # <<>>
  PROVE  LET n == Read + 1
             b == BucketOf(market, n)
         IN  /\ n \in 1..Len(market) /\ n \in Read + 1..Len(market) /\ Read \in Nat /\ n \in Nat
             /\ Head(wire) = market[n] /\ b \in Nat /\ b <= Today /\ Today \in Nat
             /\ \A k \in n + 1..Len(market) : k \in Read + 1..Len(market) /\ b <= BucketOf(market, k)
                                            /\ BucketOf(market, k) \in Nat
             /\ \A i \in 1..n : i \in 1..Read \/ i = n
             /\ \A i \in 1..Read : i \in 1..n /\ BucketOf(market, i) \in Nat
             /\ Tail(wire) \in Seq(TradeType) /\ Len(Tail(wire)) = Len(wire) - 1
             /\ \A k \in 1..Len(wire) - 1 : Tail(wire)[k] = market[n + k]
             /\ Len(market) - (Len(wire) - 1) = n /\ Len(wire) - 1 <= Len(market)
<1>1. CandleTypes /\ StreamOk
  BY DEF CandleInv
<1>2. /\ Today \in Nat /\ Read \in Nat /\ Len(market) \in Nat /\ Len(wire) \in Nat
      /\ Read <= Len(market)
      /\ \A i \in 1..Len(market) : /\ market[i].at \in Nat /\ BucketOf(market, i) \in Nat
                                   /\ BucketOf(market, i) <= Today
  BY CandleFacts
<1>3. /\ Len(wire) # 0 /\ Head(wire) = wire[1] /\ Tail(wire) \in Seq(TradeType)
      /\ Len(Tail(wire)) = Len(wire) - 1
      /\ \A k \in 1..Len(wire) - 1 : Tail(wire)[k] = wire[k + 1]
  BY <1>1, HeadTailProperties, EmptySeq DEF CandleTypes
<1> DEFINE n == Read + 1
<1>4. /\ n \in 1..Len(market) /\ n \in Read + 1..Len(market) /\ n \in Nat
      /\ Len(market) - (Len(wire) - 1) = n /\ Len(wire) - 1 <= Len(market) /\ 1 \in 1..Len(wire)
  BY <1>2, <1>3 DEF Read
<1>5. wire[1] = market[n]
  BY <1>1, <1>4 DEF StreamOk
<1>6. \A k \in 1..Len(wire) - 1 : Tail(wire)[k] = market[n + k]
  <2> SUFFICES ASSUME NEW k \in 1..Len(wire) - 1
               PROVE  Tail(wire)[k] = market[n + k]
    OBVIOUS
  <2>1. k + 1 \in 1..Len(wire) /\ Read + (k + 1) = n + k
    BY <1>2
  <2> QED BY <1>1, <1>3, <2>1 DEF StreamOk
<1>7. ASSUME NEW k \in n + 1..Len(market)
      PROVE  k \in Read + 1..Len(market) /\ BucketOf(market, n) <= BucketOf(market, k)
             /\ BucketOf(market, k) \in Nat
  <2>1. k \in 1..Len(market) /\ n < k /\ k \in Read + 1..Len(market)
    BY <1>2
  <2>2. market[n].at <= market[k].at
    BY <1>1, <1>4, <2>1 DEF StreamOk
  <2> QED BY <1>2, <1>4, <2>1, <2>2, BucketOrder DEF BucketOf
<1>8. (\A i \in 1..n : i \in 1..Read \/ i = n) /\ \A i \in 1..Read : i \in 1..n /\ i \in 1..Len(market)
  BY <1>2
<1> QED BY <1>2, <1>3, <1>4, <1>5, <1>6, <1>7, <1>8

\* A bucket that was not open opens with the first trade that is heard of it.
LEMMA BucketOpens ==
  ASSUME CandleInv, connected, wire # <<>>,
         current = Candles!NoBar \/ current.bucket < BucketOf(market, Read + 1)
  PROVE  LET bar == Candles!Opened(market[Read + 1])
         IN  /\ OpenOk(bar, market, Today, Read + 1, dark)
             /\ bar.bucket = BucketOf(market, Read + 1)
             /\ SeamOk(bar, market, Today, Read + 1, dark)
<1> DEFINE n == Read + 1
           bar == Candles!Opened(market[n])
           b == BucketOf(market, n)
<1>1. /\ n \in 1..Len(market) /\ n \in Read + 1..Len(market) /\ Read \in Nat /\ n \in Nat
      /\ b \in Nat /\ b <= Today /\ Today \in Nat
      /\ \A k \in n + 1..Len(market) : k \in Read + 1..Len(market) /\ b <= BucketOf(market, k)
                                     /\ BucketOf(market, k) \in Nat
      /\ \A i \in 1..n : i \in 1..Read \/ i = n
      /\ \A i \in 1..Read : i \in 1..n /\ BucketOf(market, i) \in Nat
  BY TradeHeard
<1>2. market \in Seq(TradeType) /\ SeamOk(current, market, Today, Read, dark)
      /\ (current # Candles!NoBar => OpenOk(current, market, Today, Read, dark))
  BY DEF CandleInv, CandleTypes, BarsOk
<1>3. bar \in BarType /\ bar.bucket = b /\ Sums(bar, market, b, {n})
  BY <1>1, <1>2, OpenedSums
<1> HIDE DEF bar, n
<1>4. current.bucket \in Int /\ current.bucket < b
  BY <1>1, <1>2 DEF Candles!NoBar, OpenOk, BarType, n
<1>5. ASSUME LitIn(dark, b)
      PROVE  HeardOf(market, n, b) = {n}
  <2>1. ASSUME NEW i \in 1..Read, BucketOf(market, i) = b
        PROVE  FALSE
    <3>1. \A k \in Read + 1..Len(market) : BucketOf(market, i) < BucketOf(market, k)
      BY <1>1, <1>2, <1>4, <1>5, <2>1 DEF SeamOk
    <3> QED BY <1>1, <2>1, <3>1
  <2>2. n \in 1..n /\ BucketOf(market, n) = b
    BY <1>1 DEF n
  <2> QED BY <1>1, <2>1, <2>2 DEF HeardOf
<1>6. Known(market, b)
  BY <1>1 DEF Known
<1>7. OpenOk(bar, market, Today, n, dark)
  BY <1>1, <1>3, <1>5, <1>6 DEF OpenOk
<1>8. SeamOk(bar, market, Today, n, dark)
  <2> SUFFICES ASSUME NEW i \in 1..n, LitIn(dark, BucketOf(market, i)), BucketOf(market, i) # b
               PROVE  /\ BucketOf(market, i) < Today
                      /\ \A k \in n + 1..Len(market) : BucketOf(market, i) < BucketOf(market, k)
    BY <1>3 DEF SeamOk
  <2>1. i \in 1..Read /\ BucketOf(market, i) \in Nat
    BY <1>1
  <2>2. CASE BucketOf(market, i) = current.bucket
    BY <1>1, <1>4, <2>1, <2>2
  <2>3. CASE BucketOf(market, i) # current.bucket
    BY <1>1, <1>2, <2>1, <2>3 DEF SeamOk
  <2> QED BY <2>2, <2>3
<1> QED BY <1>3, <1>7, <1>8 DEF bar, n

\* The bar that is sealed by a trade of a later bucket is complete.
LEMMA BarSealed ==
  ASSUME CandleInv, connected, wire # <<>>, current # Candles!NoBar,
         current.bucket < BucketOf(market, Read + 1)
  PROVE  BarOk(current, market, Today, Read + 1, dark)
<1> DEFINE n == Read + 1
           b == current.bucket
<1>1. /\ n \in 1..Len(market) /\ n \in Read + 1..Len(market) /\ Read \in Nat /\ n \in Nat
      /\ BucketOf(market, n) \in Nat /\ BucketOf(market, n) <= Today /\ Today \in Nat
      /\ \A k \in n + 1..Len(market) :
            BucketOf(market, n) <= BucketOf(market, k) /\ BucketOf(market, k) \in Nat
  BY TradeHeard
<1>2. market \in Seq(TradeType) /\ OpenOk(current, market, Today, Read, dark)
  BY DEF CandleInv, CandleTypes, BarsOk
<1>3. b \in Nat /\ Len(market) \in Nat /\ DOMAIN market = 1..Len(market)
  BY <1>2, TradesAre DEF OpenOk, BarType
<1> HIDE DEF n
<1>4. \A k \in n + 1..Len(market) : b < BucketOf(market, k)
  BY <1>1, <1>3 DEF n
<1>5. ASSUME LitIn(dark, b)
      PROVE  IsBarOf(current, market, b)
  <2>1. Sums(current, market, b, HeardOf(market, Read, b))
    BY <1>2, <1>5 DEF OpenOk
  <2>2. HeardOf(market, Read, b) = InOf(market, b)
    <3>1. \A i \in 1..Len(market) : i \in 1..Read \/ i = n \/ i \in n + 1..Len(market)
      BY <1>1, <1>3 DEF n
    <3>2. \A i \in 1..Len(market) : BucketOf(market, i) = b => i \in 1..Read
      BY <1>1, <1>3, <1>4, <3>1 DEF n
    <3>3. \A i \in 1..Read : i \in 1..Len(market)
      BY <1>1, <1>3 DEF n
    <3> QED BY <1>3, <3>2, <3>3 DEF HeardOf, InOf
  <2>3. InOf(market, b) # {}
    BY <2>1, <2>2 DEF Sums
  <2> QED BY <2>1, <2>2, <2>3 DEF IsBarOf
<1>6. b < Today /\ Known(market, b)
  BY <1>1, <1>2, <1>3 DEF OpenOk, n
<1> QED BY <1>4, <1>5, <1>6 DEF BarOk, n

\* The bar that is open takes what is heard of its bucket.
LEMMA BarExtended ==
  ASSUME CandleInv, connected, wire # <<>>, current # Candles!NoBar,
         ~(current.bucket < BucketOf(market, Read + 1))
  PROVE  LET bar == Candles!Extended(current, market[Read + 1])
         IN  /\ OpenOk(bar, market, Today, Read + 1, dark)
             /\ bar.bucket = current.bucket
             /\ SeamOk(bar, market, Today, Read + 1, dark)
<1> DEFINE n == Read + 1
           bar == Candles!Extended(current, market[n])
           b == current.bucket
<1>1. /\ n \in 1..Len(market) /\ n \in Read + 1..Len(market) /\ Read \in Nat /\ n \in Nat
      /\ BucketOf(market, n) \in Nat /\ Today \in Nat
      /\ \A k \in n + 1..Len(market) : k \in Read + 1..Len(market)
      /\ \A i \in 1..n : i \in 1..Read \/ i = n
      /\ \A i \in 1..Read : i \in 1..n /\ BucketOf(market, i) \in Nat
  BY TradeHeard
<1>2. market \in Seq(TradeType) /\ SeamOk(current, market, Today, Read, dark)
      /\ OpenOk(current, market, Today, Read, dark)
  BY DEF CandleInv, CandleTypes, BarsOk
<1>3. current \in BarType /\ b \in Nat /\ BucketOf(market, n) = b
  <2>1. current \in BarType /\ b \in Nat /\ b <= BucketOf(market, n)
    BY <1>1, <1>2 DEF OpenOk, BarType
  <2> QED BY <1>1, <2>1
<1>4. bar \in BarType /\ bar.bucket = b
  <2>1. market[n].price \in Nat
    BY <1>1, <1>2, TradesAre
  <2> DEFINE hi == IF current.high >= market[n].price THEN current.high ELSE market[n].price
             lo == IF current.low <= market[n].price THEN current.low ELSE market[n].price
  <2>2. /\ current.high \in Nat /\ current.low \in Nat /\ current.trades \in Nat
        /\ current = [bucket |-> b, open |-> current.open, high |-> current.high, low |-> current.low,
                      close |-> current.close, trades |-> current.trades] /\ current.open \in Nat
    BY <1>3 DEF BarType
  <2>3. hi \in Nat /\ lo \in Nat
    BY <2>1, <2>2
  <2>4. bar = [current EXCEPT !.high = hi, !.low = lo, !.close = market[n].price,
                              !.trades = current.trades + 1]
    BY DEF Candles!Extended, Candles!Higher, Candles!Lower
  <2> HIDE DEF hi, lo, bar
  <2>5. bar = [bucket |-> b, open |-> current.open, high |-> hi, low |-> lo,
               close |-> market[n].price, trades |-> current.trades + 1]
    BY <2>2, <2>4
  <2> QED BY <1>3, <2>1, <2>2, <2>3, <2>5 DEF BarType
<1>5. ASSUME LitIn(dark, b)
      PROVE  Sums(bar, market, b, HeardOf(market, n, b))
  <2>1. Sums(current, market, b, HeardOf(market, Read, b))
    BY <1>2, <1>5 DEF OpenOk
  <2>2. HeardOf(market, Read, b) \in SUBSET (1..Read)
    BY DEF HeardOf
  <2>3. HeardOf(market, n, b) = HeardOf(market, Read, b) \cup {n}
    <3>1. n \in 1..n
      BY <1>1
    <3> HIDE DEF n
    <3> QED BY <1>1, <1>3, <3>1 DEF HeardOf
  <2>4. n <= Len(market)
    BY <1>1
  <2>5. Sums(bar, market, b, HeardOf(market, Read, b) \cup {Read + 1})
    BY <1>1, <1>2, <1>3, <2>1, <2>2, <2>4, ExtendedSums
  <2> QED BY <2>3, <2>5
<1> HIDE DEF bar, n
<1>6. OpenOk(bar, market, Today, n, dark)
  BY <1>1, <1>2, <1>4, <1>5 DEF OpenOk
<1>7. SeamOk(bar, market, Today, n, dark)
  BY <1>1, <1>2, <1>3, <1>4 DEF SeamOk
<1> QED BY <1>4, <1>6, <1>7 DEF bar, n

\* A trade received extends the open bar, or closes it and opens the next.
LEMMA SessionReceives ==
  ASSUME CandleInv, Candles!Receive
  PROVE  CandleInv'
<1> DEFINE n == Read + 1
           t == market[n]
<1>1. /\ connected /\ wire # <<>> /\ wire' = Tail(wire)
      /\ current' = Candles!Rolled(Head(wire))[1] /\ history' = Candles!Rolled(Head(wire))[2]
      /\ UNCHANGED <<now, market, session, connected, dark, forming>>
  BY DEF Candles!Receive
<1>2. CandleTypes /\ StreamOk /\ BarsOk
  BY DEF CandleInv
<1>3. /\ n \in 1..Len(market) /\ n \in Read + 1..Len(market) /\ Read \in Nat /\ n \in Nat
      /\ Head(wire) = t /\ BucketOf(market, n) \in Nat /\ Today \in Nat
      /\ Tail(wire) \in Seq(TradeType) /\ Len(Tail(wire)) = Len(wire) - 1
      /\ \A k \in 1..Len(wire) - 1 : Tail(wire)[k] = market[n + k]
      /\ Len(market) - (Len(wire) - 1) = n /\ Len(wire) - 1 <= Len(market)
  BY <1>1, TradeHeard
<1>4. Read' = n /\ Today' = Today
  BY <1>1, <1>3 DEF Read, Today
<1>5. Candles!Bucket(t.at) = BucketOf(market, n)
  BY DEF BucketOf
<1> HIDE DEF n
<1>6. StreamOk'
  BY <1>1, <1>2, <1>3, <1>4 DEF StreamOk
<1>7. HistoryOk(history, market, Today, n, dark, forming)
  <2>1. history \in Seq(BarType) /\ Today <= Today /\ Read <= n /\ dark \subseteq dark
    BY <1>2, <1>3 DEF CandleTypes, n
  <2> QED BY <1>2, <1>3, <2>1, HistoryStays DEF BarsOk
<1>8. \A i \in 1..Len(history) :
         /\ history[i].bucket <= BucketOf(market, n) /\ history[i].bucket \in Nat
         /\ history[i].bucket # forming => history[i].bucket < BucketOf(market, n)
  <2>1. \A i \in 1..Len(history) : history[i].bucket \in Nat
    BY CandleFacts DEF BarType
  <2> QED BY <1>2, <1>3, <2>1 DEF BarsOk, HistoryOk, BarOk, FormingOk
<1>9. CASE current = Candles!NoBar
  <2>1. current' = Candles!Opened(t) /\ history' = history
    BY <1>1, <1>3, <1>9 DEF Candles!Rolled
  <2>2. /\ OpenOk(current', market, Today, n, dark) /\ current'.bucket = BucketOf(market, n)
        /\ SeamOk(current', market, Today, n, dark)
    BY <1>1, <1>9, <2>1, BucketOpens DEF n
  <2>3. CandleTypes'
    BY <1>1, <1>2, <1>3, <2>1 DEF CandleTypes
  <2>4. NextInOrder(history, current', forming)
    <3>1. OpenOk(current', market, Today, n, dark) => current' # Candles!NoBar
      BY <1>3 DEF OpenOk, BarType, Candles!NoBar
    <3>2. \A i \in 1..Len(history) : history[i].bucket = forming => i = Len(history)
      BY <1>2, <1>9 DEF BarsOk, NextInOrder
    <3>3. \A i \in 1..Len(history) : history[i].bucket < BucketOf(market, n)
                                     \/ (i = Len(history) /\ history[i].bucket = forming
                                         /\ BucketOf(market, n) = forming)
      BY <1>3, <1>8, <3>2
    <3> QED BY <2>2, <3>1, <3>3 DEF NextInOrder
  <2>5. BarsOk'
    BY <1>1, <1>2, <1>4, <1>7, <2>1, <2>2, <2>4 DEF BarsOk
  <2> QED BY <1>6, <2>3, <2>5 DEF CandleInv
<1>10. CASE current # Candles!NoBar /\ current.bucket < BucketOf(market, n)
  <2>1. current \in BarType /\ current.bucket \in Nat
    BY <1>2, <1>10 DEF BarsOk, OpenOk, BarType
  <2>2. current' = Candles!Opened(t) /\ history' = Append(history, current)
    BY <1>1, <1>3, <1>5, <1>10, <2>1 DEF Candles!Rolled
  <2>3. /\ OpenOk(current', market, Today, n, dark) /\ current'.bucket = BucketOf(market, n)
        /\ SeamOk(current', market, Today, n, dark)
    BY <1>1, <1>10, <2>2, BucketOpens DEF n
  <2>4. BarOk(current, market, Today, n, dark)
    BY <1>1, <1>10, BarSealed DEF n
  <2>5. /\ history' \in Seq(BarType) /\ Len(history) \in Nat /\ Len(history') = Len(history) + 1
        /\ (\A i \in 1..Len(history) : history'[i] = history[i])
        /\ history'[Len(history) + 1] = current
        /\ \A i \in 1..Len(history') : i \in 1..Len(history) \/ i = Len(history) + 1
    <3>1. history \in Seq(BarType)
      BY <1>2 DEF CandleTypes
    <3> QED BY <2>1, <2>2, <3>1, Appended
  <2>6. HistoryOk(history', market, Today, n, dark, forming)
    <3>1. FormingOk(current, market, Today, n)
      <4>1. current.bucket <= Today
        BY <1>3, <2>1, <2>4 DEF BarOk
      <4>2. \A k \in n + 1..Len(market) : BucketOf(market, k) \in Nat
        BY <1>1, TradeHeard DEF n
      <4> QED BY <2>1, <2>4, <4>1, <4>2 DEF BarOk, FormingOk
    <3> QED BY <1>7, <2>4, <2>5, <3>1 DEF HistoryOk
  <2>7. \A i \in 1..Len(history) :
            history[i].bucket < current.bucket
            \/ (i = Len(history) /\ history[i].bucket = forming /\ current.bucket = forming)
    BY <1>2, <1>10 DEF BarsOk, NextInOrder
  <2>8. InOrder(history', forming)
    <3> SUFFICES ASSUME NEW i \in 1..Len(history'), NEW j \in 1..Len(history'), i < j
                 PROVE  \/ history'[i].bucket < history'[j].bucket
                        \/ j = i + 1 /\ history'[i].bucket = forming /\ history'[j].bucket = forming
      BY DEF InOrder
    <3>1. i \in 1..Len(history)
      BY <2>5
    <3>2. CASE j = Len(history) + 1
      BY <2>5, <2>7, <3>1, <3>2
    <3>3. CASE j \in 1..Len(history)
      BY <1>2, <2>5, <3>1, <3>3 DEF BarsOk, InOrder
    <3> QED BY <2>5, <3>2, <3>3
  <2>9. NextInOrder(history', current', forming)
    <3>1. OpenOk(current', market, Today, n, dark) => current' # Candles!NoBar
      BY <1>3 DEF OpenOk, BarType, Candles!NoBar
    <3>2. \A i \in 1..Len(history) : history[i].bucket < BucketOf(market, n)
      BY <1>3, <1>8, <1>10, <2>1, <2>7
    <3>3. \A i \in 1..Len(history') : history'[i].bucket < current'.bucket
      BY <1>10, <2>3, <2>5, <3>2
    <3> QED BY <2>3, <3>1, <3>3 DEF NextInOrder
  <2>10. CandleTypes'
    BY <1>1, <1>2, <1>3, <2>5 DEF CandleTypes
  <2>11. BarsOk'
    BY <1>1, <1>4, <2>3, <2>6, <2>8, <2>9 DEF BarsOk
  <2> QED BY <1>6, <2>10, <2>11 DEF CandleInv
<1>11. CASE current # Candles!NoBar /\ ~(current.bucket < BucketOf(market, n))
  <2>1. current \in BarType /\ current.bucket \in Nat
    BY <1>2, <1>11 DEF BarsOk, OpenOk, BarType
  <2>2. current' = Candles!Extended(current, t) /\ history' = history
    BY <1>1, <1>3, <1>5, <1>11, <2>1 DEF Candles!Rolled
  <2>3. /\ OpenOk(current', market, Today, n, dark) /\ current'.bucket = current.bucket
        /\ SeamOk(current', market, Today, n, dark)
    BY <1>1, <1>11, <2>2, BarExtended DEF n
  <2>4. CandleTypes'
    BY <1>1, <1>2, <1>3, <2>2 DEF CandleTypes
  <2>5. NextInOrder(history, current', forming)
    <3>1. OpenOk(current', market, Today, n, dark) => current' # Candles!NoBar
      BY <1>3 DEF OpenOk, BarType, Candles!NoBar
    <3> QED BY <1>2, <1>11, <2>3, <3>1 DEF BarsOk, NextInOrder
  <2>6. BarsOk'
    BY <1>1, <1>2, <1>4, <1>7, <2>2, <2>3, <2>5 DEF BarsOk
  <2> QED BY <1>6, <2>4, <2>6 DEF CandleInv
<1> QED BY <1>9, <1>10, <1>11

\* A step of the other components leaves the candles alone.
LEMMA CandlesRest ==
  ASSUME CandleInv, UNCHANGED candleVars
  PROVE  CandleInv'
BY DEF CandleInv, candleVars, CandleTypes, StreamOk, BarsOk, Today, Read

\* The invariant holds at first.
LEMMA CandlesBegin ==
  ASSUME Candles!Init
  PROVE  CandleInv
<1>1. /\ now = 0 /\ market = <<>> /\ session = [stage |-> "none", count |-> 0]
      /\ wire = <<>> /\ connected = FALSE /\ current = Candles!NoBar /\ history = <<>>
  BY DEF Candles!Init
<1>2. /\ market \in Seq(TradeType) /\ wire \in Seq(TradeType) /\ history \in Seq(BarType)
      /\ Len(market) = 0 /\ Len(wire) = 0 /\ Len(history) = 0
  BY <1>1, EmptySeq
<1>3. CandleTypes
  BY <1>1, <1>2 DEF CandleTypes
<1>4. StreamOk
  BY <1>1, <1>2 DEF StreamOk
<1>5. BarsOk
  BY <1>1, <1>2 DEF BarsOk, HistoryOk, InOrder, NextInOrder
<1> QED BY <1>3, <1>4, <1>5 DEF CandleInv

\* Every step keeps it.
LEMMA CandlesGoOn ==
  ASSUME CandleInv, [FeedsNext]_<<part, vars, recorderVars, candleVars>>
  PROVE  CandleInv'
<1>1. CASE Candles!Next
  BY <1>1, TickPasses, MarketTrades, SessionStarts, SessionConnects, SocketDrops, SessionReceives,
     SessionStops DEF Candles!Next
<1>2. CASE UNCHANGED candleVars
  BY <1>2, CandlesRest
<1> QED BY <1>1, <1>2 DEF FeedsNext

\* Every bar but those of the bucket that was forming when the history was seeded is
\* processed once, in order, when its bucket is over, and is the exchange's unless the
\* socket was down in some tick of it; those of that bucket are two at most, and follow
\* each other (seed_history, TimeframeAggregator.on_trade, run_live).
THEOREM ProcessedBarsAreTrue == FeedsSpec => []BarsAreTrue
<1>1. FeedsInit => CandleInv
  BY CandlesBegin DEF FeedsInit
<1>2. CandleInv => BarsAreTrue
  <2> SUFFICES ASSUME CandleInv
               PROVE  BarsAreTrue
    OBVIOUS
  <2>1. /\ market \in Seq(TradeType) /\ history \in Seq(BarType) /\ BarsOk /\ now \in Nat
        /\ DOMAIN history = 1..Len(history)
        /\ \A i \in 1..Len(history) : history[i].bucket \in Nat
    <3>1. history \in Seq(BarType)
      BY DEF CandleInv, CandleTypes
    <3>2. DOMAIN history = 1..Len(history)
      BY <3>1, RangeIs
    <3> QED BY <3>1, <3>2, CandleFacts DEF CandleInv, CandleTypes, BarType
  <2>2. ASSUME NEW i \in 1..Len(history), history[i].bucket # forming
        PROVE  /\ Candles!Ended(history[i].bucket)
               /\ Candles!Lit(history[i].bucket) => history[i] = Candles!TrueBar(history[i].bucket)
    <3> DEFINE b == history[i].bucket
    <3>1. b \in Nat /\ b < Today /\ (LitIn(dark, b) => IsBarOf(history[i], market, b))
      BY <2>1, <2>2 DEF BarsOk, HistoryOk, BarOk
    <3> HIDE DEF b
    <3>2. Candles!Ended(b)
      BY <2>1, <3>1, Buckets DEF Today, Candles!Ended
    <3>3. Candles!Lit(b) => LitIn(dark, b)
      BY DEF Candles!Lit, LitIn
    <3>4. Candles!Lit(b) => history[i] = Candles!TrueBar(b)
      BY <2>1, <3>1, <3>3, TrueBarIs
    <3> QED BY <3>2, <3>4 DEF b
  <2>3. \A i, j \in DOMAIN history : i < j =>
            \/ history[i].bucket < history[j].bucket
            \/ j = i + 1 /\ history[i].bucket = forming /\ history[j].bucket = forming
    BY <2>1 DEF BarsOk, InOrder
  <2> QED BY <2>1, <2>2, <2>3 DEF BarsAreTrue, Candles!BarsAreTrue
<1>3. CandleInv /\ [FeedsNext]_<<part, vars, recorderVars, candleVars>> => CandleInv'
  BY CandlesGoOn
<1> QED BY <1>1, <1>2, <1>3, PTL DEF FeedsSpec
-----------------------------------------------------------------------------
(* Reading a recording back, frame by frame.                               *)

Runs(f, b, fs) ==
    f[0] = b /\ \A i \in 1..Len(fs) : f[i] = Recorder!Replayed(f[i - 1], fs[i])

LEMMA RunExists == ASSUME NEW b, NEW fs, Len(fs) \in Nat PROVE \E f : Runs(f, b, fs)
<1> DEFINE n == Len(fs)
           Upto(f, m) == f[0] = b /\ \A i \in 1..m : f[i] = Recorder!Replayed(f[i - 1], fs[i])
           S == {m \in 0..n : \E f : Upto(f, m)}
<1>1. 0 \in S
  <2>1. Upto([i \in {0} |-> b], 0)
    OBVIOUS
  <2> HIDE DEF Upto
  <2> QED BY <2>1
<1>2. ASSUME NEW m \in 0..(n - 1), m \in S PROVE m + 1 \in S
  <2>1. PICK f : Upto(f, m)
    BY <1>2
  <2> DEFINE g == [i \in 0..m + 1 |-> IF i = m + 1 THEN Recorder!Replayed(f[m], fs[m + 1]) ELSE f[i]]
  <2>2. g[m + 1] = Recorder!Replayed(f[m], fs[m + 1]) /\ \A i \in 0..m : g[i] = f[i]
    OBVIOUS
  <2> HIDE DEF g
  <2>3. g[0] = b
    BY <2>1, <2>2
  <2>4. ASSUME NEW i \in 1..m + 1 PROVE g[i] = Recorder!Replayed(g[i - 1], fs[i])
    <3>1. CASE i = m + 1
      <4>1. i - 1 = m /\ m \in 0..m
        BY <3>1
      <4> QED BY <2>2, <3>1, <4>1
    <3>2. CASE i # m + 1
      <4>1. i \in 1..m /\ i \in 0..m /\ i - 1 \in 0..m
        BY <3>2
      <4> QED BY <2>1, <2>2, <4>1
    <3> QED BY <3>1, <3>2
  <2>5. Upto(g, m + 1)
    BY <2>3, <2>4
  <2>6. m + 1 \in 0..n
    BY <1>2
  <2> HIDE DEF Upto
  <2> QED BY <2>5, <2>6
<1> HIDE DEF S
<1>3. n \in S
  <2>1. 0..n \subseteq S
    BY <1>1, <1>2, Counting
  <2> QED BY <2>1
<1>4. \E f : Upto(f, n)
  BY <1>3 DEF S
<1> QED BY <1>4, Zenon DEF Runs

\* There is one result.
LEMMA RunIsOne ==
  ASSUME NEW b, NEW fs, Len(fs) \in Nat, NEW f, Runs(f, b, fs), NEW g, Runs(g, b, fs)
  PROVE  f[Len(fs)] = g[Len(fs)]
<1> DEFINE n == Len(fs)
           S == {m \in 0..n : f[m] = g[m]}
<1>1. 0 \in S
  BY DEF Runs
<1>2. ASSUME NEW m \in 0..(n - 1), m \in S PROVE m + 1 \in S
  <2>1. m + 1 \in 1..n /\ m + 1 - 1 = m /\ f[m] = g[m]
    BY <1>2
  <2> QED BY <2>1 DEF Runs
<1> HIDE DEF S
<1>3. 0..n \subseteq S
  BY <1>1, <1>2, Counting
<1> QED BY <1>3 DEF S

LEMMA ReplayIs ==
  ASSUME NEW b, NEW fs, Len(fs) \in Nat, NEW f, Runs(f, b, fs)
  PROVE  Recorder!ReplayFrom(b, fs) = f[Len(fs)]
<1> DEFINE n == Len(fs)
           Step(h, i) == IF i = 0 THEN b ELSE Recorder!Replayed(h[i - 1], fs[i])
           g == [i \in 0..n |-> f[i]]
<1>1. \A i \in 0..n : g[i] = f[i]
  OBVIOUS
<1> HIDE DEF g
<1>2. ASSUME NEW i \in 0..n PROVE g[i] = Step(g, i)
  <2>1. CASE i = 0
    BY <1>1, <2>1 DEF Runs
  <2>2. CASE i # 0
    <3>1. i \in 1..n /\ i - 1 \in 0..n
      BY <2>2
    <3> QED BY <1>1, <2>2, <3>1 DEF Runs
  <2> QED BY <2>1, <2>2
<1>3. g = [i \in 0..n |-> Step(g, i)]
  BY <1>2 DEF g
<1> DEFINE w == CHOOSE h : h = [i \in 0..n |-> Step(h, i)]
<1>4. w = [i \in 0..n |-> Step(w, i)]
  BY <1>3
<1>5. Recorder!ReplayFrom(b, fs) = w[n]
  BY DEF Recorder!ReplayFrom
<1> HIDE DEF w
<1>6. Runs(w, b, fs)
  <2>1. w[0] = b
    <3>1. 0 \in 0..n
      OBVIOUS
    <3> QED BY <1>4, <3>1
  <2>2. ASSUME NEW i \in 1..n PROVE w[i] = Recorder!Replayed(w[i - 1], fs[i])
    <3>1. i \in 0..n /\ i # 0
      OBVIOUS
    <3> QED BY <1>4, <3>1
  <2> QED BY <2>1, <2>2 DEF Runs
<1> QED BY <1>5, <1>6, RunIsOne

LEMMA ReplayNone == \A b : Recorder!ReplayFrom(b, <<>>) = b
<1> TAKE b
<1>1. Runs([i \in {0} |-> b], b, <<>>)
  BY DEF Runs
<1>2. Len(<<>>) = 0
  OBVIOUS
<1> QED BY <1>1, <1>2, ReplayIs

\* A recording read in two parts.
LEMMA ReplayJoined ==
  ASSUME NEW b, NEW S, NEW s \in Seq(S), NEW t \in Seq(S)
  PROVE  Recorder!ReplayFrom(b, s \o t) = Recorder!ReplayFrom(Recorder!ReplayFrom(b, s), t)
<1> DEFINE u == s \o t
           m == Len(s)
           n == Len(t)
<1>1. /\ m \in Nat /\ n \in Nat /\ Len(u) = m + n
      /\ \A i \in 1..m + n : u[i] = IF i <= m THEN s[i] ELSE t[i - m]
  BY ConcatProperties, LenProperties
<1> HIDE DEF u
<1>2. Len(u) \in Nat
  BY <1>1
<1>3. PICK f : Runs(f, b, u)
  BY <1>2, RunExists
<1>4. Runs(f, b, s)
  <2>1. ASSUME NEW i \in 1..m PROVE f[i] = Recorder!Replayed(f[i - 1], s[i])
    <3>1. i \in 1..Len(u) /\ u[i] = s[i]
      BY <1>1
    <3> QED BY <1>3, <3>1 DEF Runs
  <2> QED BY <1>3, <2>1 DEF Runs
<1> DEFINE g == [i \in 0..n |-> f[m + i]]
<1>5. Runs(g, f[m], t)
  <2>1. g[0] = f[m]
    BY <1>1
  <2>2. ASSUME NEW i \in 1..n PROVE g[i] = Recorder!Replayed(g[i - 1], t[i])
    <3> DEFINE j == m + i
    <3>3. j \in 1..m + n /\ ~(j <= m) /\ j - m = i
      BY <1>1
    <3>4. u[j] = t[i]
      BY <1>1, <3>3
    <3>5. i \in 0..n /\ i - 1 \in 0..n /\ m + (i - 1) = j - 1
      BY <1>1
    <3>1. j \in 1..Len(u) /\ u[j] = t[i] /\ i \in 0..n /\ i - 1 \in 0..n /\ m + (i - 1) = j - 1
      BY <1>1, <3>3, <3>4, <3>5
    <3>2. g[i] = f[j] /\ g[i - 1] = f[j - 1]
      BY <3>1
    <3> HIDE DEF j, g
    <3> QED BY <1>3, <3>1, <3>2 DEF Runs
  <2> QED BY <2>1, <2>2 DEF Runs
<1>6. g[n] = f[m + n]
  BY <1>1
<1> HIDE DEF g
<1>7. Recorder!ReplayFrom(b, u) = f[m + n] /\ Recorder!ReplayFrom(b, s) = f[m]
      /\ Recorder!ReplayFrom(f[m], t) = g[n]
  BY <1>1, <1>2, <1>3, <1>4, <1>5, ReplayIs
<1> QED BY <1>6, <1>7 DEF u

LEMMA ReplayOne == \A b, f : Recorder!ReplayFrom(b, <<f>>) = Recorder!Replayed(b, f)
<1> TAKE b, f
<1> DEFINE g == [i \in 0..1 |-> IF i = 0 THEN b ELSE Recorder!Replayed(b, f)]
<1>1. g[0] = b /\ g[1] = Recorder!Replayed(b, f)
  OBVIOUS
<1> HIDE DEF g
<1>2. Len(<<f>>) = 1 /\ \A i \in 1..1 : i = 1 /\ i - 1 = 0 /\ <<f>>[i] = f
  OBVIOUS
<1>3. Runs(g, b, <<f>>)
  BY <1>1, <1>2 DEF Runs
<1> QED BY <1>1, <1>2, <1>3, ReplayIs

\* Whoever has a book has the same one, wherever they began to read.
LEMMA CatchesUp ==
  ASSUME NEW b, NEW c, ~c.synced, NEW fs, Len(fs) \in Nat, Recorder!ReplayFrom(c, fs).synced
  PROVE  Recorder!ReplayFrom(b, fs) = Recorder!ReplayFrom(c, fs)
<1> DEFINE n == Len(fs)
<1>1. PICK f : Runs(f, b, fs)
  BY RunExists
<1>2. PICK g : Runs(g, c, fs)
  BY RunExists
<1> DEFINE S == {m \in 0..n : g[m].synced => f[m] = g[m]}
<1>3. 0 \in S
  BY <1>2 DEF Runs
<1>4. ASSUME NEW m \in 0..(n - 1), m \in S PROVE m + 1 \in S
  <2>1. m + 1 \in 1..n /\ m + 1 - 1 = m /\ m + 1 \in 0..n /\ (g[m].synced => f[m] = g[m])
    BY <1>4
  <2>2. /\ g[m + 1] = Recorder!Replayed(g[m], fs[m + 1])
        /\ f[m + 1] = Recorder!Replayed(f[m], fs[m + 1])
    BY <1>1, <1>2, <2>1 DEF Runs
  <2>3. g[m + 1].synced => f[m + 1] = g[m + 1]
    <3>1. CASE fs[m + 1].kind = "snapshot"
      BY <2>2, <3>1 DEF Recorder!Replayed
    <3>2. CASE fs[m + 1].kind # "snapshot" /\ g[m].synced
      BY <2>1, <2>2, <3>2
    <3>3. CASE fs[m + 1].kind # "snapshot" /\ ~g[m].synced
      BY <2>2, <3>3 DEF Recorder!Replayed
    <3> QED BY <3>1, <3>2, <3>3
  <2> QED BY <2>1, <2>3
<1> HIDE DEF S
<1>5. 0..n \subseteq S
  BY <1>3, <1>4, Counting
<1>6. g[n].synced => f[n] = g[n]
  BY <1>5 DEF S
<1>7. Recorder!ReplayFrom(b, fs) = f[n] /\ Recorder!ReplayFrom(c, fs) = g[n]
  BY <1>1, <1>2, ReplayIs
<1> QED BY <1>6, <1>7

LEMMA ReplaySuffix ==
  ASSUME NEW S, NEW s \in Seq(S), NEW t \in Seq(S), Recorder!Replay(t).synced
  PROVE  Recorder!Replay(s \o t) = Recorder!Replay(t)
<1>1. ~Recorder!Unread.synced
  BY DEF Recorder!Unread
<1>2. Recorder!Replay(s \o t)
        = Recorder!ReplayFrom(Recorder!ReplayFrom(Recorder!Unread, s), t)
  BY ReplayJoined DEF Recorder!Replay
<1>3. Len(t) \in Nat
  BY LenProperties
<1> QED BY <1>1, <1>2, <1>3, CatchesUp DEF Recorder!Replay

-----------------------------------------------------------------------------
(* What a reader has since the last gap.                                   *)

Gathers(f, rows) ==
    f[0] = <<>> /\ \A i \in 1..Len(rows) :
        f[i] = IF Recorder!GapBefore(rows, i) THEN rows[i].frames ELSE f[i - 1] \o rows[i].frames

LEMMA SumExists == ASSUME NEW rows, Len(rows) \in Nat PROVE \E f : Gathers(f, rows)
<1> DEFINE n == Len(rows)
           Next1(x, i) == IF Recorder!GapBefore(rows, i) THEN rows[i].frames ELSE x \o rows[i].frames
           Upto(f, m) == f[0] = <<>> /\ \A i \in 1..m : f[i] = Next1(f[i - 1], i)
           S == {m \in 0..n : \E f : Upto(f, m)}
<1> HIDE DEF Next1
<1>1. 0 \in S
  <2>1. Upto([i \in {0} |-> <<>>], 0)
    OBVIOUS
  <2> HIDE DEF Upto
  <2> QED BY <2>1
<1>2. ASSUME NEW m \in 0..(n - 1), m \in S PROVE m + 1 \in S
  <2>1. PICK f : Upto(f, m)
    BY <1>2
  <2> DEFINE g == [i \in 0..m + 1 |-> IF i = m + 1 THEN Next1(f[m], m + 1) ELSE f[i]]
  <2>2. g[m + 1] = Next1(f[m], m + 1) /\ \A i \in 0..m : g[i] = f[i]
    OBVIOUS
  <2> HIDE DEF g
  <2>3. g[0] = <<>>
    BY <2>1, <2>2
  <2>4. ASSUME NEW i \in 1..m + 1 PROVE g[i] = Next1(g[i - 1], i)
    <3>1. CASE i = m + 1
      <4>1. i - 1 = m /\ m \in 0..m
        BY <3>1
      <4> QED BY <2>2, <3>1, <4>1
    <3>2. CASE i # m + 1
      <4>1. i \in 1..m /\ i \in 0..m /\ i - 1 \in 0..m
        BY <3>2
      <4> QED BY <2>1, <2>2, <4>1
    <3> QED BY <3>1, <3>2
  <2>5. Upto(g, m + 1)
    BY <2>3, <2>4
  <2>6. m + 1 \in 0..n
    BY <1>2
  <2> HIDE DEF Upto
  <2> QED BY <2>5, <2>6
<1> HIDE DEF S
<1>3. n \in S
  <2>1. 0..n \subseteq S
    BY <1>1, <1>2, Counting
  <2> QED BY <2>1
<1>4. \E f : Upto(f, n)
  BY <1>3 DEF S
<1> QED BY <1>4, Zenon DEF Gathers, Next1

LEMMA SumIsOne ==
  ASSUME NEW rows, Len(rows) \in Nat, NEW f, Gathers(f, rows), NEW g, Gathers(g, rows)
  PROVE  f[Len(rows)] = g[Len(rows)]
<1> DEFINE n == Len(rows)
           S == {m \in 0..n : f[m] = g[m]}
<1>1. 0 \in S
  BY DEF Gathers
<1>2. ASSUME NEW m \in 0..(n - 1), m \in S PROVE m + 1 \in S
  <2>1. m + 1 \in 1..n /\ m + 1 - 1 = m /\ f[m] = g[m]
    BY <1>2
  <2> QED BY <2>1 DEF Gathers
<1> HIDE DEF S
<1>3. 0..n \subseteq S
  BY <1>1, <1>2, Counting
<1> QED BY <1>3 DEF S

LEMMA SinceIs ==
  ASSUME NEW rows, Len(rows) \in Nat, NEW f, Gathers(f, rows)
  PROVE  Recorder!SinceGap(rows) = f[Len(rows)]
<1> DEFINE n == Len(rows)
           Step(h, i) == IF i = 0 THEN <<>>
                         ELSE IF Recorder!GapBefore(rows, i) THEN rows[i].frames
                         ELSE h[i - 1] \o rows[i].frames
           g == [i \in 0..n |-> f[i]]
<1>1. \A i \in 0..n : g[i] = f[i]
  OBVIOUS
<1> HIDE DEF g
<1>2. ASSUME NEW i \in 0..n PROVE g[i] = Step(g, i)
  <2>1. CASE i = 0
    BY <1>1, <2>1 DEF Gathers
  <2>2. CASE i # 0
    <3>1. i \in 1..n /\ i - 1 \in 0..n
      BY <2>2
    <3> QED BY <1>1, <2>2, <3>1 DEF Gathers
  <2> QED BY <2>1, <2>2
<1>3. g = [i \in 0..n |-> Step(g, i)]
  BY <1>2 DEF g
<1> DEFINE w == CHOOSE h : h = [i \in 0..n |-> Step(h, i)]
<1>4. w = [i \in 0..n |-> Step(w, i)]
  BY <1>3
<1>5. Recorder!SinceGap(rows) = w[n]
  BY DEF Recorder!SinceGap
<1> HIDE DEF w
<1>6. Gathers(w, rows)
  <2>1. w[0] = <<>>
    <3>1. 0 \in 0..n
      OBVIOUS
    <3> QED BY <1>4, <3>1
  <2>2. ASSUME NEW i \in 1..n
        PROVE  w[i] = IF Recorder!GapBefore(rows, i) THEN rows[i].frames ELSE w[i - 1] \o rows[i].frames
    <3>1. i \in 0..n /\ i # 0
      OBVIOUS
    <3> QED BY <1>4, <3>1
  <2> QED BY <2>1, <2>2 DEF Gathers
<1> QED BY <1>5, <1>6, SumIsOne

\* The number of the last row, and whether a row comes after a gap.
LastSeq(rows) == IF rows = <<>> THEN 0 ELSE rows[Len(rows)].seq
Cuts(rows, r) == r.dropped > 0 \/ r.seq # LastSeq(rows) + 1

LEMMA SinceNone == Recorder!SinceGap(<<>>) = <<>> /\ Recorder!Gapless(<<>>)
<1>1. Gathers([i \in {0} |-> <<>>], <<>>)
  BY DEF Gathers
<1>2. Len(<<>>) = 0
  OBVIOUS
<1>3. Recorder!SinceGap(<<>>) = <<>>
  BY <1>1, <1>2, SinceIs
<1> QED BY <1>2, <1>3 DEF Recorder!Gapless

LEMMA SinceGrows ==
  ASSUME NEW S, NEW rows \in Seq(S), NEW r \in S
  PROVE  /\ Recorder!SinceGap(Append(rows, r))
              = IF Cuts(rows, r) THEN r.frames ELSE Recorder!SinceGap(rows) \o r.frames
         /\ Recorder!Gapless(Append(rows, r)) <=> Recorder!Gapless(rows) /\ ~Cuts(rows, r)
<1> DEFINE n == Len(rows)
           all == Append(rows, r)
<1>1. /\ n \in Nat /\ Len(all) = n + 1 /\ all[n + 1] = r
      /\ \A i \in 1..n : all[i] = rows[i]
  BY AppendProperties, LenProperties
<1>9. n = 0 <=> rows = <<>>
  BY EmptySeq
<1> HIDE DEF all, n
<1>2. ASSUME NEW i \in 1..n PROVE Recorder!GapBefore(all, i) <=> Recorder!GapBefore(rows, i)
  <2>1. CASE i = 1
    BY <1>1, <2>1 DEF Recorder!GapBefore
  <2>2. CASE i # 1
    <3>1. i - 1 \in 1..n
      BY <1>1, <2>2
    <3> QED BY <1>1, <3>1 DEF Recorder!GapBefore
  <2> QED BY <2>1, <2>2
<1>3. Recorder!GapBefore(all, n + 1) <=> Cuts(rows, r)
  <2>1. CASE n = 0
    <3>1. n + 1 = 1 /\ LastSeq(rows) + 1 = 1
      BY <1>9, <2>1 DEF LastSeq
    <3> QED BY <1>1, <3>1 DEF Recorder!GapBefore, Cuts
  <2>2. CASE n # 0
    <3>1. n + 1 # 1 /\ n + 1 - 1 = n /\ n \in 1..n /\ LastSeq(rows) = rows[n].seq
      BY <1>1, <1>9, <2>2 DEF LastSeq, n
    <3> QED BY <1>1, <3>1 DEF Recorder!GapBefore, Cuts
  <2> QED BY <2>1, <2>2
<1>4. PICK f : Gathers(f, all)
  BY <1>1, SumExists
<1>5. Gathers(f, rows)
  <2>1. ASSUME NEW i \in 1..n
        PROVE  f[i] = IF Recorder!GapBefore(rows, i) THEN rows[i].frames ELSE f[i - 1] \o rows[i].frames
    <3>1. i \in 1..Len(all)
      BY <1>1
    <3> QED BY <1>1, <1>2, <1>4, <3>1 DEF Gathers
  <2> QED BY <1>4, <2>1 DEF Gathers, n
<1>6. f[n + 1] = IF Cuts(rows, r) THEN r.frames ELSE f[n] \o r.frames
  <2>1. n + 1 \in 1..Len(all) /\ n + 1 - 1 = n
    BY <1>1
  <2> QED BY <1>1, <1>3, <1>4, <2>1 DEF Gathers
<1>7. Recorder!SinceGap(all) = f[n + 1] /\ Recorder!SinceGap(rows) = f[n]
  BY <1>1, <1>4, <1>5, SinceIs DEF n
<1>8. Recorder!Gapless(all) <=> Recorder!Gapless(rows) /\ ~Cuts(rows, r)
  <2>1. \A i \in 1..n + 1 : i \in 1..n \/ i = n + 1
    BY <1>1
  <2>2. \A i \in 1..n : i \in 1..n + 1
    BY <1>1
  <2>3. n + 1 \in 1..n + 1
    BY <1>1
  <2>4. Recorder!Gapless(all) <=> \A i \in 1..n + 1 : ~Recorder!GapBefore(all, i)
    BY <1>1 DEF Recorder!Gapless
  <2>5. Recorder!Gapless(rows) <=> \A i \in 1..n : ~Recorder!GapBefore(rows, i)
    BY DEF Recorder!Gapless, n
  <2> QED BY <1>2, <1>3, <2>1, <2>2, <2>3, <2>4, <2>5, Zenon
<1> QED BY <1>6, <1>7, <1>8 DEF all
-----------------------------------------------------------------------------
(* The invariant of the recorder.                                          *)

LevelType == UNION {[D -> Nat] : D \in SUBSET Recorder!Levels}
TapeFrame == [kind : {"delta", "snapshot", "trade"}, u : Nat, levels : LevelType]
RowType == [seq : Nat, dropped : Nat, frames : Seq(TapeFrame)]
RecorderType ==
    [state : {"RECORDING", "EXHAUSTED"}, buffer : Seq(TapeFrame), pending : Seq(TapeFrame),
     dropped : Nat, seq : Nat, stored : Nat]
Recording == recorder.state = "RECORDING"

\* What a reader of the rows in kept and of the buffer has since the last gap, and
\* whether there was none.
SettledOf(kept, r) ==
    (IF r.dropped > 0 \/ r.seq # LastSeq(kept) THEN <<>> ELSE Recorder!SinceGap(kept)) \o r.buffer
WholeOf(kept, r) == Recorder!Gapless(kept) /\ r.dropped = 0 /\ r.seq = LastSeq(kept)

Kept == table \o thread.row
Settled == SettledOf(Kept, recorder)
Whole == WholeOf(Kept, recorder)

Seeding(s) == [doing |-> "seeding", seed |-> <<s>>, row |-> <<>>]
Writing(row) == [doing |-> "writing", seed |-> <<>>, row |-> <<row>>]
ThreadOk ==
    \/ thread = Recorder!Idle
    \/ \E s \in TapeFrame :
          /\ thread = Seeding(s) /\ s.kind = "snapshot" /\ s.u <= engineBook.lastU
          /\ s.levels = Recorder!BookAt(s.u)
    \/ \E row \in RowType :
          thread = Writing(row) /\ row.seq = recorder.seq /\ LastSeq(table) < recorder.seq

RecorderOk ==
    /\ recorder \in RecorderType /\ table \in Seq(RowType) /\ tape \in Nat
    /\ LastSeq(table) <= recorder.seq
    /\ newest \in Nat /\ newest <= tapped.u
    /\ recorder.pending # <<>> =>
          \E p \in TapeFrame : recorder.pending = <<p>> /\ p.kind = "delta" /\ p.u <= tapped.u

IsEngineBook ==
    engineBook = [levels |-> engineBook.levels, synced |-> engineBook.synced, lastU |-> engineBook.lastU]
EngineOk ==
    /\ tapped \in [u : Nat, lost : Nat]
    /\ IsEngineBook /\ engineBook.synced \in BOOLEAN /\ engineBook.lastU \in 0..tapped.u
    /\ engineBook.synced => engineBook.levels = Recorder!BookAt(engineBook.lastU)
    /\ frame # <<>> =>
          \E u \in engineBook.lastU..tapped.u :
              \/ frame = <<Recorder!Snapshot(u)>>
              \/ u # 0 /\ frame = <<Recorder!Delta(u)>>

\* From a frames on: the trades of fs are the ones after a, up to b.
Counts(f, fs, a, b) ==
    /\ f[0] = a /\ f[Len(fs)] = b
    /\ \A i \in 1..Len(fs) :
          IF fs[i].kind = "trade" THEN f[i] = f[i - 1] + 1 /\ fs[i].u = f[i] ELSE f[i] = f[i - 1]
Carries(fs, a, b) == \E f \in [0..Len(fs) -> Nat] : Counts(f, fs, a, b)

TapeOk == Recording => \E a \in Nat : Carries(Settled, a, tape) /\ (Whole => a = 0)

\* The book when the frame in the ingest thread's hand is applied.
Coming == IF frame = <<>> THEN engineBook ELSE Recorder!Applied(engineBook, frame[1])

\* Over every book since the window began, the pending deltas make this one.
Completes(p, from, u) ==
    \A v \in from..u : Recorder!Over(p.levels, Recorder!BookAt(v)) = Recorder!BookAt(u)

WindowOk(pending, n, u) ==
    /\ n <= u /\ (pending = <<>> => n = u)
    /\ pending # <<>> => pending[1].u = u /\ Completes(pending[1], n, u)
ReplayOk(fs, b) == Recorder!Replay(fs).synced => Recorder!Replay(fs).levels = b.levels

MirrorOk ==
    Recording /\ Coming.synced =>
        /\ WindowOk(recorder.pending, newest, Coming.lastU)
        /\ ~spoilt => ReplayOk(Settled \o recorder.pending, Coming)

CaptureInv == ThreadOk /\ RecorderOk /\ EngineOk /\ TapeOk /\ MirrorOk
-----------------------------------------------------------------------------
(* The exchange's book, and maps laid over each other.                     *)

LEMMA RecorderHighest ==
  ASSUME NEW S, NEW n \in S, S \subseteq Int, \A m \in S : m <= n
  PROVE  Recorder!Highest(S) = n
<1>1. \A m \in S : (\A k \in S : k <= m) => m = n
  BY SMT
<1> QED BY <1>1 DEF Recorder!Highest

Layers(f, g, h) == Recorder!Over(Recorder!Over(f, g), h) = Recorder!Over(f, Recorder!Over(g, h))

LEMMA OverOver == \A f, g, h : Layers(f, g, h)
BY DEF Recorder!Over, Layers

\* Naming the levels twice changes nothing.
LEMMA OverTwice == \A f, h : Recorder!Over(f, Recorder!Over(f, h)) = Recorder!Over(f, h)
BY DEF Recorder!Over

LEMMA OverTyped == \A f, g \in LevelType : Recorder!Over(f, g) \in LevelType
<1> TAKE f, g \in LevelType
<1>1. PICK D \in SUBSET Recorder!Levels : f \in [D -> Nat]
  BY DEF LevelType
<1>2. PICK E \in SUBSET Recorder!Levels : g \in [E -> Nat]
  BY DEF LevelType
<1> DEFINE o == Recorder!Over(f, g)
<1>3. DOMAIN f = D /\ DOMAIN g = E /\ o = [l \in D \cup E |-> IF l \in D THEN f[l] ELSE g[l]]
  BY <1>1, <1>2 DEF Recorder!Over
<1>4. o \in [D \cup E -> Nat]
  BY <1>1, <1>2, <1>3
<1>5. D \cup E \in SUBSET Recorder!Levels
  OBVIOUS
<1> HIDE DEF o
<1>6. o \in LevelType
  BY <1>4, <1>5 DEF LevelType
<1> QED BY <1>6 DEF o

\* One update more.
LEMMA RecorderBookNext ==
  ASSUME NEW u \in Nat
  PROVE  Recorder!BookAt(u + 1) = Recorder!Over(Recorder!Delta(u + 1).levels, Recorder!BookAt(u))
<1> DEFINE Changes(l, n) == {0} \cup {v \in 1..n : v % 2 = l}
           m == u + 1
<1>1. m \in Nat /\ m % 2 \in Recorder!Levels
  BY DEF Recorder!Levels
<1>2. Recorder!BookAt(u) = [l \in Recorder!Levels |-> Recorder!Highest(Changes(l, u))]
      /\ Recorder!BookAt(m) = [l \in Recorder!Levels |-> Recorder!Highest(Changes(l, m))]
  BY DEF Recorder!BookAt
<1>3. ASSUME NEW l \in Recorder!Levels, l # m % 2
      PROVE  Changes(l, m) = Changes(l, u)
  BY <1>3 DEF Recorder!Levels
<1>4. Recorder!Highest(Changes(m % 2, m)) = m
  <2> DEFINE S == Changes(m % 2, m)
  <2>1. m \in S /\ S \subseteq Int /\ \A k \in S : k <= m
    BY <1>1
  <2> HIDE DEF S
  <2>2. Recorder!Highest(S) = m
    BY <2>1, RecorderHighest
  <2> QED BY <2>2 DEF S
<1>5. Recorder!Delta(m).levels = [l \in {m % 2} |-> m]
  BY DEF Recorder!Delta, Recorder!Frame
<1> HIDE DEF Changes, m
<1>6. Recorder!Over(Recorder!Delta(m).levels, Recorder!BookAt(u))
        = [l \in Recorder!Levels |-> IF l = m % 2 THEN m ELSE Recorder!Highest(Changes(l, u))]
  <2>1. {m % 2} \cup Recorder!Levels = Recorder!Levels
    BY <1>1
  <2> QED BY <1>1, <1>2, <1>5, <2>1 DEF Recorder!Over
<1>7. \A l \in Recorder!Levels :
         Recorder!Highest(Changes(l, m)) = IF l = m % 2 THEN m ELSE Recorder!Highest(Changes(l, u))
  BY <1>3, <1>4
<1>8. Recorder!BookAt(m) = Recorder!Over(Recorder!Delta(m).levels, Recorder!BookAt(u))
  BY <1>2, <1>6, <1>7
<1> QED BY <1>8 DEF m

LEMMA DeltaTyped ==
  \A u \in Nat : Recorder!Delta(u) \in TapeFrame /\ Recorder!Delta(u).levels \in LevelType
<1> TAKE u \in Nat
<1> DEFINE f == [l \in {u % 2} |-> u]
<1>1. {u % 2} \in SUBSET Recorder!Levels /\ f \in [{u % 2} -> Nat]
  BY DEF Recorder!Levels
<1> HIDE DEF f
<1>2. f \in LevelType
  BY <1>1 DEF LevelType
<1>3. Recorder!Delta(u) = [kind |-> "delta", u |-> u, levels |-> f]
  BY DEF Recorder!Delta, Recorder!Frame, f
<1> QED BY <1>2, <1>3 DEF TapeFrame

LEMMA BookTyped == \A u \in Nat : Recorder!BookAt(u) \in LevelType
<1> TAKE u \in Nat
<1> DEFINE S == {v \in 0..u : Recorder!BookAt(v) \in LevelType}
<1>1. 0 \in S
  <2> DEFINE b == [l \in Recorder!Levels |-> 0]
  <2>1. \A l \in Recorder!Levels : {0} \cup {v \in 1..0 : v % 2 = l} = {0}
    OBVIOUS
  <2>2. Recorder!Highest({0}) = 0
    BY RecorderHighest
  <2>3. Recorder!BookAt(0) = b
    BY <2>1, <2>2 DEF Recorder!BookAt
  <2>4. b \in [Recorder!Levels -> Nat] /\ Recorder!Levels \in SUBSET Recorder!Levels
    OBVIOUS
  <2> HIDE DEF b
  <2>5. b \in LevelType
    BY <2>4 DEF LevelType
  <2> QED BY <2>3, <2>5
<1>2. ASSUME NEW v \in 0..(u - 1), v \in S PROVE v + 1 \in S
  <2>1. v \in Nat /\ v + 1 \in Nat /\ v + 1 \in 0..u
    BY <1>2
  <2>2. Recorder!BookAt(v + 1) \in LevelType
    BY <1>2, <2>1, RecorderBookNext, DeltaTyped, OverTyped
  <2> QED BY <2>1, <2>2
<1> HIDE DEF S
<1>3. 0..u \subseteq S
  BY <1>1, <1>2, Counting
<1> QED BY <1>3 DEF S

LEMMA SnapshotTyped == \A u \in Nat : Recorder!Snapshot(u) \in TapeFrame
BY BookTyped DEF Recorder!Snapshot, Recorder!Frame, TapeFrame

LEMMA TradeTyped == \A n \in Nat : Recorder!Trade(n) \in TapeFrame
<1> TAKE n \in Nat
<1>1. <<>> \in [{} -> Nat] /\ {} \in SUBSET Recorder!Levels
  OBVIOUS
<1>2. <<>> \in LevelType
  BY <1>1 DEF LevelType
<1> QED BY <1>2 DEF Recorder!Trade, Recorder!Frame, TapeFrame

LEMMA MergedTyped ==
  \A p, f \in TapeFrame :
      /\ Recorder!Merged(p, f) = [kind |-> p.kind, u |-> f.u, levels |-> Recorder!Over(f.levels, p.levels)]
      /\ Recorder!Merged(p, f) \in TapeFrame
<1> TAKE p, f \in TapeFrame
<1>1. p = [kind |-> p.kind, u |-> p.u, levels |-> p.levels] /\ p.levels \in LevelType /\ f.levels \in LevelType
      /\ f.u \in Nat /\ p.kind \in {"delta", "snapshot", "trade"}
  BY DEF TapeFrame
<1> DEFINE o == Recorder!Over(f.levels, p.levels)
<1>2. o \in LevelType
  BY <1>1, OverTyped
<1>3. Recorder!Merged(p, f) = [kind |-> p.kind, u |-> f.u, levels |-> o]
  BY DEF Recorder!Merged, Recorder!Frame
<1> HIDE DEF o
<1>4. Recorder!Merged(p, f) \in TapeFrame
  BY <1>1, <1>2, <1>3 DEF TapeFrame
<1> QED BY <1>3, <1>4 DEF o
-----------------------------------------------------------------------------
(* What the steps of the recorder make of what a reader has.               *)

\* A reader who has s, all of it or not, has s2 when the frames fs have come: the
\* oldest may be gone, and then not all of it is there.
Follows(s, all, fs, s2, all2) ==
    /\ \E x \in Seq(TapeFrame) : s \o fs = x \o s2
    /\ all2 => all /\ s2 = s \o fs

LEMMA NothingFollows ==
  ASSUME NEW s \in Seq(TapeFrame), NEW all
  PROVE  Follows(s, all, <<>>, s, all)
<1>1. s \o <<>> = s /\ <<>> \o s = s /\ <<>> \in Seq(TapeFrame)
  OBVIOUS
<1> QED BY <1>1 DEF Follows

LEMMA ExcessIs ==
  ASSUME BufferLimit \in Nat, NEW r \in RecorderType, NEW frames \in Seq(TapeFrame)
  PROVE  Recorder!Excess(r, frames) \in 0..Len(r.buffer) + Len(frames)
<1> DEFINE x == Len(r.buffer) + Len(frames)
           y == x - BufferLimit
           S == {0, y}
<1>1. x \in Nat /\ y \in Int /\ y <= x
  <2>1. r.buffer \in Seq(TapeFrame)
    BY DEF RecorderType
  <2>2. Len(r.buffer) \in Nat /\ Len(frames) \in Nat
    BY <2>1, LenProperties
  <2> QED BY <2>2
<1>2. Recorder!Excess(r, frames) = Recorder!Highest(S)
  BY DEF Recorder!Excess
<1> HIDE DEF x, y
<1>3. CASE y <= 0
  <2>1. 0 \in S /\ S \subseteq Int /\ \A m \in S : m <= 0
    BY <1>1, <1>3
  <2> HIDE DEF S
  <2>2. Recorder!Highest(S) = 0
    BY <2>1, RecorderHighest
  <2>3. Recorder!Excess(r, frames) \in 0..x
    BY <1>1, <1>2, <2>2
  <2> QED BY <2>3 DEF x
<1>4. CASE ~(y <= 0)
  <2>1. y \in S /\ S \subseteq Int /\ \A m \in S : m <= y
    BY <1>1, <1>4
  <2> HIDE DEF S
  <2>2. Recorder!Highest(S) = y
    BY <2>1, RecorderHighest
  <2>3. Recorder!Excess(r, frames) \in 0..x
    BY <1>1, <1>2, <1>4, <2>2
  <2> QED BY <2>3 DEF x
<1> QED BY <1>3, <1>4

\* A list whose beginning is cut off.
LEMMA TailOfList ==
  ASSUME NEW S, NEW s \in Seq(S), NEW k \in 0..Len(s)
  PROVE  /\ SubSeq(s, k + 1, Len(s)) \in Seq(S)
         /\ SubSeq(s, 1, k) \in Seq(S)
         /\ s = SubSeq(s, 1, k) \o SubSeq(s, k + 1, Len(s))
         /\ k = 0 => SubSeq(s, k + 1, Len(s)) = s
<1> DEFINE a == SubSeq(s, 1, k)
           b == SubSeq(s, k + 1, Len(s))
<1>1. Len(s) \in Nat /\ k \in Nat /\ DOMAIN s = 1..Len(s) /\ s \in [1..Len(s) -> S]
  BY LenProperties
<1>2. a \in Seq(S) /\ Len(a) = k /\ \A i \in 1..k : a[i] = s[i]
  <2>1. 1..k \subseteq 1..Len(s)
    BY <1>1
  <2>2. a = [i \in 1..k |-> s[i]]
    BY <1>1
  <2>3. a \in [1..k -> S]
    BY <1>1, <2>1, <2>2
  <2> QED BY <1>1, <2>2, <2>3
<1>3. b \in Seq(S) /\ Len(b) = Len(s) - k /\ \A i \in 1..Len(s) - k : b[i] = s[i + k]
  <2>1. \A i \in 1..Len(s) - k : i + k \in 1..Len(s)
    BY <1>1
  <2>2. b = [i \in 1..Len(s) - k |-> s[i + k]]
    BY <1>1
  <2>3. b \in [1..Len(s) - k -> S]
    BY <1>1, <2>1, <2>2
  <2>4. Len(s) - k \in Nat
    BY <1>1
  <2> QED BY <2>2, <2>3, <2>4
<1> HIDE DEF a, b
<1>4. s = a \o b
  <2>1. a \o b \in Seq(S) /\ Len(a \o b) = Len(s)
        /\ \A i \in 1..Len(s) : (a \o b)[i] = IF i <= k THEN a[i] ELSE b[i - k]
    <3>1. k + (Len(s) - k) = Len(s)
      BY <1>1
    <3>2. /\ a \o b \in Seq(S) /\ Len(a \o b) = Len(a) + Len(b)
          /\ \A i \in 1..Len(a) + Len(b) :
                (a \o b)[i] = IF i <= Len(a) THEN a[i] ELSE b[i - Len(a)]
      <4>1. a \in Seq(S) /\ b \in Seq(S)
        BY <1>2, <1>3
      <4> QED BY <4>1, ConcatProperties
    <3> QED BY <1>2, <1>3, <3>1, <3>2
  <2>2. ASSUME NEW i \in 1..Len(s) PROVE (a \o b)[i] = s[i]
    <3>1. CASE i <= k
      BY <1>2, <2>1, <3>1
    <3>2. CASE ~(i <= k)
      <4>1. i - k \in 1..Len(s) - k /\ i - k + k = i
        BY <1>1, <3>2
      <4> QED BY <1>3, <2>1, <3>2, <4>1
    <3> QED BY <3>1, <3>2
  <2> DEFINE c == a \o b
  <2>3. c \in Seq(S) /\ Len(c) = Len(s) /\ \A i \in 1..Len(s) : c[i] = s[i]
    BY <2>1, <2>2
  <2> HIDE DEF c
  <2>4. c = s
    BY <2>3, SeqEqual
  <2> QED BY <2>4 DEF c
<1>5. k = 0 => b = s
  <2> HAVE k = 0
  <2>1. a = <<>>
    BY <1>2, EmptySeq
  <2> QED BY <1>3, <1>4, <2>1
<1> QED BY <1>2, <1>3, <1>4, <1>5 DEF a, b
Chains(s, t, u) ==
    /\ s \o t \in Seq(TapeFrame) /\ t \o u \in Seq(TapeFrame) /\ (s \o t) \o u = s \o (t \o u)
    /\ (s \o t) \o u \in Seq(TapeFrame)
    /\ <<>> \o s = s /\ s \o <<>> = s /\ <<>> \in Seq(TapeFrame)

LEMMA Joined == \A s, t, u \in Seq(TapeFrame) : Chains(s, t, u)
<1> TAKE s, t, u \in Seq(TapeFrame)
<1>1. s \o t \in Seq(TapeFrame) /\ t \o u \in Seq(TapeFrame)
  BY ConcatProperties
<1>2. (s \o t) \o u \in Seq(TapeFrame)
  BY <1>1, ConcatProperties
<1>3. (s \o t) \o u = s \o (t \o u)
  BY ConcatAssociative
<1>4. <<>> \o s = s /\ s \o <<>> = s /\ <<>> \in Seq(TapeFrame)
  OBVIOUS
<1> QED BY <1>1, <1>2, <1>3, <1>4 DEF Chains

LEMMA SinceTyped ==
  ASSUME NEW rows \in Seq(RowType)
  PROVE  Recorder!SinceGap(rows) \in Seq(TapeFrame)
<1> DEFINE n == Len(rows)
<1>1. n \in Nat /\ \A i \in 1..n : rows[i] \in RowType
  BY LenProperties
<1>2. \A i \in 1..n : rows[i].frames \in Seq(TapeFrame)
  BY <1>1 DEF RowType
<1>3. PICK f : Gathers(f, rows)
  BY <1>1, SumExists
<1> DEFINE S == {m \in 0..n : f[m] \in Seq(TapeFrame)}
<1>4. 0 \in S
  <2>1. <<>> \in Seq(TapeFrame) /\ f[0] = <<>>
    BY <1>3 DEF Gathers
  <2>2. 0 \in 0..n
    BY <1>1
  <2> QED BY <2>1, <2>2, Zenon
<1>5. ASSUME NEW m \in 0..(n - 1), m \in S PROVE m + 1 \in S
  <2>1. m + 1 \in 1..n /\ m + 1 - 1 = m /\ m + 1 \in 0..n /\ f[m] \in Seq(TapeFrame)
    BY <1>1, <1>5
  <2>2. rows[m + 1].frames \in Seq(TapeFrame) /\ f[m] \o rows[m + 1].frames \in Seq(TapeFrame)
    BY <1>2, <2>1, ConcatProperties
  <2>3. f[m + 1] = rows[m + 1].frames \/ f[m + 1] = f[m] \o rows[m + 1].frames
    <3> DEFINE k == m + 1
               After(i) == f[i] = IF Recorder!GapBefore(rows, i) THEN rows[i].frames
                                  ELSE f[i - 1] \o rows[i].frames
    <3>1. \A i \in 1..n : After(i)
      BY <1>3 DEF Gathers
    <3>2. k \in 1..n /\ k - 1 = m
      BY <2>1
    <3> HIDE DEF After, k
    <3>3. After(k)
      BY <3>1, <3>2
    <3>4. f[k] = rows[k].frames \/ f[k] = f[k - 1] \o rows[k].frames
      BY <3>3 DEF After
    <3>5. f[k] = rows[k].frames \/ f[k] = f[m] \o rows[k].frames
      BY <3>2, <3>4
    <3> QED BY <3>5 DEF k
  <2> QED BY <2>1, <2>2, <2>3, Zenon
<1> HIDE DEF S
<1>6. 0..n \subseteq S
  BY <1>1, <1>4, <1>5, Counting
<1>7. f[n] \in Seq(TapeFrame)
  BY <1>1, <1>6 DEF S
<1> QED BY <1>1, <1>3, <1>7, SinceIs

\* The buffer of r takes frames and drops its head, x frames.
BufferStep(r, frames, q, x, head) ==
    /\ q \in RecorderType /\ q.state = r.state /\ q.pending = r.pending
    /\ q.seq = r.seq /\ q.dropped = r.dropped + x
    /\ r.buffer \o frames = head \o q.buffer
    /\ x = 0 => q.buffer = r.buffer \o frames

LEMMA BufferedIs ==
  ASSUME BufferLimit \in Nat, NEW r \in RecorderType, NEW frames \in Seq(TapeFrame),
         NEW q, q = Recorder!Buffered(r, frames)
  PROVE  \E x \in Nat, head \in Seq(TapeFrame) : BufferStep(r, frames, q, x, head)
<1> DEFINE x == Recorder!Excess(r, frames)
           all == r.buffer \o frames
           rest == SubSeq(all, x + 1, Len(r.buffer) + Len(frames))
           head == SubSeq(all, 1, x)
<1>1. r.buffer \in Seq(TapeFrame) /\ r.pending \in Seq(TapeFrame) /\ r.dropped \in Nat /\ r.seq \in Nat
      /\ r.stored \in Nat /\ r.state \in {"RECORDING", "EXHAUSTED"}
  BY DEF RecorderType
<1>2. x \in 0..Len(r.buffer) + Len(frames)
  BY ExcessIs
<1>3. all \in Seq(TapeFrame) /\ Len(all) = Len(r.buffer) + Len(frames)
  BY <1>1, ConcatProperties
<1>4. x \in Nat
  BY <1>2, <1>3, LenProperties
<1>5. rest \in Seq(TapeFrame) /\ head \in Seq(TapeFrame) /\ all = head \o rest /\ (x = 0 => rest = all)
  <2>1. x \in 0..Len(all)
    BY <1>2, <1>3
  <2> HIDE DEF all, x
  <2>2. /\ SubSeq(all, x + 1, Len(all)) \in Seq(TapeFrame) /\ SubSeq(all, 1, x) \in Seq(TapeFrame)
        /\ all = SubSeq(all, 1, x) \o SubSeq(all, x + 1, Len(all))
        /\ x = 0 => SubSeq(all, x + 1, Len(all)) = all
    BY <1>3, <2>1, TailOfList
  <2> QED BY <1>3, <2>2
<1>6. q = [r EXCEPT !.buffer = rest, !.dropped = r.dropped + x]
  BY DEF Recorder!Buffered
<1> HIDE DEF x, rest, head
<1>7. q = [state |-> r.state, buffer |-> rest, pending |-> r.pending, dropped |-> r.dropped + x,
           seq |-> r.seq, stored |-> r.stored]
  BY <1>6 DEF RecorderType
<1>8. q \in RecorderType
  BY <1>1, <1>4, <1>5, <1>7 DEF RecorderType
<1>9. /\ q.state = r.state /\ q.pending = r.pending
      /\ q.seq = r.seq /\ q.dropped = r.dropped + x /\ q.buffer = rest
  BY <1>7
<1>10. BufferStep(r, frames, q, x, head)
  BY <1>5, <1>8, <1>9 DEF BufferStep
<1> QED BY <1>4, <1>5, <1>10

LEMMA BufferGrows ==
  ASSUME BufferLimit \in Nat, NEW r \in RecorderType, NEW frames \in Seq(TapeFrame),
         NEW q, q = Recorder!Buffered(r, frames), NEW kept \in Seq(RowType)
  PROVE  /\ SettledOf(kept, r) \in Seq(TapeFrame) /\ SettledOf(kept, q) \in Seq(TapeFrame)
         /\ Follows(SettledOf(kept, r), WholeOf(kept, r), frames, SettledOf(kept, q), WholeOf(kept, q))
<1> DEFINE since == Recorder!SinceGap(kept)
           base(z) == IF z.dropped > 0 \/ z.seq # LastSeq(kept) THEN <<>> ELSE since
<1>1. since \in Seq(TapeFrame)
  BY SinceTyped
<1>10. PICK x \in Nat, head \in Seq(TapeFrame) : BufferStep(r, frames, q, x, head)
  BY BufferedIs, Zenon
<1>2. /\ q \in RecorderType /\ q.state = r.state /\ q.pending = r.pending
      /\ q.seq = r.seq /\ q.dropped = r.dropped + x
      /\ r.buffer \o frames = head \o q.buffer
      /\ x = 0 => q.buffer = r.buffer \o frames
  BY <1>10 DEF BufferStep
<1>3. r.buffer \in Seq(TapeFrame) /\ q.buffer \in Seq(TapeFrame) /\ r.dropped \in Nat
      /\ q.seq = r.seq /\ q.dropped = r.dropped + x
  BY <1>2 DEF RecorderType
<1> DEFINE b == base(r)
           c == base(q)
           s == SettledOf(kept, r)
           s2 == SettledOf(kept, q)
<1>4. s = b \o r.buffer /\ s2 = c \o q.buffer
  BY DEF SettledOf
<1>5. b \in Seq(TapeFrame) /\ c \in Seq(TapeFrame)
  <2>1. <<>> \in Seq(TapeFrame)
    OBVIOUS
  <2> QED BY <1>1, <2>1
<1>8. (x = 0 => b = c /\ (WholeOf(kept, q) <=> WholeOf(kept, r))) /\ (x # 0 => c = <<>> /\ ~WholeOf(kept, q))
  <2>1. CASE x = 0
    <3>1. q.dropped = r.dropped
      BY <1>3, <2>1
    <3> QED BY <1>3, <2>1, <3>1 DEF WholeOf
  <2>2. CASE x # 0
    <3>1. q.dropped > 0 /\ q.dropped # 0
      BY <1>3, <2>2
    <3> QED BY <2>2, <3>1 DEF WholeOf
  <2> QED BY <2>1, <2>2
<1> HIDE DEF b, c, s, s2
<1>9. Chains(b, r.buffer, frames) /\ Chains(b, head, q.buffer) /\ Chains(c, q.buffer, q.buffer)
  BY <1>3, <1>5, Joined, Zenon
<1>11. s \in Seq(TapeFrame) /\ s2 \in Seq(TapeFrame)
  BY <1>4, <1>9 DEF Chains
<1>12. Chains(s, s, s) /\ Chains(s2, s2, s2)
  BY <1>11, Joined, Zenon
<1>6. CASE x = 0
  <2>1. s2 = s \o frames
    BY <1>2, <1>4, <1>6, <1>8, <1>9 DEF Chains
  <2>2. <<>> \in Seq(TapeFrame) /\ s \o frames = <<>> \o s2
    BY <1>12, <2>1 DEF Chains
  <2>3. Follows(s, WholeOf(kept, r), frames, s2, WholeOf(kept, q))
    BY <1>6, <1>8, <2>1, <2>2 DEF Follows
  <2> QED BY <1>11, <2>3 DEF s, s2
<1>7. CASE x # 0
  <2>1. s2 = q.buffer
    BY <1>3, <1>4, <1>7, <1>8, Joined, Zenon DEF Chains
  <2> DEFINE y == b \o head
  <2>2. y \in Seq(TapeFrame) /\ s \o frames = y \o s2
    BY <1>2, <1>4, <1>9, <2>1 DEF Chains
  <2> HIDE DEF y
  <2>3. Follows(s, WholeOf(kept, r), frames, s2, WholeOf(kept, q))
    BY <1>7, <1>8, <2>2 DEF Follows
  <2> QED BY <1>11, <2>3 DEF s, s2
<1> QED BY <1>6, <1>7

LEMMA LastSeqIs ==
  ASSUME NEW rows \in Seq(RowType)
  PROVE  /\ LastSeq(rows) \in Nat
         /\ \A r \in RowType : /\ Append(rows, r) \in Seq(RowType) /\ LastSeq(Append(rows, r)) = r.seq
                               /\ rows \o <<r>> = Append(rows, r)
         /\ rows \o <<>> = rows
<1> DEFINE n == Len(rows)
<1>1. n \in Nat /\ (rows = <<>> <=> n = 0) /\ \A i \in 1..n : rows[i] \in RowType
  BY LenProperties, EmptySeq
<1>2. LastSeq(rows) \in Nat
  <2>1. CASE rows = <<>>
    BY <2>1 DEF LastSeq
  <2>2. CASE rows # <<>>
    <3>1. n \in 1..n
      BY <1>1, <2>2
    <3>2. rows[n] \in RowType
      BY <1>1, <3>1
    <3> QED BY <2>2, <3>2 DEF LastSeq, RowType
  <2> QED BY <2>1, <2>2
<1>3. ASSUME NEW r \in RowType
      PROVE  /\ Append(rows, r) \in Seq(RowType) /\ LastSeq(Append(rows, r)) = r.seq
             /\ rows \o <<r>> = Append(rows, r)
  <2> DEFINE all == Append(rows, r)
  <2>1. all \in Seq(RowType) /\ Len(all) = n + 1 /\ all[n + 1] = r /\ all # <<>>
    BY AppendProperties
  <2>2. rows \o <<r>> = all
    OBVIOUS
  <2> HIDE DEF all
  <2>3. LastSeq(all) = r.seq
    BY <2>1 DEF LastSeq
  <2> QED BY <2>1, <2>2, <2>3 DEF all
<1>4. rows \o <<>> = rows
  OBVIOUS
<1> QED BY <1>2, <1>3, <1>4

LEMMA KeptIs ==
  ASSUME ThreadOk, RecorderOk
  PROVE  /\ Kept \in Seq(RowType)
         /\ thread.row = <<>> => Kept = table
         /\ \A row : thread = Writing(row) => row \in RowType /\ Kept = Append(table, row)
                                              /\ row.seq = recorder.seq /\ LastSeq(table) < recorder.seq
<1>1. table \in Seq(RowType)
  BY DEF RecorderOk
<1>2. thread.row = <<>> => Kept = table
  BY <1>1, LastSeqIs DEF Kept
<1>3. ASSUME NEW row, thread = Writing(row)
      PROVE  row \in RowType /\ Kept = Append(table, row)
             /\ row.seq = recorder.seq /\ LastSeq(table) < recorder.seq
  <2>1. thread.doing = "writing" /\ thread.row = <<row>>
    BY <1>3 DEF Writing
  <2>2. PICK other \in RowType :
           thread = Writing(other) /\ other.seq = recorder.seq /\ LastSeq(table) < recorder.seq
    BY <2>1 DEF ThreadOk, Recorder!Idle, Seeding
  <2>3. other = row
    BY <2>1, <2>2 DEF Writing
  <2> QED BY <1>1, <2>1, <2>2, <2>3, LastSeqIs DEF Kept
<1>4. Kept \in Seq(RowType)
  <2>1. CASE \E row : thread = Writing(row)
    <3>1. PICK row : thread = Writing(row)
      BY <2>1
    <3>2. row \in RowType /\ Kept = Append(table, row)
      BY <1>3, <3>1
    <3> QED BY <1>1, <3>2, LastSeqIs
  <2>2. CASE ~\E row : thread = Writing(row)
    <3>1. thread.row = <<>>
      BY <2>2 DEF ThreadOk, Recorder!Idle, Seeding
    <3> QED BY <1>1, <1>2, <3>1
  <2> QED BY <2>1, <2>2
<1> QED BY <1>2, <1>3, <1>4

LEMMA RecentIs ==
  ASSUME ThreadOk, RecorderOk
  PROVE  /\ recorder.pending \in Seq(TapeFrame) /\ Settled \in Seq(TapeFrame)
         /\ Recorder!Recent = Settled \o recorder.pending
         /\ Recorder!Gapless(Recorder!Rows) <=> Whole
<1> DEFINE b == recorder.buffer
           p == recorder.pending
           row == Recorder!NextRow
           kept == Kept
           since == Recorder!SinceGap(kept)
           base == IF Cuts(kept, row) THEN <<>> ELSE since
<1>1. /\ b \in Seq(TapeFrame) /\ p \in Seq(TapeFrame)
      /\ recorder.dropped \in Nat /\ recorder.seq \in Nat
  BY DEF RecorderOk, RecorderType
<1>2. kept \in Seq(RowType)
  BY KeptIs
<1>3. since \in Seq(TapeFrame) /\ LastSeq(kept) \in Nat
  BY <1>2, SinceTyped, LastSeqIs
<1>4. row = [seq |-> recorder.seq + 1, dropped |-> recorder.dropped, frames |-> b \o p]
  BY DEF Recorder!NextRow
<1>5. b \o p \in Seq(TapeFrame)
  BY <1>1, Joined, Zenon DEF Chains
<1>6. row \in RowType
  BY <1>1, <1>4, <1>5 DEF RowType
<1>7. Cuts(kept, row) <=> recorder.dropped > 0 \/ recorder.seq # LastSeq(kept)
  BY <1>1, <1>3, <1>4 DEF Cuts
<1>8. Recorder!Rows = Append(kept, row)
  BY DEF Recorder!Rows, Kept
<1>9. Settled = base \o b
  BY <1>7 DEF Settled, SettledOf
<1>10. Whole <=> Recorder!Gapless(kept) /\ ~Cuts(kept, row)
  BY <1>1, <1>7 DEF Whole, WholeOf
<1>11. row.frames = b \o p
  BY <1>4
<1> HIDE DEF row, kept
<1>12. /\ Recorder!SinceGap(Append(kept, row)) = IF Cuts(kept, row) THEN row.frames ELSE since \o row.frames
       /\ Recorder!Gapless(Append(kept, row)) <=> Recorder!Gapless(kept) /\ ~Cuts(kept, row)
  BY <1>2, <1>6, SinceGrows
<1> HIDE DEF b, p, since
<1>13. base \in Seq(TapeFrame) /\ Recorder!SinceGap(Append(kept, row)) = base \o (b \o p)
  <2>1. <<>> \o (b \o p) = b \o p /\ <<>> \in Seq(TapeFrame)
    BY <1>5, Joined, Zenon DEF Chains
  <2> QED BY <1>3, <1>11, <1>12, <2>1
<1> HIDE DEF base
<1>15. Chains(base, b, p)
  BY <1>1, <1>13, Joined, Zenon
<1>14. base \o (b \o p) = (base \o b) \o p /\ base \o b \in Seq(TapeFrame)
  BY <1>15 DEF Chains
<1> QED BY <1>1, <1>8, <1>9, <1>10, <1>12, <1>13, <1>14 DEF p, Recorder!Recent

\* A row that is cut takes the buffer with it.
LEMMA CutKeeps ==
  ASSUME NEW q \in RecorderType, NEW kept \in Seq(RowType), NEW row, row = Recorder!RowOf(q),
         NEW r, r = Recorder!Cut(q)
  PROVE  /\ row \in RowType /\ r \in RecorderType /\ row.seq = q.seq + 1
         /\ r.seq = q.seq + 1 /\ r.pending = q.pending /\ r.state = q.state
         /\ SettledOf(Append(kept, row), r) = SettledOf(kept, q)
         /\ WholeOf(Append(kept, row), r) <=> WholeOf(kept, q)
<1> DEFINE all == Append(kept, row)
           since == Recorder!SinceGap(kept)
<1>1. q = [state |-> q.state, buffer |-> q.buffer, pending |-> q.pending, dropped |-> q.dropped,
           seq |-> q.seq, stored |-> q.stored]
      /\ q.buffer \in Seq(TapeFrame) /\ q.pending \in Seq(TapeFrame)
      /\ q.dropped \in Nat /\ q.seq \in Nat /\ q.stored \in Nat /\ q.state \in {"RECORDING", "EXHAUSTED"}
  BY DEF RecorderType
<1>2. r = [state |-> q.state, buffer |-> <<>>, pending |-> q.pending, dropped |-> 0,
           seq |-> q.seq + 1, stored |-> q.stored]
  BY <1>1 DEF Recorder!Cut, RecorderType
<1>3. r \in RecorderType
  <2>1. <<>> \in Seq(TapeFrame) /\ q.seq + 1 \in Nat
    BY <1>1
  <2> QED BY <1>1, <1>2, <2>1 DEF RecorderType
<1>4. row = [seq |-> q.seq + 1, dropped |-> q.dropped, frames |-> q.buffer]
  BY <1>2 DEF Recorder!RowOf
<1>5. row \in RowType
  BY <1>1, <1>4 DEF RowType
<1>6. LastSeq(kept) \in Nat /\ LastSeq(all) = q.seq + 1 /\ since \in Seq(TapeFrame)
  BY <1>4, <1>5, LastSeqIs, SinceTyped
<1>7. Cuts(kept, row) <=> q.dropped > 0 \/ q.seq # LastSeq(kept)
  BY <1>1, <1>4, <1>6 DEF Cuts
<1>8. r.dropped = 0 /\ r.seq = LastSeq(all) /\ r.buffer = <<>>
  BY <1>2, <1>6
<1>9. /\ Recorder!SinceGap(all) = IF Cuts(kept, row) THEN q.buffer ELSE since \o q.buffer
      /\ Recorder!Gapless(all) <=> Recorder!Gapless(kept) /\ ~Cuts(kept, row)
  <2>1. row.frames = q.buffer
    BY <1>4
  <2> QED BY <1>5, <2>1, SinceGrows
<1>10. SettledOf(kept, q) = Recorder!SinceGap(all)
  <2>1. <<>> \o q.buffer = q.buffer
    BY <1>1, Joined, Zenon DEF Chains
  <2> QED BY <1>7, <1>9, <2>1 DEF SettledOf
<1>11. Recorder!SinceGap(all) \in Seq(TapeFrame)
  <2>1. since \o q.buffer \in Seq(TapeFrame)
    BY <1>1, <1>6, Joined, Zenon DEF Chains
  <2> QED BY <1>1, <1>9, <2>1
<1> HIDE DEF all
<1>12. SettledOf(all, r) = Recorder!SinceGap(all)
  <2>1. ~(r.dropped > 0 \/ r.seq # LastSeq(all))
    BY <1>8
  <2>2. Recorder!SinceGap(all) \o <<>> = Recorder!SinceGap(all)
    BY <1>11, Joined, Zenon DEF Chains
  <2> QED BY <1>8, <2>1, <2>2 DEF SettledOf
<1>13. WholeOf(all, r) <=> WholeOf(kept, q)
  BY <1>1, <1>7, <1>8, <1>9 DEF WholeOf
<1> QED BY <1>2, <1>3, <1>4, <1>5, <1>10, <1>12, <1>13 DEF all

\* A row that is not stored leaves the buffer.
LEMMA LossFollows ==
  ASSUME NEW r \in RecorderType, NEW kept \in Seq(RowType), NEW stored \in Seq(RowType),
         LastSeq(stored) < r.seq
  PROVE  /\ SettledOf(stored, r) \in Seq(TapeFrame)
         /\ Follows(SettledOf(kept, r), WholeOf(kept, r), <<>>, SettledOf(stored, r), WholeOf(stored, r))
<1> DEFINE b == r.buffer
           since == Recorder!SinceGap(kept)
           base == IF r.dropped > 0 \/ r.seq # LastSeq(kept) THEN <<>> ELSE since
<1>1. b \in Seq(TapeFrame) /\ r.seq \in Nat /\ LastSeq(stored) \in Nat
  BY LastSeqIs DEF RecorderType
<1>2. r.seq # LastSeq(stored)
  BY <1>1
<1>3. SettledOf(stored, r) = b
  <2>1. <<>> \o b = b
    BY <1>1, Joined, Zenon DEF Chains
  <2> QED BY <1>2, <2>1 DEF SettledOf
<1>4. base \in Seq(TapeFrame)
  <2>1. <<>> \in Seq(TapeFrame)
    OBVIOUS
  <2> QED BY <2>1, SinceTyped
<1>5. SettledOf(kept, r) = base \o b
  BY DEF SettledOf
<1> HIDE DEF base, b
<1>6. Chains(base, b, b)
  BY <1>1, <1>4, Joined, Zenon
<1> DEFINE s == base \o b
<1>7. s \in Seq(TapeFrame)
  BY <1>6 DEF Chains
<1>9. s \o <<>> = s
  BY <1>7, Joined, Zenon DEF Chains
<1>10. ~WholeOf(stored, r)
  BY <1>2 DEF WholeOf
<1>11. s \o <<>> = base \o b
  BY <1>9
<1> QED BY <1>1, <1>3, <1>4, <1>5, <1>10, <1>11 DEF Follows
-----------------------------------------------------------------------------
(* The trades a list of frames carries.                                    *)

LEMMA CarriesNone == \A a \in Nat : Carries(<<>>, a, a)
<1> TAKE a \in Nat
<1> DEFINE f == [i \in 0..0 |-> a]
<1>1. Len(<<>>) = 0 /\ f \in [0..0 -> Nat] /\ f[0] = a
  OBVIOUS
<1> HIDE DEF f
<1>2. Counts(f, <<>>, a, a)
  BY <1>1 DEF Counts
<1> QED BY <1>1, <1>2 DEF Carries

LEMMA CarriesOne ==
  ASSUME NEW x \in TapeFrame, NEW a \in Nat
  PROVE  /\ x.kind # "trade" => Carries(<<x>>, a, a)
         /\ x.kind = "trade" /\ x.u = a + 1 => Carries(<<x>>, a, a + 1)
<1> DEFINE b == IF x.kind = "trade" THEN a + 1 ELSE a
           f == [i \in 0..1 |-> IF i = 0 THEN a ELSE b]
<1>1. Len(<<x>>) = 1 /\ <<x>>[1] = x /\ f \in [0..1 -> Nat] /\ f[0] = a /\ f[1] = b
  OBVIOUS
<1>2. \A i \in 1..1 : i = 1 /\ i - 1 = 0
  OBVIOUS
<1> HIDE DEF f
<1>3. x.kind = "trade" /\ x.u = a + 1 => Counts(f, <<x>>, a, b)
  BY <1>1, <1>2 DEF Counts
<1>4. x.kind # "trade" => Counts(f, <<x>>, a, b)
  BY <1>1, <1>2 DEF Counts
<1>5. \A c : Counts(f, <<x>>, a, c) => Carries(<<x>>, a, c)
  BY <1>1 DEF Carries
<1> QED BY <1>3, <1>4, <1>5

LEMMA CarriesBoth ==
  ASSUME NEW s \in Seq(TapeFrame), NEW t \in Seq(TapeFrame), NEW a, NEW b, NEW c,
         Carries(s, a, b), Carries(t, b, c)
  PROVE  Carries(s \o t, a, c)
<1> DEFINE m == Len(s)
           n == Len(t)
           u == s \o t
<1>1. m \in Nat /\ n \in Nat
  BY LenProperties
<1>2. Len(u) = m + n /\ \A i \in 1..m + n : u[i] = IF i <= m THEN s[i] ELSE t[i - m]
  BY ConcatProperties
<1> HIDE DEF u
<1>3. PICK f \in [0..m -> Nat] : Counts(f, s, a, b)
  BY Zenon DEF Carries
<1>4. PICK g \in [0..n -> Nat] : Counts(g, t, b, c)
  BY Zenon DEF Carries
<1> DEFINE h == [i \in 0..m + n |-> IF i <= m THEN f[i] ELSE g[i - m]]
<1>5. h \in [0..m + n -> Nat]
  <2>1. ASSUME NEW i \in 0..m + n PROVE (IF i <= m THEN f[i] ELSE g[i - m]) \in Nat
    <3>1. i <= m => i \in 0..m
      BY <1>1
    <3>2. ~(i <= m) => i - m \in 0..n
      BY <1>1
    <3> QED BY <3>1, <3>2
  <2> QED BY <2>1
<1>6. \A i \in 0..m + n : h[i] = IF i <= m THEN f[i] ELSE g[i - m]
  OBVIOUS
<1> HIDE DEF h
<1>7. f[0] = a /\ f[m] = b /\ g[0] = b /\ g[n] = c
  BY <1>3, <1>4 DEF Counts
<1>8. \A i \in 0..n : h[m + i] = g[i]
  <2> TAKE i \in 0..n
  <2> DEFINE j == m + i
  <2>1. j \in 0..m + n /\ j - m = i /\ (j <= m => i = 0 /\ j = m)
    BY <1>1
  <2> HIDE DEF j
  <2>2. h[j] = IF j <= m THEN f[j] ELSE g[j - m]
    BY <1>6, <2>1
  <2>3. h[j] = g[i]
    BY <1>7, <2>1, <2>2
  <2> QED BY <2>3 DEF j
<1>9. h[0] = a /\ h[m + n] = c
  <2>1. 0 \in 0..m + n /\ 0 <= m /\ n \in 0..n
    BY <1>1
  <2> QED BY <1>6, <1>7, <1>8, <2>1
<1>10. ASSUME NEW i \in 1..m + n
       PROVE  IF u[i].kind = "trade" THEN h[i] = h[i - 1] + 1 /\ u[i].u = h[i] ELSE h[i] = h[i - 1]
  <2>1. CASE i <= m
    <3>1. i \in 1..m /\ i \in 0..m + n /\ i - 1 \in 0..m + n /\ i - 1 <= m
      BY <1>1, <2>1
    <3>2. u[i] = s[i] /\ h[i] = f[i] /\ h[i - 1] = f[i - 1]
      BY <1>2, <1>6, <2>1, <3>1
    <3> QED BY <1>3, <3>1, <3>2 DEF Counts
  <2>2. CASE ~(i <= m)
    <3> DEFINE j == i - m
    <3>1. j \in 1..n /\ j \in 0..n /\ j - 1 \in 0..n /\ m + j = i /\ m + (j - 1) = i - 1
      BY <1>1, <2>2
    <3>2. u[i] = t[j]
      BY <1>2, <2>2
    <3> HIDE DEF j
    <3>3. h[i] = g[j] /\ h[i - 1] = g[j - 1]
      BY <1>8, <3>1
    <3> QED BY <1>4, <3>1, <3>2, <3>3 DEF Counts
  <2> QED BY <2>1, <2>2
<1>11. Counts(h, u, a, c)
  BY <1>2, <1>9, <1>10 DEF Counts
<1>12. h \in [0..Len(u) -> Nat]
  BY <1>2, <1>5
<1> QED BY <1>11, <1>12 DEF Carries, u

LEMMA CarriesRest ==
  ASSUME NEW s \in Seq(TapeFrame), NEW t \in Seq(TapeFrame), NEW a, NEW c, Carries(s \o t, a, c)
  PROVE  \E b \in Nat : Carries(t, b, c)
<1> DEFINE m == Len(s)
           n == Len(t)
           u == s \o t
<1>1. m \in Nat /\ n \in Nat
  BY LenProperties
<1>2. Len(u) = m + n /\ \A i \in 1..m + n : u[i] = IF i <= m THEN s[i] ELSE t[i - m]
  BY ConcatProperties
<1>3. PICK h \in [0..Len(u) -> Nat] : Counts(h, u, a, c)
  BY Zenon DEF Carries
<1> HIDE DEF u
<1> DEFINE g == [i \in 0..n |-> h[m + i]]
<1>4. g \in [0..n -> Nat]
  <2>1. \A i \in 0..n : m + i \in 0..Len(u)
    BY <1>1, <1>2
  <2> QED BY <2>1
<1>5. \A i \in 0..n : g[i] = h[m + i]
  OBVIOUS
<1>6. n \in 0..n /\ 0 \in 0..n /\ m + 0 = m /\ m \in 0..Len(u)
  BY <1>1, <1>2
<1>7. g[n] = c /\ g[0] = h[m] /\ h[m] \in Nat
  BY <1>2, <1>3, <1>5, <1>6 DEF Counts
<1> HIDE DEF g
<1>8. ASSUME NEW i \in 1..n
      PROVE  IF t[i].kind = "trade" THEN g[i] = g[i - 1] + 1 /\ t[i].u = g[i] ELSE g[i] = g[i - 1]
  <2> DEFINE j == m + i
  <2>1. j \in 1..m + n /\ ~(j <= m) /\ j - m = i /\ i \in 0..n /\ i - 1 \in 0..n /\ m + (i - 1) = j - 1
    BY <1>1
  <2>2. g[i] = h[j] /\ g[i - 1] = h[j - 1]
    BY <1>5, <2>1
  <2> HIDE DEF j
  <2>3. u[j] = t[i]
    BY <1>2, <2>1
  <2> QED BY <1>2, <1>3, <2>1, <2>2, <2>3 DEF Counts
<1>9. Counts(g, t, h[m], c)
  BY <1>7, <1>8 DEF Counts
<1>10. Carries(t, h[m], c)
  BY <1>4, <1>9 DEF Carries
<1> QED BY <1>7, <1>10

\* What a reader has after a step carries the tape up to its end.
LEMMA TapeFollows ==
  ASSUME NEW s \in Seq(TapeFrame), NEW s2 \in Seq(TapeFrame), NEW fs \in Seq(TapeFrame),
         NEW all, NEW all2, Follows(s, all, fs, s2, all2),
         NEW n, NEW n2, Carries(fs, n, n2),
         NEW a \in Nat, Carries(s, a, n), all => a = 0
  PROVE  \E b \in Nat : Carries(s2, b, n2) /\ (all2 => b = 0)
<1>1. Carries(s \o fs, a, n2)
  BY CarriesBoth
<1>2. CASE all2
  <2>1. s2 = s \o fs /\ a = 0
    BY <1>2, Zenon DEF Follows
  <2> QED BY <1>1, <2>1
<1>3. CASE ~all2
  <2>1. PICK x \in Seq(TapeFrame) : s \o fs = x \o s2
    BY Zenon DEF Follows
  <2>2. Carries(x \o s2, a, n2)
    BY <1>1, <2>1
  <2>3. \E b \in Nat : Carries(s2, b, n2)
    BY <2>2, CarriesRest
  <2> QED BY <1>3, <2>3
<1> QED BY <1>2, <1>3

LEMMA SameTrades == \A s, P : Recorder!Picked(s, P) = Picked(s, P)
<1>1. \A P : Recorder!Cardinality(P) = Cardinality(P)
  BY DEF Recorder!Cardinality, Cardinality
<1>2. \A P, k : Recorder!Nth(P, k) = Nth(P, k)
  BY <1>1 DEF Recorder!Nth, Nth
<1> QED BY <1>1, <1>2, Zenon DEF Recorder!Picked, Picked

\* k of the c positions at which N tells the trades are not after i.
Passed(N, c, i, k) == k \in 0..c /\ \A l \in 1..c : N[l] <= i <=> l <= k

LEMMA TradesCount ==
  ASSUME NEW fs \in Seq(TapeFrame), NEW a \in Nat, NEW b, Carries(fs, a, b),
         NEW P, P = {i \in 1..Len(fs) : fs[i].kind = "trade"},
         NEW trades, trades = Recorder!Picked(fs, P)
  PROVE  Len(trades) \in Nat /\ b = a + Len(trades) /\ \A k \in 1..Len(trades) : trades[k].u = a + k
<1> DEFINE n == Len(fs)
           c == Cardinality(P)
           N == [k \in 1..c |-> Nth(P, k)]
<1>1. n \in Nat
  BY LenProperties
<1>2. PICK f \in [0..n -> Nat] : Counts(f, fs, a, b)
  BY Zenon DEF Carries
<1>3. P \in SUBSET (1..n)
  OBVIOUS
<1>4. /\ Len(trades) = c /\ c \in Nat
      /\ \A k \in 1..c : Nth(P, k) \in P /\ trades[k] = fs[Nth(P, k)]
      /\ \A k, l \in 1..c : k < l => Nth(P, k) < Nth(P, l)
      /\ \A i \in P : \E k \in 1..c : Nth(P, k) = i
  <2>1. trades = Picked(fs, P)
    BY SameTrades
  <2>2. /\ Len(Picked(fs, P)) = c /\ c \in Nat
        /\ \A k \in 1..c : Nth(P, k) \in P /\ Picked(fs, P)[k] = fs[Nth(P, k)]
        /\ \A k, l \in 1..c : k < l => Nth(P, k) < Nth(P, l)
    BY <1>3, PickedElements
  <2>3. \A i \in P : \E k \in 1..c : Nth(P, k) = i
    BY <1>1, <1>3, NthPosition
  <2> QED BY <2>1, <2>2, <2>3, Zenon
<1> HIDE DEF c
<1>5. \A k \in 1..c : N[k] = Nth(P, k)
  OBVIOUS
<1> HIDE DEF N
<1>6. /\ \A k \in 1..c : N[k] \in P /\ N[k] \in 1..n /\ trades[k] = fs[N[k]]
      /\ \A k, l \in 1..c : k < l => N[k] < N[l]
      /\ \A i \in P : \E k \in 1..c : N[k] = i
  <2>1. \A k \in 1..c : N[k] \in P /\ trades[k] = fs[N[k]]
    BY <1>4, <1>5
  <2>2. ASSUME NEW k \in 1..c, NEW l \in 1..c PROVE k < l => N[k] < N[l]
    <3>1. N[k] = Nth(P, k) /\ N[l] = Nth(P, l)
      BY <1>5
    <3>2. k < l => Nth(P, k) < Nth(P, l)
      BY <1>4, Zenon
    <3> QED BY <3>1, <3>2
  <2>3. ASSUME NEW i \in P PROVE \E k \in 1..c : N[k] = i
    <3>1. PICK k \in 1..c : Nth(P, k) = i
      BY <1>4, Zenon
    <3> QED BY <1>5, <3>1
  <2>4. \A i \in P : i \in 1..n
    BY <1>3
  <2> QED BY <2>1, <2>2, <2>3, <2>4, Zenon
<1> DEFINE S == {i \in 0..n : \E k : Passed(N, c, i, k) /\ f[i] = a + k}
<1>7. 0 \in S
  <2>1. Passed(N, c, 0, 0)
    BY <1>4, <1>6 DEF Passed
  <2>2. f[0] = a + 0 /\ 0 \in 0..n
    BY <1>1, <1>2 DEF Counts
  <2> QED BY <2>1, <2>2
<1>8. ASSUME NEW i \in 0..(n - 1), i \in S PROVE i + 1 \in S
  <2> DEFINE j == i + 1
  <2>1. PICK k : Passed(N, c, i, k) /\ f[i] = a + k
    BY <1>8
  <2>2. j \in 1..n /\ j - 1 = i /\ j \in 0..n /\ i \in Nat
    BY <1>1, <1>8
  <2>3. IF fs[j].kind = "trade" THEN f[j] = f[i] + 1 ELSE f[j] = f[i]
    <3> HIDE DEF j
    <3> QED BY <1>2, <2>2 DEF Counts
  <2>4. k \in Int /\ k \in 0..c /\ \A l \in 1..c : N[l] <= i <=> l <= k
    BY <1>4, <2>1 DEF Passed
  <2>5. CASE fs[j].kind = "trade"
    <3>1. j \in P
      <4> HIDE DEF j
      <4> QED BY <2>2, <2>5
    <3>2. PICK l \in 1..c : N[l] = j
      BY <1>6, <3>1
    <3>3. ~(l <= k)
      BY <2>2, <2>4, <3>2
    <3>4. l = k + 1
      <4> SUFFICES ASSUME l > k + 1 PROVE FALSE
        BY <1>4, <2>4, <3>3
      <4>1. k + 1 \in 1..c /\ k + 1 < l
        BY <1>4, <2>4
      <4>2. N[k + 1] < j /\ N[k + 1] \in 1..n
        BY <1>6, <3>2, <4>1
      <4>3. N[k + 1] <= i
        BY <2>2, <4>2
      <4> QED BY <2>4, <4>1, <4>3
    <3>5. Passed(N, c, j, k + 1)
      <4>1. k + 1 \in 0..c
        BY <1>4, <3>4
      <4>2. ASSUME NEW m \in 1..c PROVE N[m] <= j <=> m <= k + 1
        <5>1. m < l => N[m] < N[l]
          BY <1>6
        <5>2. l < m => N[l] < N[m]
          BY <1>6
        <5>3. N[m] \in 1..n /\ N[l] \in 1..n
          BY <1>6
        <5> QED BY <2>4, <3>2, <3>4, <5>1, <5>2, <5>3
      <4> QED BY <4>1, <4>2 DEF Passed
    <3>6. f[j] = a + (k + 1)
      BY <2>1, <2>3, <2>4, <2>5
    <3> QED BY <2>2, <3>5, <3>6
  <2>6. CASE fs[j].kind # "trade"
    <3>1. j \notin P
      <4> HIDE DEF j
      <4> QED BY <2>6
    <3>2. ASSUME NEW m \in 1..c PROVE N[m] <= j <=> m <= k
      <4>1. N[m] # j /\ N[m] \in 1..n
        BY <1>6, <3>1
      <4>2. N[m] <= j <=> N[m] <= i
        BY <2>2, <4>1
      <4> QED BY <2>4, <4>2
    <3>3. Passed(N, c, j, k)
      BY <2>4, <3>2 DEF Passed
    <3>4. f[j] = a + k
      BY <2>1, <2>3, <2>6
    <3> QED BY <2>2, <3>3, <3>4
  <2> QED BY <2>5, <2>6
<1> HIDE DEF S
<1>9. 0..n \subseteq S
  BY <1>1, <1>7, <1>8, Counting
<1>10. \A i \in 0..n : \E k : Passed(N, c, i, k) /\ f[i] = a + k
  BY <1>9 DEF S
<1>11. b = a + c
  <2>1. PICK k : Passed(N, c, n, k) /\ f[n] = a + k
    BY <1>1, <1>10
  <2>2. k \in 0..c /\ \A l \in 1..c : N[l] <= n <=> l <= k
    BY <2>1 DEF Passed
  <2>3. k = c
    <3> SUFFICES ASSUME k # c PROVE FALSE
      OBVIOUS
    <3>1. c \in 1..c /\ k < c
      BY <1>4, <2>2
    <3>2. N[c] <= n
      BY <1>6, <3>1
    <3> QED BY <2>2, <3>1, <3>2
  <2> QED BY <1>2, <2>1, <2>3 DEF Counts
<1>12. ASSUME NEW l \in 1..c PROVE trades[l].u = a + l
  <2> DEFINE i == N[l]
  <2>10. i \in 1..n /\ i \in P /\ trades[l] = fs[i]
    BY <1>6, Zenon
  <2>1. i \in 1..n /\ i \in 0..n /\ i \in P /\ trades[l] = fs[i]
    <3> HIDE DEF i
    <3> QED BY <1>1, <2>10
  <2>2. PICK k : Passed(N, c, i, k) /\ f[i] = a + k
    BY <1>10, <2>1
  <2>3. k \in 0..c /\ \A m \in 1..c : N[m] <= i <=> m <= k
    BY <2>2 DEF Passed
  <2>4. l <= k
    BY <2>1, <2>3
  <2>5. k = l
    <3> SUFFICES ASSUME l < k PROVE FALSE
      BY <1>4, <2>3, <2>4
    <3>1. k \in 1..c
      BY <1>4, <2>3
    <3>2. N[l] < N[k] /\ N[k] <= i /\ N[k] \in 1..n
      BY <1>6, <2>3, <3>1
    <3> QED BY <2>1, <3>2
  <2>6. fs[i].kind = "trade"
    BY <2>1
  <2> HIDE DEF i
  <2>7. fs[i].u = f[i]
    BY <1>2, <2>1, <2>6 DEF Counts
  <2> QED BY <2>1, <2>2, <2>5, <2>7
<1> QED BY <1>4, <1>11, <1>12

\* The last update that has left its window, when frames have.
IsNewest(n, fs, n2) ==
    /\ n2 \in Nat /\ n <= n2
    /\ \A i \in 1..Len(fs) : fs[i].kind # "trade" => fs[i].u <= n2
    /\ n2 = n \/ \E i \in 1..Len(fs) : fs[i].kind # "trade" /\ fs[i].u = n2

LEMMA NewestIs ==
  ASSUME newest \in Nat, NEW r, NEW fs \in Seq(TapeFrame), Recorder!Record(r, fs)
  PROVE  recorder' = r /\ IsNewest(newest, fs, newest')
<1> DEFINE n == Len(fs)
           P == {j \in DOMAIN fs : fs[j].kind # "trade"}
           S == {newest} \cup {fs[i].u : i \in P}
<1>1. n \in Nat /\ DOMAIN fs = 1..n /\ \A i \in 1..n : fs[i].u \in Nat
  <2>1. n \in Nat /\ DOMAIN fs = 1..n /\ \A i \in 1..n : fs[i] \in TapeFrame
    BY LenProperties
  <2>2. \A x \in TapeFrame : x.u \in Nat
    BY DEF TapeFrame
  <2> QED BY <2>1, <2>2
<1>2. recorder' = r /\ newest' = Recorder!Highest(S)
  BY DEF Recorder!Record
<1>3. P \in SUBSET (1..n)
  BY <1>1
<1>4. ASSUME NEW m \in S, \A x \in S : x <= m
      PROVE  newest' = m /\ IsNewest(newest, fs, m)
  <2>1. S \subseteq Int /\ m \in Nat
    BY <1>1, <1>3
  <2>2. newest \in S /\ \A i \in P : fs[i].u \in S
    OBVIOUS
  <2>3. m = newest \/ \E i \in P : fs[i].u = m
    OBVIOUS
  <2> HIDE DEF S
  <2>4. Recorder!Highest(S) = m
    BY <1>4, <2>1, RecorderHighest
  <2>5. \A i \in 1..n : fs[i].kind # "trade" => i \in P
    BY <1>1
  <2>6. \A i \in P : i \in 1..n /\ fs[i].kind # "trade"
    BY <1>1
  <2> HIDE DEF P
  <2>7. newest <= m /\ \A i \in P : fs[i].u <= m
    BY <1>4, <2>2
  <2>8. \A i \in 1..n : fs[i].kind # "trade" => fs[i].u <= m
    BY <2>5, <2>7
  <2>9. m = newest \/ \E i \in 1..n : fs[i].kind # "trade" /\ fs[i].u = m
    BY <2>3, <2>6
  <2> QED BY <1>2, <2>1, <2>4, <2>7, <2>8, <2>9 DEF IsNewest
<1>5. \E m \in S : \A x \in S : x <= m
  <2>1. CASE P = {}
    <3>1. S = {newest}
      BY <2>1
    <3> HIDE DEF S
    <3> QED BY <3>1
  <2>2. CASE P # {}
    <3> DEFINE f == [i \in 1..n |-> fs[i].u]
    <3>1. \A i \in 1..n : f[i] \in Nat
      BY <1>1
    <3>2. \E i \in P : \A j \in P : f[j] <= f[i]
      BY <1>1, <1>3, <2>2, <3>1, GreatestHeld
    <3>3. PICK i \in P : \A j \in P : f[j] <= f[i]
      BY <3>2
    <3>4. \A j \in P : fs[j].u <= fs[i].u /\ fs[j].u \in Nat
      BY <1>1, <1>3, <3>3
    <3> HIDE DEF P, f
    <3>5. CASE newest <= fs[i].u
      BY <3>4, <3>5
    <3>6. CASE ~(newest <= fs[i].u)
      <4>1. \A j \in P : fs[j].u <= newest
        BY <3>4, <3>6
      <4> QED BY <4>1
    <3> QED BY <3>5, <3>6
  <2> QED BY <2>1, <2>2
<1> HIDE DEF S
<1> QED BY <1>2, <1>4, <1>5
-----------------------------------------------------------------------------
(* The engine's book, and what the replay of a recording makes of a step.  *)

\* The book when the frame in hand is applied is the exchange's, if it is synced.
LEMMA ComingIs ==
  ASSUME EngineOk
  PROVE  /\ Coming.synced \in BOOLEAN /\ Coming.lastU \in engineBook.lastU..tapped.u
         /\ engineBook.lastU \in Nat /\ tapped.u \in Nat /\ Coming.lastU \in Nat
         /\ Coming.synced => Coming.levels = Recorder!BookAt(Coming.lastU)
         /\ Coming = [levels |-> Coming.levels, synced |-> Coming.synced, lastU |-> Coming.lastU]
<1> DEFINE b == engineBook
<1>1. tapped.u \in Nat /\ b.lastU \in 0..tapped.u /\ b.synced \in BOOLEAN
      /\ (b.synced => b.levels = Recorder!BookAt(b.lastU))
      /\ b = [levels |-> b.levels, synced |-> b.synced, lastU |-> b.lastU]
  BY DEF EngineOk, IsEngineBook
<1>2. b.lastU \in Nat /\ b.lastU \in b.lastU..tapped.u
  BY <1>1
<1> HIDE DEF b
<1>3. CASE frame = <<>>
  <2>1. Coming = b
    BY <1>3 DEF Coming, b
  <2> QED BY <1>1, <1>2, <2>1 DEF b
<1>4. CASE frame # <<>>
  <2>1. PICK u \in b.lastU..tapped.u :
           frame = <<Recorder!Snapshot(u)>> \/ (u # 0 /\ frame = <<Recorder!Delta(u)>>)
    BY <1>4 DEF EngineOk, b
  <2>2. Coming = Recorder!Applied(b, frame[1]) /\ u \in Nat
    BY <1>1, <1>4 DEF Coming, b
  <2>3. CASE frame = <<Recorder!Snapshot(u)>>
    <3>1. Coming = [levels |-> Recorder!BookAt(u), synced |-> TRUE, lastU |-> u]
      BY <2>2, <2>3 DEF Recorder!Applied, Recorder!Snapshot, Recorder!Frame
    <3> QED BY <1>1, <1>2, <2>2, <3>1 DEF b
  <2>4. CASE frame = <<Recorder!Delta(u)>>
    <3> DEFINE f == Recorder!Delta(u)
    <3>1. f.kind = "delta" /\ f.u = u /\ frame[1] = f
      BY <2>4 DEF Recorder!Delta, Recorder!Frame
    <3> HIDE DEF f
    <3>2. CASE b.synced /\ u = b.lastU + 1
      <4>1. Coming = [levels |-> Recorder!Over(f.levels, b.levels), synced |-> TRUE, lastU |-> u]
        BY <2>2, <3>1, <3>2 DEF Recorder!Applied
      <4>2. Recorder!BookAt(u) = Recorder!Over(f.levels, b.levels)
        BY <1>1, <1>2, <3>2, RecorderBookNext DEF f
      <4> QED BY <1>1, <1>2, <2>2, <4>1, <4>2 DEF b
    <3>3. CASE ~(b.synced /\ u = b.lastU + 1)
      <4>1. Coming = [b EXCEPT !.synced = FALSE]
        BY <2>2, <3>1, <3>3 DEF Recorder!Applied
      <4>2. Coming = [levels |-> b.levels, synced |-> FALSE, lastU |-> b.lastU]
        BY <1>1, <4>1
      <4> QED BY <1>1, <1>2, <4>2 DEF b
    <3> QED BY <3>2, <3>3
  <2> QED BY <2>1, <2>3, <2>4
<1> QED BY <1>3, <1>4

Reads(b, s, t) == Recorder!ReplayFrom(b, s \o t) = Recorder!ReplayFrom(Recorder!ReplayFrom(b, s), t)

LEMMA ReadInParts == \A b : \A s, t \in Seq(TapeFrame) : Reads(b, s, t)
BY ReplayJoined DEF Reads

\* A reader who gets to a book has the one that all of the recording makes.
LEMMA ReadOn ==
  ASSUME NEW s \in Seq(TapeFrame), NEW s2 \in Seq(TapeFrame), NEW fs \in Seq(TapeFrame),
         NEW pending \in Seq(TapeFrame), NEW all, NEW all2, Follows(s, all, fs, s2, all2),
         Recorder!Replay(s2 \o pending).synced
  PROVE  Recorder!Replay(s2 \o pending)
           = Recorder!ReplayFrom(Recorder!ReplayFrom(Recorder!Replay(s), fs), pending)
<1>1. PICK x \in Seq(TapeFrame) : s \o fs = x \o s2
  BY Zenon DEF Follows
<1>2. Chains(s, fs, pending) /\ Chains(x, s2, pending)
  BY <1>1, Joined, Zenon
<1> DEFINE t == s2 \o pending
           w == s \o fs
<1>3. t \in Seq(TapeFrame) /\ w \in Seq(TapeFrame) /\ w \o pending = x \o t
  BY <1>1, <1>2 DEF Chains
<1>4. Recorder!Replay(t).synced
  OBVIOUS
<1> HIDE DEF t
<1>5. Recorder!Replay(x \o t) = Recorder!Replay(t)
  BY <1>3, <1>4, ReplaySuffix
<1> HIDE DEF w
<1>6. Recorder!Replay(w \o pending) = Recorder!ReplayFrom(Recorder!Replay(w), pending)
  <2>1. Reads(Recorder!Unread, w, pending)
    BY <1>3, ReadInParts, Zenon
  <2> QED BY <2>1 DEF Reads, Recorder!Replay
<1>7. Recorder!Replay(w) = Recorder!ReplayFrom(Recorder!Replay(s), fs)
  <2>1. Reads(Recorder!Unread, s, fs)
    BY ReadInParts, Zenon
  <2> QED BY <2>1 DEF Reads, Recorder!Replay, w
<1> QED BY <1>3, <1>5, <1>6, <1>7 DEF t

\* That, of a step of the recorder.
ReadsTo(s, fs, s2, pending) ==
    Recorder!Replay(s2 \o pending).synced =>
        Recorder!Replay(s2 \o pending)
          = Recorder!ReplayFrom(Recorder!ReplayFrom(Recorder!Replay(s), fs), pending)

LEMMA StepReads ==
  ASSUME Settled \in Seq(TapeFrame), Settled' \in Seq(TapeFrame), NEW fs \in Seq(TapeFrame),
         NEW pending \in Seq(TapeFrame), Follows(Settled, Whole, fs, Settled', Whole')
  PROVE  ReadsTo(Settled, fs, Settled', pending)
<1> DEFINE s == Settled
           s2 == Settled'
           all == Whole
           all2 == Whole'
<1>1. s \in Seq(TapeFrame) /\ s2 \in Seq(TapeFrame) /\ Follows(s, all, fs, s2, all2)
  OBVIOUS
<1> HIDE DEF s, s2, all, all2
<1>2. ReadsTo(s, fs, s2, pending)
  <2> SUFFICES ASSUME Recorder!Replay(s2 \o pending).synced
               PROVE  Recorder!Replay(s2 \o pending)
                        = Recorder!ReplayFrom(Recorder!ReplayFrom(Recorder!Replay(s), fs), pending)
    BY DEF ReadsTo
  <2> QED BY <1>1, ReadOn
<1> QED BY <1>2 DEF s, s2

\* What is ready and what is pending when a frame has come.
LEMMA CoalescedIs ==
  ASSUME RecorderOk, NEW f \in TapeFrame, NEW rolls,
         NEW c, c = Recorder!Coalesced(recorder.pending, f, rolls)
  PROVE  /\ c.ready \in Seq(TapeFrame) /\ c.pending \in Seq(TapeFrame)
         /\ f.kind = "trade" => c.ready = <<f>> /\ c.pending = recorder.pending
         /\ f.kind = "snapshot" => c.ready = recorder.pending \o <<f>> /\ c.pending = <<>>
         /\ f.kind = "delta" =>
               \/ c.ready = recorder.pending /\ c.pending = <<f>>
               \/ /\ recorder.pending # <<>> /\ c.ready = <<>>
                  /\ c.pending = <<Recorder!Merged(recorder.pending[1], f)>>
<1> DEFINE p == recorder.pending
           m == Recorder!Merged(p[1], f)
<1>1. p \in Seq(TapeFrame) /\ (p # <<>> => p[1] \in TapeFrame)
  BY DEF RecorderOk, RecorderType
<1>2. <<>> \in Seq(TapeFrame) /\ <<f>> \in Seq(TapeFrame) /\ f.kind \in {"delta", "snapshot", "trade"}
  BY DEF TapeFrame
<1>3. p # <<>> => m \in TapeFrame
  BY <1>1, MergedTyped
<1> HIDE DEF p, m
<1>4. p # <<>> => <<m>> \in Seq(TapeFrame)
  BY <1>3
<1>5. p \o <<f>> \in Seq(TapeFrame) /\ Append(p, f) = p \o <<f>>
  BY <1>1, <1>2
<1>6. c = IF f.kind = "trade" THEN [ready |-> <<f>>, pending |-> p]
          ELSE IF f.kind = "snapshot" THEN [ready |-> p \o <<f>>, pending |-> <<>>]
          ELSE IF p = <<>> \/ rolls THEN [ready |-> p, pending |-> <<f>>]
          ELSE [ready |-> <<>>, pending |-> <<m>>]
  BY <1>5 DEF Recorder!Coalesced, p, m
<1>7. CASE f.kind = "trade"
  <2>1. c.ready = <<f>> /\ c.pending = p
    BY <1>6, <1>7
  <2> QED BY <1>1, <1>2, <1>7, <2>1 DEF p
<1>8. CASE f.kind = "snapshot"
  <2>1. c.ready = p \o <<f>> /\ c.pending = <<>>
    BY <1>6, <1>8
  <2> QED BY <1>2, <1>5, <1>8, <2>1 DEF p
<1>9. CASE f.kind = "delta" /\ (p = <<>> \/ rolls)
  <2>1. c.ready = p /\ c.pending = <<f>>
    BY <1>6, <1>9
  <2> QED BY <1>1, <1>2, <1>9, <2>1 DEF p
<1>10. CASE f.kind = "delta" /\ ~(p = <<>> \/ rolls)
  <2>1. c.ready = <<>> /\ c.pending = <<m>> /\ p # <<>>
    BY <1>6, <1>10
  <2> QED BY <1>2, <1>4, <1>10, <2>1 DEF p, m
<1> QED BY <1>2, <1>7, <1>8, <1>9, <1>10

\* A frame has been tapped: ready is buffered, and pending is.
Tapped(ready, pending) ==
    /\ recorder' \in RecorderType /\ recorder'.seq = recorder.seq /\ recorder'.state = recorder.state
    /\ Settled' \in Seq(TapeFrame) /\ IsNewest(newest, ready, newest')
    /\ IF Recording
       THEN recorder'.pending = pending /\ Follows(Settled, Whole, ready, Settled', Whole')
       ELSE recorder' = recorder

LEMMA TapMoves ==
  ASSUME CaptureAssumption, ThreadOk, RecorderOk, NEW f \in TapeFrame, NEW rolls,
         NEW c, c = Recorder!Coalesced(recorder.pending, f, rolls),
         Recorder!Record(Recorder!Observed(recorder, f, rolls), c.ready),
         UNCHANGED <<table, thread>>
  PROVE  Tapped(c.ready, c.pending)
<1>1. c.ready \in Seq(TapeFrame) /\ c.pending \in Seq(TapeFrame)
  BY CoalescedIs
<1>2. recorder \in RecorderType /\ newest \in Nat
  BY DEF RecorderOk
<1>3. recorder' = Recorder!Observed(recorder, f, rolls) /\ IsNewest(newest, c.ready, newest')
  BY <1>1, <1>2, NewestIs
<1>4. BufferLimit \in Nat
  BY DEF CaptureAssumption
<1>5. Kept' = Kept /\ Kept \in Seq(RowType) /\ Settled \in Seq(TapeFrame)
  BY KeptIs, RecentIs DEF Kept
<1>6. CASE Recording
  <2> DEFINE q == Recorder!Buffered(recorder, c.ready)
  <2>1. recorder' = [q EXCEPT !.pending = c.pending]
    BY <1>3, <1>6 DEF Recorder!Observed, Recording
  <2>2. PICK x \in Nat, head \in Seq(TapeFrame) : BufferStep(recorder, c.ready, q, x, head)
    BY <1>1, <1>2, <1>4, BufferedIs
  <2>3. /\ SettledOf(Kept, q) \in Seq(TapeFrame)
        /\ Follows(SettledOf(Kept, recorder), WholeOf(Kept, recorder), c.ready,
                   SettledOf(Kept, q), WholeOf(Kept, q))
    BY <1>1, <1>2, <1>4, <1>5, BufferGrows
  <2> HIDE DEF q
  <2>4. q \in RecorderType /\ q.state = recorder.state /\ q.seq = recorder.seq
    BY <2>2 DEF BufferStep
  <2>5. recorder' = [state |-> q.state, buffer |-> q.buffer, pending |-> c.pending, dropped |-> q.dropped,
                     seq |-> q.seq, stored |-> q.stored]
    BY <2>1, <2>4 DEF RecorderType
  <2>6. recorder' \in RecorderType
    BY <1>1, <2>4, <2>5 DEF RecorderType
  <2>7. recorder'.dropped = q.dropped /\ recorder'.seq = q.seq /\ recorder'.buffer = q.buffer
        /\ recorder'.pending = c.pending /\ recorder'.state = q.state
    BY <2>5
  <2>8. Settled' = SettledOf(Kept, q) /\ (Whole' <=> WholeOf(Kept, q))
    BY <1>5, <2>7 DEF Settled, SettledOf, Whole, WholeOf
  <2>9. Follows(Settled, Whole, c.ready, Settled', Whole')
    BY <2>3, <2>8 DEF Settled, Whole, Follows
  <2> QED BY <1>3, <1>6, <2>3, <2>4, <2>6, <2>7, <2>8, <2>9 DEF Tapped
<1>7. CASE ~Recording
  <2>1. recorder' = recorder
    BY <1>3, <1>7 DEF Recorder!Observed, Recording
  <2>2. Settled' = Settled
    BY <1>5, <2>1 DEF Settled
  <2> QED BY <1>2, <1>3, <1>5, <1>7, <2>1, <2>2 DEF Tapped
<1> QED BY <1>6, <1>7
-----------------------------------------------------------------------------
(* The window that is merged.                                              *)

LEMMA NoTradeCarried ==
  ASSUME NEW fs \in Seq(TapeFrame), \A i \in 1..Len(fs) : fs[i].kind # "trade", NEW a \in Nat
  PROVE  Carries(fs, a, a)
<1> DEFINE n == Len(fs)
           f == [i \in 0..n |-> a]
<1>1. n \in Nat
  BY LenProperties
<1>2. f \in [0..n -> Nat] /\ \A i \in 0..n : f[i] = a
  OBVIOUS
<1> HIDE DEF f
<1>3. f[0] = a /\ f[n] = a /\ \A i \in 1..n : f[i] = f[i - 1]
  <2>1. 0 \in 0..n /\ n \in 0..n /\ \A i \in 1..n : i \in 0..n /\ i - 1 \in 0..n
    BY <1>1
  <2> QED BY <1>2, <2>1
<1>4. Counts(f, fs, a, a)
  BY <1>3 DEF Counts
<1> QED BY <1>2, <1>4 DEF Carries

LEMMA OverBetween ==
  ASSUME NEW f, NEW p, NEW h, Recorder!Over(p, h) = h
  PROVE  Recorder!Over(f, Recorder!Over(p, Recorder!Over(f, h))) = Recorder!Over(f, h)
<1>1. DOMAIN h = DOMAIN p \cup DOMAIN h
  BY DEF Recorder!Over
<1>2. \A l \in DOMAIN h : h[l] = IF l \in DOMAIN p THEN p[l] ELSE h[l]
  BY DEF Recorder!Over
<1>3. \A l \in DOMAIN p : l \in DOMAIN h /\ h[l] = p[l]
  BY <1>1, <1>2
<1> DEFINE fh == Recorder!Over(f, h)
           pfh == Recorder!Over(p, fh)
<1>4. fh = [l \in DOMAIN f \cup DOMAIN h |-> IF l \in DOMAIN f THEN f[l] ELSE h[l]]
  BY DEF Recorder!Over
<1>5. pfh = [l \in DOMAIN f \cup DOMAIN h |-> IF l \in DOMAIN p THEN p[l] ELSE fh[l]]
  <2>1. DOMAIN fh = DOMAIN f \cup DOMAIN h
    BY <1>4
  <2>2. DOMAIN p \cup (DOMAIN f \cup DOMAIN h) = DOMAIN f \cup DOMAIN h
    BY <1>3
  <2> QED BY <2>1, <2>2 DEF Recorder!Over
<1> HIDE DEF fh, pfh
<1>6. Recorder!Over(f, pfh) = [l \in DOMAIN f \cup DOMAIN h |-> IF l \in DOMAIN f THEN f[l] ELSE pfh[l]]
  <2>1. DOMAIN pfh = DOMAIN f \cup DOMAIN h
    BY <1>5
  <2>2. DOMAIN f \cup (DOMAIN f \cup DOMAIN h) = DOMAIN f \cup DOMAIN h
    OBVIOUS
  <2> QED BY <2>1, <2>2 DEF Recorder!Over
<1>7. \A l \in DOMAIN f \cup DOMAIN h :
         (IF l \in DOMAIN f THEN f[l] ELSE pfh[l]) = IF l \in DOMAIN f THEN f[l] ELSE h[l]
  BY <1>3, <1>4, <1>5
<1>8. Recorder!Over(f, pfh) = fh
  BY <1>4, <1>6, <1>7
<1> QED BY <1>8 DEF fh, pfh

\* The window of an update alone.
LEMMA WindowOpens ==
  ASSUME NEW u \in Nat, NEW f, f = Recorder!Delta(u + 1)
  PROVE  Completes(f, u, u + 1)
<1> DEFINE m == u + 1
<1>1. Recorder!BookAt(m) = Recorder!Over(f.levels, Recorder!BookAt(u))
  BY RecorderBookNext
<1>2. Recorder!Over(f.levels, Recorder!BookAt(m)) = Recorder!BookAt(m)
  BY <1>1, OverTwice, Zenon
<1> HIDE DEF m
<1>3. \A v \in u..m : v = u \/ v = m
  BY DEF m
<1>4. Completes(f, u, m)
  BY <1>1, <1>2, <1>3 DEF Completes
<1> QED BY <1>4 DEF m

\* An update more in the window.
LEMMA WindowGrows ==
  ASSUME NEW u \in Nat, NEW f \in TapeFrame, f = Recorder!Delta(u + 1), NEW p \in TapeFrame,
         NEW n \in Nat, n <= u, Completes(p, n, u)
  PROVE  Completes(Recorder!Merged(p, f), n, u + 1)
<1> DEFINE m == u + 1
           B(v) == Recorder!BookAt(v)
           g == Recorder!Merged(p, f).levels
<1>1. B(m) = Recorder!Over(f.levels, B(u))
  BY RecorderBookNext
<1>2. g = Recorder!Over(f.levels, p.levels)
  BY DEF Recorder!Merged, Recorder!Frame
<1>3. Recorder!Over(p.levels, B(u)) = B(u)
  <2>1. u \in n..u
    OBVIOUS
  <2> QED BY <2>1 DEF Completes
<1>4. ASSUME NEW v \in n..u PROVE Recorder!Over(g, B(v)) = B(m)
  <2>1. Recorder!Over(p.levels, B(v)) = B(u)
    BY <1>4 DEF Completes
  <2>2. Recorder!Over(g, B(v)) = Recorder!Over(f.levels, Recorder!Over(p.levels, B(v)))
    <3>1. Layers(f.levels, p.levels, B(v))
      BY OverOver, Zenon
    <3> QED BY <1>2, <3>1 DEF Layers
  <2> QED BY <1>1, <2>1, <2>2, Zenon
<1>5. Recorder!Over(g, B(m)) = B(m)
  <2>1. Recorder!Over(g, B(m)) = Recorder!Over(f.levels, Recorder!Over(p.levels, B(m)))
    <3>1. Layers(f.levels, p.levels, B(m))
      BY OverOver, Zenon
    <3> QED BY <1>2, <3>1 DEF Layers
  <2>2. Recorder!Over(f.levels, Recorder!Over(p.levels, Recorder!Over(f.levels, B(u))))
          = Recorder!Over(f.levels, B(u))
    BY <1>3, OverBetween
  <2> QED BY <1>1, <2>1, <2>2, Zenon
<1> HIDE DEF m, g, B
<1>6. \A v \in n..m : v \in n..u \/ v = m
  BY DEF m
<1>7. \A v \in n..m : Recorder!Over(g, B(v)) = B(m)
  BY <1>4, <1>5, <1>6
<1> QED BY <1>7 DEF Completes, B, m, g

PendingOk(pending, u) ==
    pending # <<>> => \E p \in TapeFrame : pending = <<p>> /\ p.kind = "delta" /\ p.u <= u

\* Nothing that a tap makes ready or pending is newer than the exchange.
LEMMA TapBounds ==
  ASSUME RecorderOk, NEW f \in TapeFrame, NEW rolls,
         NEW c, c = Recorder!Coalesced(recorder.pending, f, rolls),
         tapped.u \in Nat, NEW m \in Nat, tapped.u <= m, f.kind # "trade" => f.u <= m
  PROVE  /\ \A i \in 1..Len(c.ready) : c.ready[i].kind # "trade" => c.ready[i].u <= m
         /\ PendingOk(c.pending, m) /\ PendingOk(recorder.pending, m)
<1> DEFINE p == recorder.pending
           Below(fs) == \A i \in 1..Len(fs) : fs[i].kind # "trade" => fs[i].u <= m
<1>1. p = <<>> \/ \E q \in TapeFrame : p = <<q>> /\ q.kind = "delta" /\ q.u <= m
  <2>1. p # <<>> => \E q \in TapeFrame : p = <<q>> /\ q.kind = "delta" /\ q.u <= tapped.u
    BY DEF RecorderOk
  <2>2. \A q \in TapeFrame : q.u <= tapped.u => q.u <= m
    BY DEF TapeFrame
  <2> QED BY <2>1, <2>2
<1>2. PendingOk(p, m)
  BY <1>1 DEF PendingOk
<1>3. Below(<<>>) /\ Below(<<f>>) /\ Below(p) /\ Below(p \o <<f>>)
  <2>1. Len(<<>>) = 0 /\ Len(<<f>>) = 1 /\ <<f>>[1] = f
    OBVIOUS
  <2>2. Below(<<>>) /\ Below(<<f>>)
    BY <2>1
  <2>3. CASE p = <<>>
    <3>1. p \o <<f>> = <<f>>
      BY <2>3
    <3> HIDE DEF Below
    <3> QED BY <2>2, <2>3, <3>1
  <2>4. CASE \E q \in TapeFrame : p = <<q>> /\ q.kind = "delta" /\ q.u <= m
    <3>1. PICK q \in TapeFrame : p = <<q>> /\ q.kind = "delta" /\ q.u <= m
      BY <2>4
    <3> DEFINE two == p \o <<f>>
    <3>2. Len(p) = 1 /\ p[1] = q /\ Len(two) = 2 /\ two[1] = q /\ two[2] = f
      BY <3>1
    <3> HIDE DEF two, p
    <3>3. \A i \in 1..2 : i = 1 \/ i = 2
      OBVIOUS
    <3>4. Below(two) /\ Below(p)
      BY <3>1, <3>2, <3>3
    <3> QED BY <2>2, <3>4 DEF two
  <2> QED BY <1>1, <2>3, <2>4
<1>4. f.kind = "delta" => PendingOk(<<f>>, m)
  BY DEF PendingOk
<1>5. f.kind = "delta" /\ p # <<>> => PendingOk(<<Recorder!Merged(p[1], f)>>, m)
  <2> SUFFICES ASSUME f.kind = "delta", p # <<>> PROVE PendingOk(<<Recorder!Merged(p[1], f)>>, m)
    OBVIOUS
  <2>1. PICK q \in TapeFrame : p = <<q>> /\ q.kind = "delta" /\ q.u <= m
    BY <1>1
  <2> DEFINE g == Recorder!Merged(q, f)
  <2>2. g = [kind |-> q.kind, u |-> f.u, levels |-> Recorder!Over(f.levels, q.levels)] /\ g \in TapeFrame
    BY MergedTyped
  <2>3. g.kind = "delta" /\ g.u <= m
    BY <2>1, <2>2
  <2>4. p[1] = q
    BY <2>1
  <2> HIDE DEF g
  <2>5. PendingOk(<<g>>, m)
    BY <2>2, <2>3 DEF PendingOk
  <2> QED BY <2>4, <2>5 DEF g
<1>6. PendingOk(<<>>, m)
  BY DEF PendingOk
<1>7. f.kind \in {"delta", "snapshot", "trade"}
  BY DEF TapeFrame
<1> HIDE DEF Below, p
<1>8. Below(c.ready) /\ PendingOk(c.pending, m)
  BY <1>2, <1>3, <1>4, <1>5, <1>6, <1>7, CoalescedIs DEF p
<1> QED BY <1>2, <1>8 DEF Below, p
-----------------------------------------------------------------------------
(* The steps of the ingest thread.                                         *)

LEMMA TapeAfter ==
  ASSUME ThreadOk, RecorderOk, TapeOk, NEW fs \in Seq(TapeFrame), Settled' \in Seq(TapeFrame),
         Recording' => Recording /\ Follows(Settled, Whole, fs, Settled', Whole'),
         Carries(fs, tape, tape')
  PROVE  TapeOk'
<1> SUFFICES ASSUME Recording' PROVE \E a \in Nat : Carries(Settled', a, tape') /\ (Whole' => a = 0)
  BY DEF TapeOk, Carries, Counts
<1>1. PICK a \in Nat : Carries(Settled, a, tape) /\ (Whole => a = 0)
  BY DEF TapeOk
<1>2. Settled \in Seq(TapeFrame)
  BY RecentIs
<1> QED BY <1>1, <1>2, TapeFollows

\* A step that the reader and the engine's book do not see.
LEMMA RestOfTape ==
  ASSUME ThreadOk, RecorderOk, TapeOk, MirrorOk, Settled' \in Seq(TapeFrame),
         Recording' => Recording, Follows(Settled, Whole, <<>>, Settled', Whole'),
         recorder'.pending = recorder.pending, Coming' = Coming,
         UNCHANGED <<tape, newest, spoilt>>
  PROVE  TapeOk' /\ MirrorOk'
<1> DEFINE p == recorder.pending
<1>1. Settled \in Seq(TapeFrame) /\ p \in Seq(TapeFrame) /\ tape \in Nat /\ <<>> \in Seq(TapeFrame)
  <2>1. <<>> \in Seq(TapeFrame)
    OBVIOUS
  <2> QED BY <2>1, RecentIs DEF RecorderOk
<1>2. TapeOk'
  BY <1>1, CarriesNone, TapeAfter
<1>3. MirrorOk'
  <2> SUFFICES ASSUME Recording', Coming'.synced
               PROVE  /\ WindowOk(recorder.pending, newest, Coming.lastU)
                      /\ ~spoilt => ReplayOk(Settled' \o recorder.pending, Coming)
    BY DEF MirrorOk, WindowOk, Completes, ReplayOk
  <2>1. WindowOk(p, newest, Coming.lastU) /\ (~spoilt => ReplayOk(Settled \o p, Coming))
    BY DEF MirrorOk
  <2> HIDE DEF p
  <2>2. ASSUME Recorder!Replay(Settled' \o p).synced
        PROVE  Recorder!Replay(Settled' \o p) = Recorder!Replay(Settled \o p)
    <3>1. Recorder!Replay(Settled' \o p)
            = Recorder!ReplayFrom(Recorder!ReplayFrom(Recorder!Replay(Settled), <<>>), p)
      <4>1. ReadsTo(Settled, <<>>, Settled', p)
        BY <1>1, StepReads
      <4> QED BY <2>2, <4>1, Zenon DEF ReadsTo
    <3>2. Recorder!ReplayFrom(Recorder!Replay(Settled), <<>>) = Recorder!Replay(Settled)
      BY ReplayNone
    <3>3. Reads(Recorder!Unread, Settled, p)
      BY <1>1, ReadInParts, Zenon
    <3> QED BY <3>1, <3>2, <3>3 DEF Reads, Recorder!Replay
  <2>3. ~spoilt => ReplayOk(Settled' \o p, Coming)
    BY <2>1, <2>2 DEF ReplayOk
  <2> QED BY <2>1, <2>3 DEF p
<1> QED BY <1>2, <1>3

\* What has been tapped keeps the recorder well formed.
LEMMA TapTypes ==
  ASSUME CaptureAssumption, ThreadOk, RecorderOk, EngineOk, NEW f \in TapeFrame, NEW rolls,
         NEW c, c = Recorder!Coalesced(recorder.pending, f, rolls), Tapped(c.ready, c.pending),
         UNCHANGED <<table, thread, engineBook>>, tapped.u <= tapped'.u, tapped'.u \in Nat,
         f.kind # "trade" => f.u <= tapped'.u, tape' \in Nat
  PROVE  ThreadOk' /\ RecorderOk'
<1> DEFINE m == tapped'.u
<1>1. tapped.u \in Nat
  BY DEF EngineOk
<1>2. recorder \in RecorderType /\ table \in Seq(RowType) /\ LastSeq(table) <= recorder.seq
      /\ newest \in Nat /\ newest <= tapped.u
  BY DEF RecorderOk
<1>3. /\ \A i \in 1..Len(c.ready) : c.ready[i].kind # "trade" => c.ready[i].u <= m
      /\ PendingOk(c.pending, m) /\ PendingOk(recorder.pending, m)
  BY <1>1, TapBounds
<1>4. recorder' \in RecorderType /\ recorder'.seq = recorder.seq /\ IsNewest(newest, c.ready, newest')
      /\ recorder'.pending \in {c.pending, recorder.pending}
  BY DEF Tapped
<1>5. newest' \in Nat /\ newest' <= m
  BY <1>1, <1>2, <1>3, <1>4 DEF IsNewest
<1>6. PendingOk(recorder'.pending, m)
  BY <1>3, <1>4
<1>7. RecorderOk'
  BY <1>2, <1>4, <1>5, <1>6 DEF RecorderOk, PendingOk
<1>8. ThreadOk'
  BY <1>4 DEF ThreadOk
<1> QED BY <1>7, <1>8

LEMMA CarriesReady ==
  ASSUME ThreadOk, RecorderOk, NEW f \in TapeFrame, NEW rolls, f.kind # "trade",
         NEW c, c = Recorder!Coalesced(recorder.pending, f, rolls), tapped.u \in Nat, NEW a \in Nat
  PROVE  c.ready \in Seq(TapeFrame) /\ Carries(c.ready, a, a)
<1> DEFINE p == recorder.pending
<1>1. p \in Seq(TapeFrame)
  BY DEF RecorderOk, RecorderType
<1>2. Carries(<<>>, a, a) /\ Carries(<<f>>, a, a) /\ <<f>> \in Seq(TapeFrame)
  BY CarriesNone, CarriesOne
<1>3. Carries(p, a, a)
  <2>1. CASE p = <<>>
    BY <1>2, <2>1
  <2>2. CASE p # <<>>
    <3>1. PICK q \in TapeFrame : p = <<q>> /\ q.kind = "delta"
      BY <2>2 DEF RecorderOk
    <3>2. Carries(<<q>>, a, a)
      BY <3>1, CarriesOne
    <3> QED BY <3>1, <3>2
  <2> QED BY <2>1, <2>2
<1>4. Carries(p \o <<f>>, a, a)
  BY <1>1, <1>2, <1>3, CarriesBoth
<1>5. f.kind \in {"delta", "snapshot"}
  BY DEF TapeFrame
<1>6. c.ready \in {<<>>, p, p \o <<f>>} /\ c.ready \in Seq(TapeFrame)
  BY <1>5, CoalescedIs
<1> QED BY <1>2, <1>3, <1>4, <1>6

\* A delta of the replay, and of the window.
LEMMA DeltaReplayed ==
  ASSUME NEW b, NEW f, f.kind = "delta", Recorder!Replayed(b, f).synced
  PROVE  b.synced /\ Recorder!Replayed(b, f).levels = Recorder!Over(f.levels, b.levels)
<1>1. CASE b.synced
  <2>1. Recorder!Replayed(b, f) = [synced |-> TRUE, levels |-> Recorder!Over(f.levels, b.levels)]
    BY <1>1 DEF Recorder!Replayed
  <2> QED BY <1>1, <2>1
<1>2. CASE ~b.synced
  <2>1. Recorder!Replayed(b, f) = b
    BY <1>2 DEF Recorder!Replayed
  <2> QED BY <1>2, <2>1
<1> QED BY <1>1, <1>2

LEMMA PendingIs ==
  ASSUME RecorderOk, recorder.pending # <<>>
  PROVE  \E p \in TapeFrame : /\ recorder.pending = <<p>> /\ recorder.pending[1] = p
                              /\ p.kind = "delta" /\ p.u \in Nat /\ p.u <= tapped.u
<1>1. PICK p \in TapeFrame : recorder.pending = <<p>> /\ p.kind = "delta" /\ p.u <= tapped.u
  BY DEF RecorderOk
<1>2. p.u \in Nat /\ recorder.pending[1] = p
  BY <1>1 DEF TapeFrame
<1> QED BY <1>1, <1>2

\* When the window is over, everything up to the book has left it.
LEMMA WindowLeft ==
  ASSUME RecorderOk, NEW u \in Nat, WindowOk(recorder.pending, newest, u),
         IsNewest(newest, recorder.pending, newest')
  PROVE  newest' = u
<1> DEFINE p == recorder.pending
<1>1. newest \in Nat /\ newest' \in Nat
  BY DEF RecorderOk, IsNewest
<1>2. CASE p = <<>>
  <2>1. newest = u /\ Len(p) = 0
    BY <1>2 DEF WindowOk
  <2> QED BY <2>1 DEF IsNewest
<1>3. CASE p # <<>>
  <2>1. PICK q \in TapeFrame : p = <<q>> /\ p[1] = q /\ q.kind = "delta"
    BY <1>3, PendingIs
  <2>2. newest <= u /\ q.u = u
    BY <1>3, <2>1 DEF WindowOk
  <2>3. Len(p) = 1 /\ \A i \in 1..1 : i = 1
    BY <2>1
  <2>4. 1 \in 1..Len(p)
    BY <2>3
  <2>5. u <= newest'
    BY <2>1, <2>2, <2>4 DEF IsNewest
  <2>6. newest' = newest \/ newest' = u
    BY <2>1, <2>2, <2>3 DEF IsNewest
  <2> QED BY <1>1, <2>2, <2>5, <2>6
<1> QED BY <1>2, <1>3

\* The replay follows the engine's book over an update.
LEMMA MirrorUpdates ==
  ASSUME ThreadOk, RecorderOk, EngineOk, MirrorOk, Recording, frame = <<>>,
         NEW f \in TapeFrame, f = Recorder!Delta(tapped.u + 1), NEW rolls,
         NEW c, c = Recorder!Coalesced(recorder.pending, f, rolls), Tapped(c.ready, c.pending),
         Coming' = Recorder!Applied(engineBook, f), (Coming').synced, spoilt' = spoilt
  PROVE  /\ WindowOk(c.pending, newest', (Coming').lastU)
         /\ ~spoilt => ReplayOk(Settled' \o c.pending, Coming')
<1> DEFINE b == engineBook
           p == recorder.pending
           u == tapped.u
           m == u + 1
           s == Settled
           s2 == Settled'
           b2 == Coming'
           B(v) == Recorder!BookAt(v)
<1>1. f.kind = "delta" /\ f.u = m
  BY DEF Recorder!Delta, Recorder!Frame
<1>2. u \in Nat /\ b.lastU \in 0..u /\ Coming = b
  BY DEF EngineOk, Coming
<1>3. b.synced /\ m = b.lastU + 1 /\ b2 = [levels |-> Recorder!Over(f.levels, b.levels), synced |-> TRUE, lastU |-> m]
  <2>1. CASE b.synced /\ f.u = b.lastU + 1
    BY <1>1, <2>1 DEF Recorder!Applied
  <2>2. CASE ~(b.synced /\ f.u = b.lastU + 1)
    <3>1. b2 = [b EXCEPT !.synced = FALSE]
      BY <1>1, <2>2 DEF Recorder!Applied
    <3>2. b2.synced = FALSE
      BY <3>1 DEF EngineOk, IsEngineBook
    <3> QED BY <3>2
  <2> QED BY <2>1, <2>2
<1>4. b.lastU = u /\ b.levels = B(u)
  <2>1. b.lastU = u
    BY <1>2, <1>3
  <2> QED BY <1>3, <2>1 DEF EngineOk
<1>5. b2.lastU = m /\ b2.levels = Recorder!Over(f.levels, B(u))
  BY <1>3, <1>4
<1>6. WindowOk(p, newest, u) /\ (~spoilt => ReplayOk(s \o p, b))
  BY <1>2, <1>3, <1>4 DEF MirrorOk
<1>7. p \in Seq(TapeFrame) /\ s \in Seq(TapeFrame) /\ s2 \in Seq(TapeFrame)
      /\ c.ready \in Seq(TapeFrame) /\ c.pending \in Seq(TapeFrame) /\ newest \in Nat
  BY RecentIs, CoalescedIs DEF Tapped, RecorderOk
<1>8. ReadsTo(s, c.ready, s2, c.pending) /\ IsNewest(newest, c.ready, newest')
  BY <1>7, StepReads DEF Tapped
<1>9. Reads(Recorder!Unread, s, p)
  BY <1>7, ReadInParts, Zenon
<1>10. \/ c.ready = p /\ c.pending = <<f>>
       \/ p # <<>> /\ c.ready = <<>> /\ c.pending = <<Recorder!Merged(p[1], f)>>
  BY <1>1, CoalescedIs
<1> DEFINE old == Recorder!Replay(s \o p)
           new == Recorder!Replay(s2 \o c.pending)
           begun == Recorder!Replay(s)
<1>11. old = Recorder!ReplayFrom(begun, p)
  BY <1>9 DEF Reads, Recorder!Replay
<1>12. new.synced => new = Recorder!ReplayFrom(Recorder!ReplayFrom(begun, c.ready), c.pending)
  BY <1>8, Zenon DEF ReadsTo
<1>13. ~spoilt /\ old.synced => old.levels = B(u)
  BY <1>4, <1>6 DEF ReplayOk
<1>14. newest <= u
  BY <1>6 DEF WindowOk
<1>15. Completes(f, u, m)
  BY <1>2, WindowOpens
<1>16. ASSUME p # <<>>, NEW q \in TapeFrame, p = <<q>>, p[1] = q, q.kind = "delta"
       PROVE  Completes(Recorder!Merged(q, f), newest, m)
  <2>1. Completes(q, newest, u)
    BY <1>6, <1>16 DEF WindowOk
  <2> QED BY <1>2, <1>7, <1>14, <2>1, WindowGrows
<1> HIDE DEF old, new, begun, m, b, b2, s, s2, B
<1>17. CASE c.ready = p /\ c.pending = <<f>>
  <2>1. newest' = u
    BY <1>2, <1>6, <1>8, <1>17, WindowLeft
  <2>2. <<f>> # <<>> /\ <<f>>[1] = f
    OBVIOUS
  <2>3. WindowOk(<<f>>, u, m)
    BY <1>1, <1>2, <1>15, <2>2 DEF WindowOk, m
  <2>4. ~spoilt /\ new.synced => new.levels = b2.levels
    <3> SUFFICES ASSUME ~spoilt, new.synced PROVE new.levels = b2.levels
      OBVIOUS
    <3>1. new = Recorder!Replayed(old, f)
      BY <1>11, <1>12, <1>17, ReplayOne
    <3>2. old.synced /\ new.levels = Recorder!Over(f.levels, old.levels)
      BY <1>1, <3>1, DeltaReplayed
    <3> QED BY <1>5, <1>13, <3>2
  <2> QED BY <1>5, <1>17, <2>1, <2>3, <2>4 DEF ReplayOk, new, b2, s2
<1>18. CASE p # <<>> /\ c.ready = <<>> /\ c.pending = <<Recorder!Merged(p[1], f)>>
  <2>1. PICK q \in TapeFrame : p = <<q>> /\ p[1] = q /\ q.kind = "delta"
    BY <1>18, PendingIs
  <2> DEFINE g == Recorder!Merged(q, f)
  <2>2. g = [kind |-> q.kind, u |-> f.u, levels |-> Recorder!Over(f.levels, q.levels)] /\ c.pending = <<g>>
    BY <1>18, <2>1 DEF Recorder!Merged, Recorder!Frame
  <2>3. Completes(g, newest, m)
    BY <1>16, <1>18, <2>1
  <2> HIDE DEF g, p
  <2>4. g.kind = "delta" /\ g.u = m /\ g.levels = Recorder!Over(f.levels, q.levels)
    BY <1>1, <2>1, <2>2
  <2>5. newest' = newest
    <3>1. Len(<<>>) = 0
      OBVIOUS
    <3> QED BY <1>8, <1>18, <3>1 DEF IsNewest
  <2>6. <<g>> # <<>> /\ <<g>>[1] = g
    OBVIOUS
  <2>7. newest <= m
    BY <1>2, <1>7, <1>14 DEF m
  <2>8. WindowOk(<<g>>, newest, m)
    BY <2>3, <2>4, <2>6, <2>7 DEF WindowOk
  <2>9. ~spoilt /\ new.synced => new.levels = b2.levels
    <3> SUFFICES ASSUME ~spoilt, new.synced PROVE new.levels = b2.levels
      OBVIOUS
    <3>1. new = Recorder!Replayed(begun, g)
      <4>1. Recorder!ReplayFrom(begun, <<>>) = begun
        BY ReplayNone, Zenon
      <4>2. Recorder!ReplayFrom(begun, <<g>>) = Recorder!Replayed(begun, g)
        BY ReplayOne, Zenon
      <4>3. c.ready = <<>> /\ c.pending = <<g>>
        BY <1>18, <2>2
      <4> QED BY <1>12, <4>1, <4>2, <4>3
    <3>2. begun.synced /\ new.levels = Recorder!Over(g.levels, begun.levels)
      BY <2>4, <3>1, DeltaReplayed
    <3>3. old = Recorder!Replayed(begun, q)
      BY <1>11, <2>1, ReplayOne
    <3>4. old = [synced |-> TRUE, levels |-> Recorder!Over(q.levels, begun.levels)]
      BY <2>1, <3>2, <3>3 DEF Recorder!Replayed
    <3>5. Recorder!Over(q.levels, begun.levels) = B(u)
      BY <1>13, <3>4
    <3>6. Layers(f.levels, q.levels, begun.levels)
      BY OverOver, Zenon
    <3> QED BY <1>5, <2>4, <3>2, <3>5, <3>6 DEF Layers
  <2> QED BY <1>5, <2>2, <2>5, <2>8, <2>9 DEF ReplayOk, new, b2, s2
<1> QED BY <1>10, <1>17, <1>18

LEMMA TapUpdateKeeps ==
  ASSUME CaptureAssumption, CaptureInv, Recorder!TapUpdate
  PROVE  CaptureInv'
<1> DEFINE m == tapped.u + 1
           f == Recorder!Delta(m)
<1>1. ThreadOk /\ RecorderOk /\ EngineOk /\ TapeOk /\ MirrorOk
  BY DEF CaptureInv
<1>2. tapped.u \in Nat /\ tapped \in [u : Nat, lost : Nat] /\ tape \in Nat
  BY <1>1 DEF EngineOk, RecorderOk
<1>3. tapped' \in [u : Nat, lost : Nat] /\ tapped'.u = m
  BY <1>2 DEF Recorder!TapUpdate
<1>4. f \in TapeFrame /\ f.kind = "delta" /\ f.u = m
  BY <1>2, DeltaTyped DEF Recorder!Delta, Recorder!Frame
<1>5. frame = <<>> /\ frame' = <<f>>
      /\ UNCHANGED <<engineBook, tape, thread, table, spoilt>> /\ Recorder!Observe(f)
  BY DEF Recorder!TapUpdate
<1> HIDE DEF f
<1>6. PICK rolls : Recorder!Record(Recorder!Observed(recorder, f, rolls),
                                  Recorder!Coalesced(recorder.pending, f, rolls).ready)
  BY <1>5 DEF Recorder!Observe
<1> DEFINE c == Recorder!Coalesced(recorder.pending, f, rolls)
<1>7. Tapped(c.ready, c.pending)
  BY <1>1, <1>4, <1>5, <1>6, TapMoves
<1> HIDE DEF c
<1>8. c = Recorder!Coalesced(recorder.pending, f, rolls)
  BY DEF c
<1>9. tapped.u <= tapped'.u /\ tapped'.u \in Nat /\ f.u <= tapped'.u
  BY <1>2, <1>3, <1>4
<1>10. ThreadOk' /\ RecorderOk'
  BY <1>1, <1>2, <1>4, <1>5, <1>7, <1>8, <1>9, TapTypes
<1>11. EngineOk'
  <2>1. engineBook.lastU \in 0..tapped.u
    BY <1>1 DEF EngineOk
  <2>2. m \in engineBook.lastU..m /\ m # 0 /\ engineBook.lastU \in 0..m
    BY <1>2, <2>1
  <2> HIDE DEF m
  <2>3. frame' # <<>> => \E u \in engineBook.lastU..m :
            frame' = <<Recorder!Snapshot(u)>> \/ (u # 0 /\ frame' = <<Recorder!Delta(u)>>)
    BY <1>5, <2>2 DEF f
  <2> QED BY <1>1, <1>3, <1>5, <2>2, <2>3 DEF EngineOk, IsEngineBook
<1>12. TapeOk'
  <2>1. c.ready \in Seq(TapeFrame) /\ Carries(c.ready, tape, tape)
    BY <1>1, <1>2, <1>4, <1>8, CarriesReady
  <2>2. Carries(c.ready, tape, tape')
    BY <1>5, <2>1
  <2>3. Settled' \in Seq(TapeFrame) /\ (Recording' => Recording)
        /\ (Recording => Follows(Settled, Whole, c.ready, Settled', Whole'))
    BY <1>7 DEF Tapped, Recording
  <2> QED BY <1>1, <2>1, <2>2, <2>3, TapeAfter
<1>13. MirrorOk'
  <2> SUFFICES ASSUME Recording', (Coming').synced PROVE MirrorOk'
    BY DEF MirrorOk
  <2>1. Recording /\ recorder'.pending = c.pending
    BY <1>7 DEF Tapped, Recording
  <2>2. Coming' = Recorder!Applied(engineBook, f)
    <3>1. frame' # <<>> /\ frame'[1] = f
      BY <1>5
    <3> QED BY <1>5, <3>1 DEF Coming
  <2>3. f = Recorder!Delta(tapped.u + 1) /\ spoilt' = spoilt
    BY <1>5 DEF f
  <2>4. /\ WindowOk(c.pending, newest', (Coming').lastU)
        /\ ~spoilt => ReplayOk(Settled' \o c.pending, Coming')
    BY <1>1, <1>4, <1>5, <1>7, <1>8, <2>1, <2>2, <2>3, MirrorUpdates
  <2> QED BY <1>5, <2>1, <2>4 DEF MirrorOk, WindowOk, Completes, ReplayOk
<1> QED BY <1>10, <1>11, <1>12, <1>13 DEF CaptureInv

LEMMA TapSnapshotKeeps ==
  ASSUME CaptureAssumption, CaptureInv, Recorder!TapSnapshot
  PROVE  CaptureInv'
<1> DEFINE u == tapped.u
           f == Recorder!Snapshot(u)
<1>1. ThreadOk /\ RecorderOk /\ EngineOk /\ TapeOk /\ MirrorOk
  BY DEF CaptureInv
<1>2. u \in Nat /\ tape \in Nat /\ engineBook.lastU \in 0..u
  BY <1>1 DEF EngineOk, RecorderOk
<1>4. f \in TapeFrame /\ f.kind = "snapshot" /\ f.u = u /\ f.levels = Recorder!BookAt(u)
  BY <1>2, SnapshotTyped DEF Recorder!Snapshot, Recorder!Frame
<1>5. frame = <<>> /\ frame' = <<f>>
      /\ UNCHANGED <<tapped, engineBook, tape, thread, table>> /\ Recorder!Observe(f)
  BY DEF Recorder!TapSnapshot
<1> HIDE DEF f
<1>6. PICK rolls : Recorder!Record(Recorder!Observed(recorder, f, rolls),
                                  Recorder!Coalesced(recorder.pending, f, rolls).ready)
  BY <1>5 DEF Recorder!Observe
<1> DEFINE c == Recorder!Coalesced(recorder.pending, f, rolls)
<1>7. Tapped(c.ready, c.pending)
  BY <1>1, <1>4, <1>5, <1>6, TapMoves
<1> HIDE DEF c
<1>8. c = Recorder!Coalesced(recorder.pending, f, rolls)
  BY DEF c
<1>9. tapped.u <= tapped'.u /\ tapped'.u \in Nat /\ f.u <= tapped'.u
  BY <1>2, <1>4, <1>5
<1>10. ThreadOk' /\ RecorderOk'
  BY <1>1, <1>2, <1>4, <1>5, <1>7, <1>8, <1>9, TapTypes
<1>11. EngineOk'
  <2>1. u \in engineBook.lastU..u
    BY <1>2
  <2>2. frame' # <<>> => \E v \in engineBook.lastU..u :
            frame' = <<Recorder!Snapshot(v)>> \/ (v # 0 /\ frame' = <<Recorder!Delta(v)>>)
    BY <1>5, <2>1 DEF f
  <2> QED BY <1>1, <1>5, <2>2 DEF EngineOk, IsEngineBook
<1>12. TapeOk'
  <2>1. c.ready \in Seq(TapeFrame) /\ Carries(c.ready, tape, tape)
    BY <1>1, <1>2, <1>4, <1>8, CarriesReady
  <2>2. Carries(c.ready, tape, tape')
    BY <1>5, <2>1
  <2>3. Settled' \in Seq(TapeFrame) /\ (Recording' => Recording)
        /\ (Recording => Follows(Settled, Whole, c.ready, Settled', Whole'))
    BY <1>7 DEF Tapped, Recording
  <2> QED BY <1>1, <2>1, <2>2, <2>3, TapeAfter
<1>13. MirrorOk'
  <2> SUFFICES ASSUME Recording' PROVE MirrorOk'
    BY DEF MirrorOk
  <2>1. Recording /\ recorder'.pending = c.pending
    BY <1>7 DEF Tapped, Recording
  <2>2. Coming' = [levels |-> Recorder!BookAt(u), synced |-> TRUE, lastU |-> u]
    <3>1. frame' # <<>> /\ frame'[1] = f
      BY <1>5
    <3>2. Coming' = Recorder!Applied(engineBook, f)
      BY <1>5, <3>1 DEF Coming
    <3> QED BY <1>4, <3>2 DEF Recorder!Applied
  <2> DEFINE p == recorder.pending
             b2 == Coming'
  <2>3. c.ready = p \o <<f>> /\ c.pending = <<>> /\ p \in Seq(TapeFrame) /\ c.ready \in Seq(TapeFrame)
    BY <1>1, <1>4, <1>8, CoalescedIs, RecentIs
  <2>4. newest' = u
    <3>1. \A i \in 1..Len(c.ready) : c.ready[i].kind # "trade" => c.ready[i].u <= u
      BY <1>1, <1>2, <1>4, <1>8, TapBounds
    <3>2. newest \in Nat /\ newest <= u /\ IsNewest(newest, c.ready, newest')
      BY <1>1, <1>7 DEF RecorderOk, Tapped
    <3> DEFINE n == Len(p) + 1
    <3>3. n \in 1..Len(c.ready) /\ c.ready[n] = f
      BY <2>3
    <3> HIDE DEF n
    <3>4. u <= newest'
      BY <1>4, <3>2, <3>3 DEF IsNewest
    <3> QED BY <1>2, <3>1, <3>2, <3>4 DEF IsNewest
  <2>5. WindowOk(<<>>, u, u)
    BY <1>2 DEF WindowOk
  <2>6. ReplayOk(Settled' \o <<>>, b2)
    <3> DEFINE s == Settled
               s2 == Settled'
               new == Recorder!Replay(s2 \o <<>>)
    <3>1. s \in Seq(TapeFrame) /\ s2 \in Seq(TapeFrame) /\ <<>> \in Seq(TapeFrame) /\ <<f>> \in Seq(TapeFrame)
      <4>1. <<>> \in Seq(TapeFrame) /\ <<f>> \in Seq(TapeFrame)
        BY <1>4
      <4> QED BY <1>1, <1>7, <4>1, RecentIs DEF Tapped
    <3>2. ReadsTo(s, c.ready, s2, <<>>)
      BY <1>7, <2>1, <2>3, <3>1, StepReads DEF Tapped
    <3> DEFINE begun == Recorder!Replay(s)
    <3>3. Reads(begun, p, <<f>>)
      BY <2>3, <3>1, ReadInParts, Zenon
    <3> HIDE DEF begun, s, s2
    <3>4. \A b : Recorder!ReplayFrom(b, <<f>>) = [synced |-> TRUE, levels |-> f.levels]
      BY <1>4, ReplayOne DEF Recorder!Replayed
    <3>5. Recorder!ReplayFrom(begun, c.ready) = [synced |-> TRUE, levels |-> f.levels]
      BY <2>3, <3>3, <3>4 DEF Reads
    <3>6. new.synced => new = Recorder!ReplayFrom(Recorder!ReplayFrom(begun, c.ready), <<>>)
      BY <3>2, Zenon DEF ReadsTo, begun
    <3> HIDE DEF new
    <3>7. new.synced => new = [synced |-> TRUE, levels |-> f.levels]
      BY <3>5, <3>6, ReplayNone, Zenon
    <3>8. b2.levels = f.levels
      BY <1>4, <2>2
    <3> HIDE DEF b2
    <3> QED BY <3>7, <3>8 DEF ReplayOk, new, s2
  <2>7. b2.lastU = u
    BY <2>2
  <2> QED BY <2>1, <2>3, <2>4, <2>5, <2>6, <2>7 DEF MirrorOk, WindowOk, Completes, ReplayOk
<1> QED BY <1>10, <1>11, <1>12, <1>13 DEF CaptureInv

LEMMA TapTradeKeeps ==
  ASSUME CaptureAssumption, CaptureInv, Recorder!TapTrade
  PROVE  CaptureInv'
<1> DEFINE f == Recorder!Trade(tape + 1)
<1>1. ThreadOk /\ RecorderOk /\ EngineOk /\ TapeOk /\ MirrorOk
  BY DEF CaptureInv
<1>2. tapped.u \in Nat /\ tape \in Nat /\ newest \in Nat
  BY <1>1 DEF EngineOk, RecorderOk
<1>3. f \in TapeFrame /\ f.kind = "trade" /\ f.u = tape + 1
  BY <1>2, TradeTyped DEF Recorder!Trade, Recorder!Frame
<1>4. UNCHANGED <<tapped, engineBook, frame, thread, table, spoilt>> /\ Recorder!Observe(f)
      /\ tape' = tape + 1
  BY DEF Recorder!TapTrade
<1> HIDE DEF f
<1>5. PICK rolls : Recorder!Record(Recorder!Observed(recorder, f, rolls),
                                  Recorder!Coalesced(recorder.pending, f, rolls).ready)
  BY <1>4 DEF Recorder!Observe
<1> DEFINE c == Recorder!Coalesced(recorder.pending, f, rolls)
<1>6. Tapped(c.ready, c.pending)
  BY <1>1, <1>3, <1>4, <1>5, TapMoves
<1> HIDE DEF c
<1>7. c = Recorder!Coalesced(recorder.pending, f, rolls)
  BY DEF c
<1>8. c.ready = <<f>> /\ c.pending = recorder.pending
  BY <1>1, <1>3, <1>7, CoalescedIs
<1>9. tapped.u <= tapped'.u /\ tapped'.u \in Nat /\ tape' \in Nat
  BY <1>2, <1>4
<1>10. ThreadOk' /\ RecorderOk'
  BY <1>1, <1>3, <1>4, <1>6, <1>7, <1>9, TapTypes
<1>11. EngineOk'
  BY <1>1, <1>4 DEF EngineOk, IsEngineBook
<1>12. <<f>> \in Seq(TapeFrame) /\ Settled' \in Seq(TapeFrame) /\ (Recording' => Recording)
       /\ (Recording => Follows(Settled, Whole, <<f>>, Settled', Whole'))
       /\ (Recording => recorder'.pending = recorder.pending) /\ IsNewest(newest, <<f>>, newest')
  BY <1>3, <1>6, <1>8 DEF Tapped, Recording
<1>13. TapeOk'
  <2>1. Carries(<<f>>, tape, tape')
    BY <1>2, <1>3, <1>4, CarriesOne
  <2> QED BY <1>1, <1>12, <2>1, TapeAfter
<1>14. MirrorOk'
  <2> SUFFICES ASSUME Recording', (Coming').synced PROVE MirrorOk'
    BY DEF MirrorOk
  <2>1. Recording /\ recorder'.pending = recorder.pending
    BY <1>12
  <2>2. Coming' = Coming
    BY <1>4 DEF Coming
  <2> DEFINE p == recorder.pending
             s == Settled
             s2 == Settled'
             b == Coming
  <2>3. newest' = newest
    <3>1. Len(<<f>>) = 1 /\ <<f>>[1] = f /\ \A i \in 1..1 : i = 1
      OBVIOUS
    <3> QED BY <1>3, <1>12, <3>1 DEF IsNewest
  <2>4. WindowOk(p, newest, b.lastU) /\ (~spoilt => ReplayOk(s \o p, b))
    BY <1>1, <2>1, <2>2 DEF MirrorOk
  <2>5. p \in Seq(TapeFrame) /\ s \in Seq(TapeFrame)
    BY <1>1, RecentIs
  <2>6. ReadsTo(s, <<f>>, s2, p)
    BY <1>12, <2>1, <2>5, StepReads
  <2>7. Reads(Recorder!Unread, s, p)
    BY <2>5, ReadInParts, Zenon
  <2> DEFINE begun == Recorder!Replay(s)
             old == Recorder!Replay(s \o p)
             new == Recorder!Replay(s2 \o p)
  <2>8. Recorder!ReplayFrom(begun, <<f>>) = begun
    <3>1. Recorder!Replayed(begun, f) = begun
      BY <1>3 DEF Recorder!Replayed
    <3> QED BY <3>1, ReplayOne
  <2>9. old = Recorder!ReplayFrom(begun, p)
    BY <2>7 DEF Reads, Recorder!Replay
  <2> HIDE DEF begun, old
  <2>10. new.synced => new = old
    <3>1. new.synced => new = Recorder!ReplayFrom(Recorder!ReplayFrom(begun, <<f>>), p)
      BY <2>6, Zenon DEF ReadsTo, begun
    <3> HIDE DEF new
    <3> QED BY <2>8, <2>9, <3>1, Zenon
  <2>11. ~spoilt => ReplayOk(s2 \o p, b)
    BY <2>4, <2>10 DEF ReplayOk, old
  <2> QED BY <1>4, <2>1, <2>2, <2>3, <2>4, <2>11 DEF MirrorOk, WindowOk, Completes, ReplayOk
<1> QED BY <1>10, <1>11, <1>13, <1>14 DEF CaptureInv

LEMMA LostUpdateKeeps ==
  ASSUME CaptureInv, Recorder!LoseUpdate
  PROVE  CaptureInv'
<1>1. ThreadOk /\ RecorderOk /\ EngineOk /\ TapeOk /\ MirrorOk
  BY DEF CaptureInv
<1>2. /\ tapped' = [u |-> tapped.u + 1, lost |-> tapped.lost + 1]
      /\ UNCHANGED <<engineBook, frame, recorder, tape, thread, table, spoilt, newest>>
  BY DEF Recorder!LoseUpdate
<1>3. tapped \in [u : Nat, lost : Nat] /\ tapped.u \in Nat /\ tapped.lost \in Nat
  BY <1>1 DEF EngineOk
<1>4. tapped' \in [u : Nat, lost : Nat] /\ tapped'.u = tapped.u + 1
  BY <1>2, <1>3
<1>5. EngineOk'
  <2>1. engineBook.lastU \in 0..tapped'.u
    BY <1>1, <1>3, <1>4 DEF EngineOk
  <2>2. \A u \in engineBook.lastU..tapped.u : u \in engineBook.lastU..tapped'.u
    BY <1>3, <1>4, <2>1
  <2> QED BY <1>1, <1>2, <1>4, <2>1, <2>2 DEF EngineOk, IsEngineBook
<1>6. RecorderOk'
  <2>1. newest <= tapped'.u
    BY <1>1, <1>3, <1>4 DEF RecorderOk
  <2>2. \A p \in TapeFrame : p.u <= tapped.u => p.u <= tapped'.u
    BY <1>3, <1>4 DEF TapeFrame
  <2> QED BY <1>1, <1>2, <2>1, <2>2 DEF RecorderOk
<1>7. ThreadOk'
  BY <1>1, <1>2 DEF ThreadOk
<1>8. Settled' = Settled /\ Whole' = Whole /\ Coming' = Coming
  BY <1>2 DEF Settled, SettledOf, Whole, WholeOf, Kept, Coming
<1>9. TapeOk' /\ MirrorOk'
  <2>1. Settled \in Seq(TapeFrame)
    BY <1>1, RecentIs
  <2>2. Follows(Settled, Whole, <<>>, Settled', Whole')
    BY <1>8, <2>1, NothingFollows
  <2>3. recorder'.pending = recorder.pending /\ Settled' \in Seq(TapeFrame) /\ (Recording' => Recording)
    BY <1>2, <1>8, <2>1 DEF Recording
  <2> QED BY <1>1, <1>2, <1>8, <2>2, <2>3, RestOfTape
<1> QED BY <1>5, <1>6, <1>7, <1>9 DEF CaptureInv

LEMMA ApplyFrameKeeps ==
  ASSUME CaptureInv, Recorder!Apply
  PROVE  CaptureInv'
<1>1. ThreadOk /\ RecorderOk /\ EngineOk /\ TapeOk /\ MirrorOk
  BY DEF CaptureInv
<1>2. /\ frame # <<>> /\ frame' = <<>> /\ engineBook' = Recorder!Applied(engineBook, frame[1])
      /\ UNCHANGED <<tapped, recorder, tape, thread, table, spoilt, newest>>
  BY DEF Recorder!Apply
<1>3. engineBook' = Coming
  BY <1>2 DEF Coming
<1>4. /\ Coming.synced \in BOOLEAN /\ Coming.lastU \in engineBook.lastU..tapped.u
      /\ engineBook.lastU \in Nat /\ tapped.u \in Nat /\ Coming.lastU \in Nat
      /\ Coming.synced => Coming.levels = Recorder!BookAt(Coming.lastU)
      /\ Coming = [levels |-> Coming.levels, synced |-> Coming.synced, lastU |-> Coming.lastU]
  BY <1>1, ComingIs
<1>5. EngineOk'
  <2>1. Coming.lastU \in 0..tapped.u
    BY <1>4
  <2> QED BY <1>1, <1>2, <1>3, <1>4, <2>1 DEF EngineOk, IsEngineBook
<1>6. RecorderOk'
  BY <1>1, <1>2 DEF RecorderOk
<1>7. ThreadOk'
  <2>1. engineBook.lastU <= engineBook'.lastU
    BY <1>3, <1>4
  <2>2. \A s \in TapeFrame : s.u <= engineBook.lastU => s.u <= engineBook'.lastU
    BY <1>3, <1>4, <2>1 DEF TapeFrame
  <2> QED BY <1>1, <1>2, <2>2 DEF ThreadOk
<1>8. Settled' = Settled /\ Whole' = Whole /\ Coming' = Coming
  <2>1. Coming' = engineBook'
    BY <1>2 DEF Coming
  <2> QED BY <1>2, <1>3, <2>1 DEF Settled, SettledOf, Whole, WholeOf, Kept
<1>9. TapeOk' /\ MirrorOk'
  <2>1. Settled \in Seq(TapeFrame)
    BY <1>1, RecentIs
  <2>2. Follows(Settled, Whole, <<>>, Settled', Whole')
    BY <1>8, <2>1, NothingFollows
  <2>3. recorder'.pending = recorder.pending /\ Settled' \in Seq(TapeFrame) /\ (Recording' => Recording)
    BY <1>2, <1>8, <2>1 DEF Recording
  <2> QED BY <1>1, <1>2, <1>8, <2>2, <2>3, RestOfTape
<1> QED BY <1>5, <1>6, <1>7, <1>9 DEF CaptureInv
-----------------------------------------------------------------------------
(* The steps of the recorder's thread.                                     *)

LEMMA IdleIs ==
  ASSUME ThreadOk, RecorderOk, thread.doing = "nothing"
  PROVE  thread.row = <<>> /\ Kept = table
<1>1. thread.row = <<>>
  BY DEF ThreadOk, Seeding, Writing, Recorder!Idle
<1> QED BY <1>1, KeptIs

LEMMA SeedCopyKeeps ==
  ASSUME CaptureInv, Recorder!SeedCopy
  PROVE  CaptureInv'
<1> DEFINE s == Recorder!Frame("snapshot", engineBook.lastU, engineBook.levels)
<1>1. ThreadOk /\ RecorderOk /\ EngineOk /\ TapeOk /\ MirrorOk
  BY DEF CaptureInv
<1>2. /\ thread.doing = "nothing" /\ engineBook.synced
      /\ thread' = [Recorder!Idle EXCEPT !.doing = "seeding", !.seed = <<s>>]
      /\ UNCHANGED <<tapped, engineBook, frame, recorder, tape, table, spoilt, newest>>
  BY DEF Recorder!SeedCopy
<1>3. engineBook.lastU \in Nat /\ engineBook.levels = Recorder!BookAt(engineBook.lastU)
  BY <1>1, <1>2 DEF EngineOk
<1>4. s = [kind |-> "snapshot", u |-> engineBook.lastU, levels |-> Recorder!BookAt(engineBook.lastU)]
  BY <1>3 DEF Recorder!Frame
<1>5. s \in TapeFrame /\ s.kind = "snapshot" /\ s.u <= engineBook.lastU /\ s.levels = Recorder!BookAt(s.u)
  BY <1>3, <1>4, BookTyped DEF TapeFrame
<1> HIDE DEF s
<1>6. thread' = Seeding(s)
  BY <1>2 DEF Seeding, Recorder!Idle
<1>7. ThreadOk'
  <2>1. \E t \in TapeFrame : /\ thread' = Seeding(t) /\ t.kind = "snapshot" /\ t.u <= engineBook'.lastU
                             /\ t.levels = Recorder!BookAt(t.u)
    BY <1>2, <1>5, <1>6
  <2> QED BY <2>1 DEF ThreadOk, Seeding
<1>8. RecorderOk'
  BY <1>1, <1>2 DEF RecorderOk
<1>9. EngineOk'
  BY <1>1, <1>2 DEF EngineOk, IsEngineBook
<1>10. Kept' = Kept
  <2>1. thread.row = <<>> /\ thread'.row = <<>>
    <3>1. thread.row = <<>>
      BY <1>1, <1>2, IdleIs, Zenon
    <3> QED BY <1>6, <3>1 DEF Seeding
  <2> QED BY <1>2, <2>1 DEF Kept
<1>11. Settled' = Settled /\ Whole' = Whole /\ Coming' = Coming
  BY <1>2, <1>10 DEF Settled, SettledOf, Whole, WholeOf, Coming
<1>12. TapeOk' /\ MirrorOk'
  <2>1. Settled \in Seq(TapeFrame)
    BY <1>1, RecentIs
  <2>2. Follows(Settled, Whole, <<>>, Settled', Whole')
    BY <1>11, <2>1, NothingFollows
  <2>3. recorder'.pending = recorder.pending /\ Settled' \in Seq(TapeFrame) /\ (Recording' => Recording)
    BY <1>2, <1>11, <2>1 DEF Recording
  <2> QED BY <1>1, <1>2, <1>11, <2>2, <2>3, RestOfTape
<1> QED BY <1>7, <1>8, <1>9, <1>12 DEF CaptureInv

LEMMA ExhaustKeeps ==
  ASSUME CaptureInv, Recorder!Exhaust
  PROVE  CaptureInv'
<1>1. ThreadOk /\ RecorderOk /\ EngineOk
  BY DEF CaptureInv
<1>2. /\ recorder' = [recorder EXCEPT !.state = "EXHAUSTED"] /\ thread' = Recorder!Idle
      /\ UNCHANGED <<tapped, engineBook, frame, tape, table, spoilt, newest>>
  BY DEF Recorder!Exhaust
<1>3. recorder \in RecorderType
  BY <1>1 DEF RecorderOk
<1>4. recorder' \in RecorderType /\ recorder'.state = "EXHAUSTED" /\ recorder'.seq = recorder.seq
      /\ recorder'.pending = recorder.pending
  BY <1>2, <1>3 DEF RecorderType
<1>5. RecorderOk'
  BY <1>1, <1>2, <1>4 DEF RecorderOk
<1>6. EngineOk'
  BY <1>1, <1>2 DEF EngineOk, IsEngineBook
<1>7. ThreadOk'
  BY <1>2 DEF ThreadOk, Recorder!Idle
<1>8. ~Recording'
  BY <1>4 DEF Recording
<1> QED BY <1>5, <1>6, <1>7, <1>8 DEF CaptureInv, TapeOk, MirrorOk

LEMMA WriteKeeps ==
  ASSUME CaptureInv, NEW stored \in BOOLEAN, NEW answered \in BOOLEAN, Recorder!Write(stored, answered)
  PROVE  CaptureInv'
<1>1. ThreadOk /\ RecorderOk /\ EngineOk /\ TapeOk /\ MirrorOk
  BY DEF CaptureInv
<1>2. /\ thread.doing = "writing" /\ table' = IF stored THEN table \o thread.row ELSE table
      /\ recorder' = IF stored /\ answered
                     THEN [recorder EXCEPT !.stored = @ + Len(thread.row[1].frames)] ELSE recorder
      /\ thread' = Recorder!Idle
      /\ UNCHANGED <<tapped, engineBook, frame, tape, spoilt, newest>>
  BY DEF Recorder!Write
<1>3. PICK row \in RowType : thread = Writing(row) /\ row.seq = recorder.seq /\ LastSeq(table) < recorder.seq
  BY <1>1, <1>2 DEF ThreadOk, Recorder!Idle, Seeding
<1>4. Kept = Append(table, row) /\ Kept \in Seq(RowType)
  BY <1>1, <1>3, KeptIs
<1>5. recorder \in RecorderType /\ table \in Seq(RowType) /\ recorder.seq \in Nat
  BY <1>1 DEF RecorderOk, RecorderType
<1>6. thread.row = <<row>> /\ table \o <<row>> = Append(table, row) /\ LastSeq(Append(table, row)) = recorder.seq
  BY <1>3, <1>5, LastSeqIs DEF Writing
<1>7. recorder' \in RecorderType /\ recorder'.seq = recorder.seq /\ recorder'.state = recorder.state
      /\ recorder'.dropped = recorder.dropped /\ recorder'.buffer = recorder.buffer
      /\ recorder'.pending = recorder.pending
  <2>1. CASE stored /\ answered
    <3>1. row.frames \in Seq(TapeFrame) /\ thread.row[1] = row
      BY <1>6 DEF RowType
    <3> DEFINE n == Len(row.frames)
    <3>2. n \in Nat
      BY <3>1, LenProperties
    <3>3. recorder' = [recorder EXCEPT !.stored = recorder.stored + n]
      BY <1>2, <2>1, <3>1
    <3> HIDE DEF n
    <3>4. recorder.stored + n \in Nat
      BY <1>5, <3>2 DEF RecorderType
    <3>5. recorder' = [state |-> recorder.state, buffer |-> recorder.buffer, pending |-> recorder.pending,
                       dropped |-> recorder.dropped, seq |-> recorder.seq, stored |-> recorder.stored + n]
      BY <1>5, <3>3 DEF RecorderType
    <3>6. recorder' \in RecorderType
      BY <1>5, <3>4, <3>5 DEF RecorderType
    <3> QED BY <3>5, <3>6
  <2>2. CASE ~(stored /\ answered)
    BY <1>2, <1>5, <2>2
  <2> QED BY <2>1, <2>2
<1>8. table' \in Seq(RowType) /\ LastSeq(table') <= recorder.seq /\ Kept' = table'
      /\ IF stored THEN table' = Kept ELSE table' = table
  <2>1. CASE stored
    <3>1. table' = Kept
      BY <1>2, <1>4, <1>6, <2>1
    <3>2. LastSeq(table') = recorder.seq
      BY <1>4, <1>6, <3>1
    <3>3. Kept' = table' \o <<>>
      BY <1>2 DEF Kept, Recorder!Idle
    <3> QED BY <1>4, <1>5, <2>1, <3>1, <3>2, <3>3, LastSeqIs
  <2>2. CASE ~stored
    <3>1. table' = table
      BY <1>2, <2>2
    <3>2. LastSeq(table') <= recorder.seq
      BY <1>1, <3>1 DEF RecorderOk
    <3>3. Kept' = table' \o <<>>
      BY <1>2 DEF Kept, Recorder!Idle
    <3> QED BY <1>5, <2>2, <3>1, <3>2, <3>3, LastSeqIs
  <2> QED BY <2>1, <2>2
<1>9. RecorderOk'
  BY <1>1, <1>2, <1>7, <1>8 DEF RecorderOk
<1>10. EngineOk'
  BY <1>1, <1>2 DEF EngineOk, IsEngineBook
<1>11. ThreadOk'
  BY <1>2 DEF ThreadOk, Recorder!Idle
<1>12. Settled' = SettledOf(table', recorder) /\ (Whole' <=> WholeOf(table', recorder)) /\ Coming' = Coming
  BY <1>2, <1>7, <1>8 DEF Settled, SettledOf, Whole, WholeOf, Coming
<1>13. Settled' \in Seq(TapeFrame) /\ Follows(Settled, Whole, <<>>, Settled', Whole')
  <2>1. CASE stored
    <3>1. Settled \in Seq(TapeFrame)
      BY <1>1, RecentIs
    <3>2. Settled' = Settled /\ (Whole' <=> Whole)
      BY <1>8, <1>12, <2>1 DEF Settled, Whole
    <3>3. Follows(Settled, Whole, <<>>, Settled, Whole)
      BY <3>1, NothingFollows
    <3> QED BY <3>1, <3>2, <3>3 DEF Follows
  <2>2. CASE ~stored
    <3>1. /\ SettledOf(table, recorder) \in Seq(TapeFrame)
          /\ Follows(SettledOf(Kept, recorder), WholeOf(Kept, recorder), <<>>,
                     SettledOf(table, recorder), WholeOf(table, recorder))
      BY <1>3, <1>4, <1>5, LossFollows
    <3>2. Settled' = SettledOf(table, recorder) /\ (Whole' <=> WholeOf(table, recorder))
      BY <1>8, <1>12, <2>2
    <3> QED BY <3>1, <3>2 DEF Follows, Settled, Whole
  <2> QED BY <2>1, <2>2
<1>14. TapeOk' /\ MirrorOk'
  <2>1. Recording' => Recording
    BY <1>7 DEF Recording
  <2> QED BY <1>1, <1>2, <1>7, <1>12, <1>13, <2>1, RestOfTape
<1> QED BY <1>9, <1>10, <1>11, <1>14 DEF CaptureInv

\* The window is drained into the buffer.
LEMMA DrainIs ==
  ASSUME CaptureAssumption, ThreadOk, RecorderOk, NEW q, q = Recorder!Drained(recorder)
  PROVE  /\ q \in RecorderType /\ q.pending = <<>> /\ q.seq = recorder.seq /\ q.state = recorder.state
         /\ SettledOf(Kept, q) \in Seq(TapeFrame)
         /\ Follows(Settled, Whole, recorder.pending, SettledOf(Kept, q), WholeOf(Kept, q))
<1> DEFINE p == recorder.pending
           r == Recorder!Buffered(recorder, p)
<1>1. recorder \in RecorderType /\ p \in Seq(TapeFrame) /\ BufferLimit \in Nat
  BY DEF RecorderOk, RecorderType, CaptureAssumption
<1>2. Kept \in Seq(RowType)
  BY KeptIs
<1>3. PICK x \in Nat, head \in Seq(TapeFrame) : BufferStep(recorder, p, r, x, head)
  BY <1>1, BufferedIs
<1>4. /\ SettledOf(Kept, r) \in Seq(TapeFrame)
      /\ Follows(SettledOf(Kept, recorder), WholeOf(Kept, recorder), p, SettledOf(Kept, r), WholeOf(Kept, r))
  BY <1>1, <1>2, BufferGrows
<1>5. q = [r EXCEPT !.pending = <<>>]
  BY DEF Recorder!Drained
<1> HIDE DEF r
<1>6. r \in RecorderType /\ r.state = recorder.state /\ r.seq = recorder.seq
  BY <1>3 DEF BufferStep
<1>7. q = [state |-> r.state, buffer |-> r.buffer, pending |-> <<>>, dropped |-> r.dropped,
           seq |-> r.seq, stored |-> r.stored]
  BY <1>5, <1>6 DEF RecorderType
<1>8. q \in RecorderType
  <2>1. <<>> \in Seq(TapeFrame)
    OBVIOUS
  <2> QED BY <1>6, <1>7, <2>1 DEF RecorderType
<1>9. q.dropped = r.dropped /\ q.seq = r.seq /\ q.buffer = r.buffer /\ q.pending = <<>> /\ q.state = r.state
  BY <1>7
<1>10. SettledOf(Kept, q) = SettledOf(Kept, r) /\ (WholeOf(Kept, q) <=> WholeOf(Kept, r))
  BY <1>9 DEF SettledOf, WholeOf
<1> QED BY <1>4, <1>6, <1>8, <1>9, <1>10 DEF Settled, Whole, Follows

\* Nothing that is drained is newer than the exchange.
LEMMA DrainBounds ==
  ASSUME RecorderOk, EngineOk, IsNewest(newest, recorder.pending, newest')
  PROVE  newest' \in Nat /\ newest' <= tapped.u
<1> DEFINE p == recorder.pending
<1>1. newest \in Nat /\ newest <= tapped.u /\ tapped.u \in Nat
  BY DEF RecorderOk, EngineOk
<1>2. CASE p = <<>>
  <2>1. Len(p) = 0
    BY <1>2
  <2> QED BY <1>1, <2>1 DEF IsNewest
<1>3. CASE p # <<>>
  <2>1. PICK q \in TapeFrame : p = <<q>> /\ q.u <= tapped.u
    BY <1>3, PendingIs
  <2>2. Len(p) = 1 /\ p[1] = q /\ \A i \in 1..1 : i = 1
    BY <2>1
  <2> QED BY <1>1, <2>1, <2>2 DEF IsNewest
<1> QED BY <1>2, <1>3

\* Draining shows in neither the tape nor the book.
LEMMA DrainKeeps ==
  ASSUME ThreadOk, RecorderOk, EngineOk, TapeOk, MirrorOk, Settled' \in Seq(TapeFrame),
         Follows(Settled, Whole, recorder.pending, Settled', Whole'),
         recorder'.pending = <<>>, recorder'.state = recorder.state,
         IsNewest(newest, recorder.pending, newest'),
         UNCHANGED <<engineBook, frame, tape, spoilt>>
  PROVE  TapeOk' /\ MirrorOk'
<1> DEFINE p == recorder.pending
<1>1. Settled \in Seq(TapeFrame) /\ p \in Seq(TapeFrame) /\ tape \in Nat /\ <<>> \in Seq(TapeFrame)
  <2>1. <<>> \in Seq(TapeFrame)
    OBVIOUS
  <2> QED BY <2>1, RecentIs DEF RecorderOk
<1>2. TapeOk'
  <2>1. Carries(p, tape, tape)
    <3>1. CASE p = <<>>
      BY <1>1, <3>1, CarriesNone
    <3>2. CASE p # <<>>
      <4>1. PICK q \in TapeFrame : p = <<q>> /\ q.kind = "delta"
        BY <3>2, PendingIs
      <4> QED BY <1>1, <4>1, CarriesOne
    <3> QED BY <3>1, <3>2
  <2>2. Recording' => Recording
    BY DEF Recording
  <2>3. Carries(p, tape, tape')
    BY <2>1
  <2> HIDE DEF p
  <2>4. Follows(Settled, Whole, p, Settled', Whole')
    BY DEF p
  <2> QED BY <1>1, <2>2, <2>3, <2>4, TapeAfter
<1>3. MirrorOk'
  <2> SUFFICES ASSUME Recording', (Coming').synced PROVE MirrorOk'
    BY DEF MirrorOk
  <2>1. Recording /\ Coming' = Coming
    BY DEF Recording, Coming
  <2> DEFINE b == Coming
             s == Settled
             s2 == Settled'
  <2>2. WindowOk(p, newest, b.lastU) /\ (~spoilt => ReplayOk(s \o p, b)) /\ b.lastU \in Nat
    BY <2>1, ComingIs DEF MirrorOk
  <2>3. newest' = b.lastU
    BY <2>2, WindowLeft
  <2>4. WindowOk(<<>>, b.lastU, b.lastU)
    BY <2>2 DEF WindowOk
  <2>5. ReadsTo(s, p, s2, <<>>)
    BY <1>1, StepReads
  <2>6. Reads(Recorder!Unread, s, p)
    BY <1>1, ReadInParts, Zenon
  <2> DEFINE old == Recorder!Replay(s \o p)
             new == Recorder!Replay(s2 \o <<>>)
  <2>7. old = Recorder!ReplayFrom(Recorder!Replay(s), p)
    BY <2>6 DEF Reads, Recorder!Replay
  <2> HIDE DEF old
  <2>8. new.synced => new = Recorder!ReplayFrom(old, <<>>)
    <3>1. new.synced => new = Recorder!ReplayFrom(Recorder!ReplayFrom(Recorder!Replay(s), p), <<>>)
      BY <2>5, Zenon DEF ReadsTo
    <3> QED BY <2>7, <3>1, Zenon
  <2> HIDE DEF new
  <2>9. new.synced => new = old
    BY <2>8, ReplayNone, Zenon
  <2>10. ~spoilt => ReplayOk(s2 \o <<>>, b)
    BY <2>2, <2>9 DEF ReplayOk, old, new
  <2> QED BY <2>1, <2>3, <2>4, <2>10 DEF MirrorOk, WindowOk, Completes, ReplayOk
<1> QED BY <1>2, <1>3

LEMMA FlushNothingKeeps ==
  ASSUME CaptureAssumption, CaptureInv, Recorder!FlushNothing
  PROVE  CaptureInv'
<1> DEFINE q == Recorder!Drained(recorder)
<1>1. ThreadOk /\ RecorderOk /\ EngineOk /\ TapeOk /\ MirrorOk
  BY DEF CaptureInv
<1>2. /\ Recorder!Record(q, recorder.pending)
      /\ UNCHANGED <<tapped, engineBook, frame, tape, thread, table, spoilt>>
  BY DEF Recorder!FlushNothing
<1>3. newest \in Nat /\ recorder.pending \in Seq(TapeFrame) /\ recorder \in RecorderType
  BY <1>1 DEF RecorderOk, RecorderType
<1>4. recorder' = q /\ IsNewest(newest, recorder.pending, newest')
  BY <1>2, <1>3, NewestIs
<1>5. /\ q \in RecorderType /\ q.pending = <<>> /\ q.seq = recorder.seq /\ q.state = recorder.state
      /\ SettledOf(Kept, q) \in Seq(TapeFrame)
      /\ Follows(Settled, Whole, recorder.pending, SettledOf(Kept, q), WholeOf(Kept, q))
  BY <1>1, DrainIs
<1> HIDE DEF q
<1>6. RecorderOk'
  <2>1. newest' \in Nat /\ newest' <= tapped.u
    BY <1>1, <1>4, DrainBounds
  <2> QED BY <1>1, <1>2, <1>4, <1>5, <2>1 DEF RecorderOk
<1>7. EngineOk'
  BY <1>1, <1>2 DEF EngineOk, IsEngineBook
<1>8. ThreadOk'
  BY <1>1, <1>2, <1>4, <1>5 DEF ThreadOk
<1>9. Settled' = SettledOf(Kept, q) /\ (Whole' <=> WholeOf(Kept, q))
  BY <1>2, <1>4 DEF Settled, Whole, Kept
<1>10. TapeOk' /\ MirrorOk'
  <2>1. Settled' \in Seq(TapeFrame) /\ Follows(Settled, Whole, recorder.pending, Settled', Whole')
    BY <1>5, <1>9 DEF Follows
  <2>2. recorder'.pending = <<>> /\ recorder'.state = recorder.state
    BY <1>4, <1>5
  <2> QED BY <1>1, <1>2, <1>4, <2>1, <2>2, DrainKeeps
<1> QED BY <1>6, <1>7, <1>8, <1>10 DEF CaptureInv

LEMMA FlushCutKeeps ==
  ASSUME CaptureAssumption, CaptureInv, Recorder!FlushCut
  PROVE  CaptureInv'
<1> DEFINE q == Recorder!Drained(recorder)
           r == Recorder!Cut(q)
           row == Recorder!RowOf(q)
<1>1. ThreadOk /\ RecorderOk /\ EngineOk /\ TapeOk /\ MirrorOk
  BY DEF CaptureInv
<1>2. /\ thread.doing = "nothing" /\ Recorder!Record(r, recorder.pending)
      /\ thread' = [Recorder!Idle EXCEPT !.doing = "writing", !.row = <<row>>]
      /\ UNCHANGED <<tapped, engineBook, frame, tape, table, spoilt>>
  BY DEF Recorder!FlushCut
<1>3. newest \in Nat /\ recorder.pending \in Seq(TapeFrame) /\ recorder \in RecorderType
      /\ table \in Seq(RowType) /\ recorder.seq \in Nat
  BY <1>1 DEF RecorderOk, RecorderType
<1>4. recorder' = r /\ IsNewest(newest, recorder.pending, newest')
  BY <1>2, <1>3, NewestIs
<1>5. /\ q \in RecorderType /\ q.pending = <<>> /\ q.seq = recorder.seq /\ q.state = recorder.state
      /\ SettledOf(Kept, q) \in Seq(TapeFrame)
      /\ Follows(Settled, Whole, recorder.pending, SettledOf(Kept, q), WholeOf(Kept, q))
  BY <1>1, DrainIs
<1>6. Kept = table /\ thread.row = <<>> /\ Kept \in Seq(RowType)
  BY <1>1, <1>2, IdleIs, KeptIs
<1> HIDE DEF q
<1>7. /\ row \in RowType /\ r \in RecorderType /\ row.seq = q.seq + 1
      /\ r.seq = q.seq + 1 /\ r.pending = q.pending /\ r.state = q.state
      /\ SettledOf(Append(Kept, row), r) = SettledOf(Kept, q)
      /\ WholeOf(Append(Kept, row), r) <=> WholeOf(Kept, q)
  BY <1>5, <1>6, CutKeeps
<1> HIDE DEF r, row
<1>8. thread' = Writing(row)
  BY <1>2 DEF Writing, Recorder!Idle
<1>9. Kept' = Append(Kept, row)
  <2>1. thread'.row = <<row>>
    BY <1>8 DEF Writing
  <2>2. table \o <<row>> = Append(table, row)
    BY <1>3, <1>7, LastSeqIs
  <2> QED BY <1>2, <1>6, <2>1, <2>2 DEF Kept
<1>10. LastSeq(table') < recorder'.seq /\ recorder'.seq = recorder.seq + 1
  <2>1. LastSeq(table) \in Nat /\ LastSeq(table) <= recorder.seq
    BY <1>1, <1>3, LastSeqIs DEF RecorderOk
  <2> QED BY <1>2, <1>3, <1>4, <1>5, <1>7, <2>1
<1>11. RecorderOk'
  <2>1. newest' \in Nat /\ newest' <= tapped.u
    BY <1>1, <1>4, DrainBounds
  <2>2. LastSeq(table') <= recorder'.seq
    BY <1>2, <1>3, <1>10, LastSeqIs
  <2> QED BY <1>1, <1>2, <1>4, <1>5, <1>7, <2>1, <2>2 DEF RecorderOk
<1>12. EngineOk'
  BY <1>1, <1>2 DEF EngineOk, IsEngineBook
<1>13. ThreadOk'
  <2>1. row.seq = recorder'.seq
    BY <1>4, <1>7
  <2>2. \E other \in RowType :
           thread' = Writing(other) /\ other.seq = recorder'.seq /\ LastSeq(table') < recorder'.seq
    BY <1>7, <1>8, <1>10, <2>1
  <2> QED BY <2>2 DEF ThreadOk, Writing
<1>14. Settled' = SettledOf(Kept, q) /\ (Whole' <=> WholeOf(Kept, q))
  BY <1>4, <1>7, <1>9 DEF Settled, Whole
<1>15. TapeOk' /\ MirrorOk'
  <2>1. Settled' \in Seq(TapeFrame) /\ Follows(Settled, Whole, recorder.pending, Settled', Whole')
    BY <1>5, <1>14 DEF Follows
  <2>2. recorder'.pending = <<>> /\ recorder'.state = recorder.state
    BY <1>4, <1>5, <1>7
  <2> QED BY <1>1, <1>2, <1>4, <2>1, <2>2, DrainKeeps
<1> QED BY <1>11, <1>12, <1>13, <1>15 DEF CaptureInv

\* A seed that was not overtaken gets to the engine's book with the window.
LEMMA SeedMirrors ==
  ASSUME ThreadOk, RecorderOk, EngineOk, MirrorOk, Recording, Coming.synced,
         NEW s \in TapeFrame, s.kind = "snapshot", s.u <= engineBook.lastU, s.levels = Recorder!BookAt(s.u),
         Settled' \in Seq(TapeFrame), Follows(Settled, Whole, <<s>>, Settled', Whole'),
         IsNewest(newest, <<s>>, newest')
  PROVE  /\ WindowOk(recorder.pending, newest', Coming.lastU)
         /\ ~(s.u < newest) => ReplayOk(Settled' \o recorder.pending, Coming)
<1> DEFINE p == recorder.pending
           u == Coming.lastU
           b == Coming
           old == Settled
           new == Settled'
           t == Recorder!Replay(new \o p)
<1>1. WindowOk(p, newest, u)
  BY DEF MirrorOk
<1>2. u \in Nat /\ b.levels = Recorder!BookAt(u) /\ s.u \in Nat /\ s.u <= u /\ newest \in Nat
  <2>1. s.u \in Nat
    BY DEF TapeFrame
  <2>2. engineBook.lastU \in Nat /\ u \in engineBook.lastU..tapped.u /\ u \in Nat /\ tapped.u \in Nat
    BY ComingIs
  <2>3. s.u <= u
    BY <2>1, <2>2
  <2> QED BY <2>1, <2>2, <2>3, ComingIs DEF RecorderOk
<1>3. newest' \in Nat /\ newest <= newest' /\ newest' \in {newest, s.u}
  <2>1. Len(<<s>>) = 1 /\ <<s>>[1] = s /\ \A i \in 1..1 : i = 1
    OBVIOUS
  <2> QED BY <2>1 DEF IsNewest
<1>4. newest <= u /\ newest' <= u
  BY <1>1, <1>2, <1>3 DEF WindowOk
<1>5. p # <<>> => \E q \in TapeFrame : p = <<q>> /\ p[1] = q /\ q.kind = "delta"
  BY PendingIs
<1>6. p \in Seq(TapeFrame) /\ old \in Seq(TapeFrame) /\ <<s>> \in Seq(TapeFrame)
  BY RecentIs
<1>7. ReadsTo(old, <<s>>, new, p)
  BY <1>6, StepReads
<1>8. \A c : Recorder!ReplayFrom(c, <<s>>) = [synced |-> TRUE, levels |-> s.levels]
  BY ReplayOne DEF Recorder!Replayed
<1>9. t.synced => t = Recorder!ReplayFrom([synced |-> TRUE, levels |-> s.levels], p)
  <2>1. t.synced => t = Recorder!ReplayFrom(Recorder!ReplayFrom(Recorder!Replay(old), <<s>>), p)
    BY <1>7, Zenon DEF ReadsTo
  <2> HIDE DEF t
  <2> QED BY <1>8, <2>1
<1> HIDE DEF t, old, new, b, u
<1>10. CASE p = <<>>
  <2>1. newest = u /\ newest' = u
    BY <1>1, <1>2, <1>3, <1>4, <1>10 DEF WindowOk
  <2>2. WindowOk(p, newest', u)
    BY <1>2, <1>10, <2>1 DEF WindowOk
  <2>3. ASSUME ~(s.u < newest), t.synced PROVE t.levels = b.levels
    <3>1. s.u = u
      BY <1>2, <2>1, <2>3
    <3>2. t = [synced |-> TRUE, levels |-> s.levels]
      BY <1>9, <1>10, <2>3, ReplayNone
    <3> QED BY <1>2, <3>1, <3>2
  <2> QED BY <2>2, <2>3 DEF ReplayOk, t, new, b, u
<1>11. CASE p # <<>>
  <2>1. PICK q \in TapeFrame : p = <<q>> /\ p[1] = q /\ q.kind = "delta"
    BY <1>5, <1>11
  <2>2. q.u = u /\ Completes(q, newest, u)
    BY <1>1, <1>11, <2>1 DEF WindowOk
  <2>3. Completes(q, newest', u)
    <3>1. \A v \in newest'..u : v \in newest..u
      BY <1>2, <1>3
    <3> QED BY <2>2, <3>1 DEF Completes
  <2>4. WindowOk(p, newest', u)
    BY <1>4, <1>11, <2>1, <2>2, <2>3 DEF WindowOk
  <2>5. ASSUME ~(s.u < newest), t.synced PROVE t.levels = b.levels
    <3>1. s.u \in newest..u
      BY <1>2, <2>5
    <3>2. Recorder!Over(q.levels, Recorder!BookAt(s.u)) = Recorder!BookAt(u)
      BY <2>2, <3>1 DEF Completes
    <3> DEFINE c == [synced |-> TRUE, levels |-> s.levels]
    <3>3. c.synced /\ c.levels = s.levels
      OBVIOUS
    <3> HIDE DEF c
    <3>4. t = Recorder!ReplayFrom(c, <<q>>)
      BY <1>9, <2>1, <2>5 DEF c
    <3>5. t = Recorder!Replayed(c, q)
      BY <3>4, ReplayOne
    <3>6. t.levels = Recorder!Over(q.levels, s.levels)
      BY <2>1, <2>5, <3>5, DeltaReplayed, <3>3
    <3> QED BY <1>2, <3>2, <3>6
  <2> QED BY <2>4, <2>5 DEF ReplayOk, t, new, b, u
<1> QED BY <1>10, <1>11

LEMMA SeedAppendKeeps ==
  ASSUME CaptureAssumption, CaptureInv, Recorder!SeedAppend
  PROVE  CaptureInv'
<1>1. ThreadOk /\ RecorderOk /\ EngineOk /\ TapeOk /\ MirrorOk
  BY DEF CaptureInv
<1>2. /\ thread.doing = "seeding" /\ Recorder!Record(Recorder!Buffered(recorder, thread.seed), thread.seed)
      /\ spoilt' = (thread.seed[1].u < newest) /\ thread' = Recorder!Idle
      /\ UNCHANGED <<tapped, engineBook, frame, tape, table>>
  BY DEF Recorder!SeedAppend
<1>3. PICK s \in TapeFrame : /\ thread = Seeding(s) /\ s.kind = "snapshot" /\ s.u <= engineBook.lastU
                             /\ s.levels = Recorder!BookAt(s.u)
  BY <1>1, <1>2 DEF ThreadOk, Recorder!Idle, Writing
<1>4. thread.seed = <<s>> /\ thread.seed[1] = s /\ thread.row = <<>> /\ <<s>> \in Seq(TapeFrame)
  BY <1>3 DEF Seeding
<1>5. newest \in Nat /\ recorder \in RecorderType /\ tape \in Nat /\ BufferLimit \in Nat
      /\ Kept \in Seq(RowType) /\ Settled \in Seq(TapeFrame)
  BY <1>1, KeptIs, RecentIs DEF RecorderOk, CaptureAssumption
<1> DEFINE q == Recorder!Buffered(recorder, <<s>>)
<1>6. recorder' = q /\ IsNewest(newest, <<s>>, newest')
  BY <1>2, <1>4, <1>5, NewestIs
<1>7. PICK x \in Nat, head \in Seq(TapeFrame) : BufferStep(recorder, <<s>>, q, x, head)
  BY <1>4, <1>5, BufferedIs
<1>8. /\ SettledOf(Kept, q) \in Seq(TapeFrame)
      /\ Follows(SettledOf(Kept, recorder), WholeOf(Kept, recorder), <<s>>,
                 SettledOf(Kept, q), WholeOf(Kept, q))
  BY <1>4, <1>5, BufferGrows
<1> HIDE DEF q
<1>9. recorder' \in RecorderType /\ recorder'.seq = recorder.seq /\ recorder'.state = recorder.state
      /\ recorder'.pending = recorder.pending
  BY <1>6, <1>7 DEF BufferStep
<1>10. Kept' = Kept
  BY <1>2, <1>4 DEF Kept, Recorder!Idle
<1>11. Settled' \in Seq(TapeFrame) /\ Follows(Settled, Whole, <<s>>, Settled', Whole')
  <2>1. Settled' = SettledOf(Kept, q) /\ (Whole' <=> WholeOf(Kept, q))
    BY <1>6, <1>10 DEF Settled, Whole
  <2> QED BY <1>8, <2>1 DEF Settled, Whole, Follows
<1>12. s.u \in Nat /\ s.u <= tapped.u
  <2>1. s.u \in Nat
    BY DEF TapeFrame
  <2>2. engineBook.lastU \in 0..tapped.u /\ tapped.u \in Nat
    BY <1>1 DEF EngineOk
  <2> QED BY <1>3, <2>1, <2>2
<1>13. RecorderOk'
  <2>1. newest' \in Nat /\ newest' <= tapped.u
    <3>1. Len(<<s>>) = 1 /\ <<s>>[1] = s /\ \A i \in 1..1 : i = 1
      OBVIOUS
    <3>2. newest <= tapped.u
      BY <1>1 DEF RecorderOk
    <3> QED BY <1>5, <1>6, <1>12, <3>1, <3>2 DEF IsNewest
  <2> QED BY <1>1, <1>2, <1>9, <2>1 DEF RecorderOk
<1>14. EngineOk'
  BY <1>1, <1>2 DEF EngineOk, IsEngineBook
<1>15. ThreadOk'
  BY <1>2 DEF ThreadOk, Recorder!Idle
<1>16. TapeOk'
  <2>1. Carries(<<s>>, tape, tape')
    BY <1>2, <1>3, <1>5, CarriesOne
  <2>2. Recording' => Recording
    BY <1>9 DEF Recording
  <2> QED BY <1>1, <1>4, <1>11, <2>1, <2>2, TapeAfter
<1>17. MirrorOk'
  <2> SUFFICES ASSUME Recording', (Coming').synced PROVE MirrorOk'
    BY DEF MirrorOk
  <2>1. Recording /\ Coming' = Coming
    BY <1>2, <1>9 DEF Recording, Coming
  <2>2. /\ WindowOk(recorder.pending, newest', Coming.lastU)
        /\ ~(s.u < newest) => ReplayOk(Settled' \o recorder.pending, Coming)
    BY <1>1, <1>3, <1>6, <1>11, <2>1, SeedMirrors
  <2>3. spoilt' <=> s.u < newest
    BY <1>2, <1>4
  <2> QED BY <1>9, <2>1, <2>2, <2>3 DEF MirrorOk, WindowOk, Completes, ReplayOk
<1> QED BY <1>13, <1>14, <1>15, <1>16, <1>17 DEF CaptureInv
-----------------------------------------------------------------------------
(* The recorder's theorems.                                                *)

LEMMA RecorderRests ==
  ASSUME CaptureInv, UNCHANGED recorderVars
  PROVE  CaptureInv'
<1>1. ThreadOk /\ RecorderOk /\ EngineOk /\ TapeOk /\ MirrorOk
  BY DEF CaptureInv
<1>2. UNCHANGED <<tapped, engineBook, frame, recorder, tape, thread, table, newest, spoilt>>
  BY DEF recorderVars
<1>3. RecorderOk'
  BY <1>1, <1>2 DEF RecorderOk
<1>4. EngineOk'
  BY <1>1, <1>2 DEF EngineOk, IsEngineBook
<1>5. ThreadOk'
  BY <1>1, <1>2 DEF ThreadOk
<1>6. Settled' = Settled /\ Whole' = Whole /\ Coming' = Coming
  BY <1>2 DEF Settled, SettledOf, Whole, WholeOf, Kept, Coming
<1>7. TapeOk' /\ MirrorOk'
  <2>1. Settled \in Seq(TapeFrame)
    BY <1>1, RecentIs
  <2>2. Follows(Settled, Whole, <<>>, Settled', Whole')
    BY <1>6, <2>1, NothingFollows
  <2>3. recorder'.pending = recorder.pending /\ Settled' \in Seq(TapeFrame) /\ (Recording' => Recording)
    BY <1>2, <1>6, <2>1 DEF Recording
  <2> QED BY <1>1, <1>2, <1>6, <2>2, <2>3, RestOfTape
<1> QED BY <1>3, <1>4, <1>5, <1>7 DEF CaptureInv

LEMMA RecorderBegins ==
  ASSUME Recorder!Init
  PROVE  CaptureInv
<1>1. /\ tapped = [u |-> 0, lost |-> 0] /\ newest = 0 /\ tape = 0
      /\ engineBook = [levels |-> Recorder!BookAt(0), synced |-> FALSE, lastU |-> 0]
      /\ frame = <<>> /\ thread = Recorder!Idle /\ table = <<>>
      /\ recorder = [state |-> "RECORDING", buffer |-> <<>>, pending |-> <<>>, dropped |-> 0,
                     seq |-> 0, stored |-> 0]
  BY DEF Recorder!Init
<1>2. <<>> \in Seq(TapeFrame) /\ <<>> \in Seq(RowType) /\ LastSeq(<<>>) = 0
  BY DEF LastSeq
<1>3. RecorderOk
  <2>1. recorder \in RecorderType
    BY <1>1, <1>2 DEF RecorderType
  <2> QED BY <1>1, <1>2, <2>1 DEF RecorderOk
<1>4. EngineOk
  <2>1. tapped \in [u : Nat, lost : Nat] /\ tapped.u = 0
    BY <1>1
  <2>2. engineBook.synced = FALSE /\ engineBook.lastU = 0 /\ IsEngineBook
    BY <1>1 DEF IsEngineBook
  <2>3. 0 \in 0..0
    OBVIOUS
  <2> QED BY <1>1, <2>1, <2>2, <2>3 DEF EngineOk
<1>5. ThreadOk
  BY <1>1 DEF ThreadOk
<1>6. TapeOk
  <2>1. Kept = <<>>
    BY <1>1 DEF Kept, Recorder!Idle
  <2>2. Settled = <<>>
    BY <1>1, <1>2, <2>1, SinceNone DEF Settled, SettledOf
  <2>3. Carries(Settled, 0, tape)
    BY <1>1, <2>2, CarriesNone
  <2> QED BY <2>3 DEF TapeOk
<1>7. MirrorOk
  BY <1>1 DEF MirrorOk, Coming
<1> QED BY <1>3, <1>4, <1>5, <1>6, <1>7 DEF CaptureInv

\* Every step keeps it.
LEMMA RecorderGoesOn ==
  ASSUME CaptureAssumption, CaptureInv, [FeedsNext]_<<part, vars, recorderVars, candleVars>>
  PROVE  CaptureInv'
<1>1. CASE Recorder!Next
  BY <1>1, TapUpdateKeeps, TapSnapshotKeeps, TapTradeKeeps, LostUpdateKeeps, ApplyFrameKeeps,
     SeedCopyKeeps, SeedAppendKeeps, FlushNothingKeeps, FlushCutKeeps, ExhaustKeeps, WriteKeeps
     DEF Recorder!Next
<1>2. CASE UNCHANGED recorderVars
  BY <1>2, RecorderRests
<1> QED BY <1>1, <1>2 DEF FeedsNext

\* What a reader has carries the tape up to its end, and all of it when nothing
\* that was recorded is missing.
LEMMA TapeIsAll == CaptureInv => TapeIsWhole
<1> SUFFICES ASSUME CaptureInv, Recording
             PROVE  LET P == {i \in 1..Len(Recorder!Recent) : Recorder!Recent[i].kind = "trade"}
                        trades == Recorder!Picked(Recorder!Recent, P)
                        first == tape - Len(trades)
                    IN  /\ \A k \in 1..Len(trades) : trades[k].u = first + k
                        /\ Recorder!Gapless(Recorder!Rows) => first = 0
  BY DEF TapeIsWhole, Recorder!TapeIsWhole, Recording
<1> DEFINE p == recorder.pending
           s == Settled
           all == s \o p
           P == {i \in 1..Len(all) : all[i].kind = "trade"}
           trades == Recorder!Picked(all, P)
           first == tape - Len(trades)
<1>1. ThreadOk /\ RecorderOk /\ EngineOk /\ TapeOk
  BY DEF CaptureInv
<1>2. p \in Seq(TapeFrame) /\ s \in Seq(TapeFrame) /\ Recorder!Recent = all
      /\ (Recorder!Gapless(Recorder!Rows) <=> Whole)
  BY <1>1, RecentIs
<1>3. PICK a \in Nat : Carries(s, a, tape) /\ (Whole => a = 0)
  BY <1>1 DEF TapeOk
<1>4. tape \in Nat
  BY <1>1 DEF RecorderOk
<1>5. Carries(p, tape, tape)
  <2>1. CASE p = <<>>
    BY <1>4, <2>1, CarriesNone
  <2>2. CASE p # <<>>
    <3>1. PICK q \in TapeFrame : p = <<q>> /\ q.kind = "delta"
      BY <1>1, <2>2, PendingIs
    <3> QED BY <1>4, <3>1, CarriesOne
  <2> QED BY <2>1, <2>2
<1>6. all \in Seq(TapeFrame) /\ Carries(all, a, tape)
  <2> HIDE DEF s, p
  <2>1. s \o p \in Seq(TapeFrame)
    BY <1>2
  <2> QED BY <1>2, <1>3, <1>5, <2>1, CarriesBoth
<1> HIDE DEF all
<1>7. Len(trades) \in Nat /\ tape = a + Len(trades) /\ \A k \in 1..Len(trades) : trades[k].u = a + k
  BY <1>6, TradesCount
<1> HIDE DEF trades
<1>8. first = a
  BY <1>7
<1> HIDE DEF first
<1>9. (\A k \in 1..Len(trades) : trades[k].u = first + k) /\ (Recorder!Gapless(Recorder!Rows) => first = 0)
  BY <1>2, <1>3, <1>7, <1>8
<1> QED BY <1>2, <1>9 DEF trades, first

\* No trade is lost, doubled or displaced between the gaps the rows show, however
\* many frames the buffer drops and whichever rows the writer loses.
THEOREM TapesAreWhole == FeedsSpec => []TapeIsWhole
<1>1. FeedsInit => CaptureInv
  BY RecorderBegins DEF FeedsInit
<1>2. CaptureInv /\ [FeedsNext]_<<part, vars, recorderVars, candleVars>> => CaptureInv'
  BY CaptureAssumption, RecorderGoesOn
<1> QED BY <1>1, <1>2, TapeIsAll, PTL DEF FeedsSpec

\* A recording replays to the book the engine trusts, through every merged window,
\* seed, lost row and lost update.
THEOREM ReplaysAreExact == FeedsSpec => []ReplayIsExact
<1>1. FeedsInit => CaptureInv
  BY RecorderBegins DEF FeedsInit
<1>2. CaptureInv => ReplayIsExact
  <2> SUFFICES ASSUME CaptureInv, Recording, frame = <<>>, engineBook.synced, ~spoilt,
                      Recorder!Replay(Recorder!Recent).synced
               PROVE  Recorder!Replay(Recorder!Recent).levels = engineBook.levels
    BY DEF ReplayIsExact, Recorder!ReplayIsExact, Recording
  <2>1. Recorder!Recent = Settled \o recorder.pending
    BY RecentIs DEF CaptureInv
  <2>2. Coming = engineBook
    BY DEF Coming
  <2>3. ReplayOk(Settled \o recorder.pending, engineBook)
    BY <2>2 DEF CaptureInv, MirrorOk
  <2> QED BY <2>1, <2>3 DEF ReplayOk
<1>3. CaptureInv /\ [FeedsNext]_<<part, vars, recorderVars, candleVars>> => CaptureInv'
  BY CaptureAssumption, RecorderGoesOn
<1> QED BY <1>1, <1>2, <1>3, PTL DEF FeedsSpec
=============================================================================
