---------------------------- MODULE LeadLifecycle ----------------------------
(***************************************************************************)
(* The threads of the Lead Engine (lead_engine/engine.py): what start,     *)
(* subscribe and stop make and end - the socket's thread (bybit_ws.py),    *)
(* the poller of open interest (oi_engine.py) and the recorder             *)
(* (storage.py) with its filing of liquidations.                           *)
(*                                                                         *)
(* subscribe and start take no lock and run on request threads.  Each      *)
(* start makes a stream, a poller and a recorder of its own; they are      *)
(* named by the number of the start.  Nothing joins a thread: it ends      *)
(* when it next looks at its stop flag.                                    *)
(***************************************************************************)
EXTENDS Integers, Sequences, FiniteSets

CONSTANTS
    Boot, Symbols,      \* the symbols configured, and those that may be asked for
    Callers,            \* requests to subscribe, one symbol each
    MaxEvents           \* bound: liquidations of one symbol, named by their stamps

VARIABLES
    symbols,     \* config.symbols
    made,        \* starts so far
    stream,      \* LeadEngine.stream, or None
    workers,     \* LeadEngine.oi_poller and .recorder
    sockets,     \* streams whose thread is alive
    alive,       \* starts whose poller and recorder are alive
    told,        \* the stop flags that are set: <<"socket" or "worker", start>>
    events,      \* liquidations in the engine's window
    marks,       \* Recorder._last_liquidation of each recorder
    filed,       \* how often each liquidation was written
    caller       \* where each request is, and in which start

threads == <<sockets, alive, told>>
handles == <<symbols, made, stream, workers>>
records == <<events, marks, filed>>
vars == <<handles, threads, records, caller>>

None == 0
Starts == 1..Cardinality(Callers) + 1
At(c, place) == caller[c].at = place
Go(c, place) == caller' = [caller EXCEPT ![c].at = place]
Running == stream # None /\ stream \in sockets

\* start, by the boot of the process: a stream, a poller and a recorder.
Init ==
    /\ symbols = Boot /\ made = 1 /\ stream = 1 /\ workers = 1
    /\ sockets = {1} /\ alive = {1} /\ told = {}
    /\ events = 0 /\ marks = [n \in Starts |-> 0] /\ filed = [e \in 1..MaxEvents |-> 0]
    /\ caller = [c \in Callers |-> [at |-> "new", start |-> None]]
-----------------------------------------------------------------------------
(* LeadEngine.subscribe.                                                   *)

\* A symbol that is tracked is left alone; another one is taken in.
Subscribe(c) ==
    /\ At(c, "new")
    /\ \E s \in Symbols :
          /\ symbols' = symbols \cup {s}
          /\ Go(c, IF s \in symbols THEN "answered" ELSE "tracked")
    /\ UNCHANGED <<made, stream, workers, threads, records>>

\* Only a stream that runs is restarted.
FindStream(c) ==
    /\ At(c, "tracked")
    /\ Go(c, IF Running THEN "stopping" ELSE "answered")
    /\ UNCHANGED <<handles, threads, records>>

\* `self.stream.stop()`, which raises when another request has cleared it.
StopStream(c) ==
    /\ At(c, "stopping")
    /\ IF stream = None THEN UNCHANGED told ELSE told' = told \cup {<<"socket", stream>>}
    /\ Go(c, IF stream = None THEN "raised" ELSE "stopped")
    /\ UNCHANGED <<handles, sockets, alive, records>>

ClearStream(c) ==
    /\ At(c, "stopped")
    /\ stream' = None
    /\ Go(c, "starting")
    /\ UNCHANGED <<symbols, made, workers, threads, records>>
-----------------------------------------------------------------------------
(* LeadEngine.start.                                                       *)

\* A stream that another request has started is enough.
Begin(c) ==
    /\ At(c, "starting")
    /\ IF Running THEN UNCHANGED <<made, stream>> /\ Go(c, "answered")
       ELSE /\ made' = made + 1 /\ stream' = made'
            /\ caller' = [caller EXCEPT ![c] = [at |-> "streaming", start |-> made']]
    /\ UNCHANGED <<symbols, workers, threads, records>>

\* `self.stream.start()`: the handle is read again, and a thread that is alive
\* is not started twice.  Without a handle start gives up (start_error).
StartStream(c) ==
    /\ At(c, "streaming")
    /\ IF stream = None THEN UNCHANGED sockets /\ Go(c, "answered")
       ELSE sockets' = sockets \cup {stream} /\ Go(c, "working")
    /\ UNCHANGED <<handles, alive, told, records>>

\* A poller and a recorder; those of an earlier start are not told to stop.
StartWorkers(c) ==
    /\ At(c, "working")
    /\ workers' = caller[c].start
    /\ alive' = alive \cup {caller[c].start}
    /\ Go(c, "answered")
    /\ UNCHANGED <<symbols, made, stream, sockets, told, records>>

Request(c) ==
    \/ Subscribe(c) \/ FindStream(c) \/ StopStream(c) \/ ClearStream(c)
    \/ Begin(c) \/ StartStream(c) \/ StartWorkers(c)
-----------------------------------------------------------------------------
\* LeadEngine.stop, at the shutdown of the process: what the handles name.
Stop ==
    /\ told' = told \cup {<<"worker", workers>>}
                    \cup (IF stream = None THEN {} ELSE {<<"socket", stream>>})
    /\ UNCHANGED <<handles, sockets, alive, records, caller>>

\* A thread looks at its flag: the socket's with the next frame, a worker's
\* after its sweep.
SocketEnds(n) ==
    /\ n \in sockets /\ <<"socket", n>> \in told
    /\ sockets' = sockets \ {n}
    /\ UNCHANGED <<handles, alive, told, records, caller>>
WorkerEnds(n) ==
    /\ n \in alive /\ <<"worker", n>> \in told
    /\ alive' = alive \ {n}
    /\ UNCHANGED <<handles, sockets, told, records, caller>>

\* A liquidation arrives, over whichever socket lives.
Liquidation ==
    /\ sockets # {} /\ events < MaxEvents
    /\ events' = events + 1
    /\ UNCHANGED <<handles, threads, marks, filed, caller>>

\* _record_liquidations, in a sweep: the events newer than the recorder's mark.
Sweep(n) ==
    /\ n \in alive
    /\ filed' = [e \in 1..MaxEvents |-> IF e \in marks[n] + 1..events THEN filed[e] + 1 ELSE filed[e]]
    /\ marks' = [marks EXCEPT ![n] = events]
    /\ UNCHANGED <<handles, threads, events, caller>>

Next ==
    \/ \E c \in Callers : Request(c)
    \/ Stop \/ Liquidation
    \/ \E n \in Starts : SocketEnds(n) \/ WorkerEnds(n) \/ Sweep(n)

Spec == Init /\ [][Next]_vars
-----------------------------------------------------------------------------
(* Properties.                                                             *)

\* "liquidation events once each" (storage.py, Recorder): the recorders of
\* one process do not write a liquidation twice.
LiquidationsOnce == \A e \in 1..MaxEvents : filed[e] <= 1
=============================================================================
