# TLA+ specifications of the Elliott wave analyser

This directory holds TLA+ modules for the parts of `t3_engine` in which order, concurrency, failure and limits decide
whether the program is right. TLC checks the modules on small instances, and TLAPS proves the most important properties
for every value of the constants. `PROJECT.json` lists components, runs, theorems and hazards, and maps every definition
to the lines it models.

## 1. The system

One Python process (FastAPI) serves a dashboard and runs two engines beside it. The *analyser* counts Elliott waves on
candles, or takes the counts of a language model, and trades them on paper. The *lead engine* watches order books and
trades of a set of symbols, raises signals and keeps a paper ledger on them. A *research* worker replays captured data.
The process runs on a plan that stops it after some quiet minutes and restarts it on demand, so crashes are ordinary.

| component | state | operations | talks to |
|---|---|---|---|
| paper account (`backtest/engine.py`, `position_manager`, `risk_engine`, `execution/paper.py`) | positions with their legs, open risk per position, equity, peak, day start, halt flag, last count evaluated | `process_candle` (stops, targets, one entry decision), `set_ai_scenario` | driven by the live pipeline or a backtest; `on_fill` calls the journal |
| trade plans and entry score (`signal_engine`, `fibonacci`) | none | plan for waves 3, 4, 5 and C; score of an entry | called by the account |
| live pipeline (`pipeline/live_loop.py`) | the count each timeframe trades, realised profit already journalled | `_on_candle_closed`, `apply_ai_analysis`, fill recorder | feed thread; polls of the dashboard |
| AI analysis jobs (`ai_advisor/jobs.py`, `analysis_store.py`) | registry of jobs, table of saved counts | start or join, run, prune, save, load | one thread per request and per run; database |
| AI analysts (`ai_advisor/analyst.py`, `analyst_tools.py`, `deep_count.py`) | accepted structures, deadlines, forced and complete flags | ask a model, run its tool calls, retry, hand over what was accepted | a language model |
| count engine (`elliott_engine`, `market_structure`) | pivots, scenarios, wave states | rebuild on a new pivot, check the rules of impulses, diagonals and corrections | called by the account |
| candles (`candle_builder`, `database/candle_store.py`) | the forming candle per timeframe, stored candles | aggregate trades, close, store, seed | feed thread; database |
| lead engine core (`lead_engine/engine.py`, `state.py`, `bybit_ws.py`, `orderbook_engine.py`) | order book, features, queues of one symbol | websocket messages, resync, snapshot | ingest thread, snapshots by any thread |
| signal machine (`lead_engine/signal_machine.py`) | current claim and when it changed | `update` at every snapshot | snapshot |
| virtual ledger (`lead_engine/virtual_trades.py`) | pending intents, open and closed trades, trades to persist | `on_signal`, `on_book`, `drain_persist`, `restore` | snapshot threads, ingest thread, recorder |
| recorder and storage (`lead_engine/storage.py`) | what was restored and filed, one write buffer per table | sweep, record, flush, stop | recorder thread, stopping thread, REST database |
| research queue (`research/jobs.py`) | rows of `research_jobs` | enqueue, reclaim, claim, run, finish, fail | worker thread, REST database |
| research trading (`research/runner.py`, `execution.py`, `portfolio.py`, `paper.py`) | orders, positions, session state | submit, fill, recover, limits | research worker |
| lead indicator layers (`smc_engine.py`, `elliott_state.py`, `trade_flow.py`, `layers.py`, ...) | minute bars, trend, levels, windows of the streams | update with a kline or trade, read | ingest thread writes, snapshots read |
| calibration (`lead_engine/calibration.py`) | open and settled observations, what was filed | `open`, `resolve`, `drain`, `restore` | snapshot, ingest and recorder threads |
| research data (`research/capture.py`, `dataset.py`, `features.py`, `strategies.py`) | captured frames | capture, read, compute | lead engine, database |
| second-opinion tab (`dashboard/server.py`, `candle_store.py`) | table of candles, table of counts | build, warm up, draw | one thread per request and run; database |

### What is hard, and what correct means

* **Paper account.** Counts are installed from dashboard threads while the feed thread is in the middle of a candle; a
  candle can reach a stop and several targets; equity shrinks after a limit was checked. Correct: risk book and
  positions agree, limits hold at any time and not only when they are checked, no stop is skipped, a halt is final.
* **Counts on their way.** Requests, runs, polls and the feed share dictionaries without a lock; a save replaces a row.
  Correct: a run in flight can always be found, the layers that hold a count agree, the newest saved count is traded.
* **The count itself.** The rule engine re-anchors and truncates candle by candle; a language model submits structures,
  answers nonsense, is busy, or fails half way. Correct: the confirmed chain is one reading, a scenario is legal, what was
  accepted is handed over, its coverage is measured truly, no correction outranks a five-wave reading.
* **Signals, virtual ledger, calibration.** A signal is held for many snapshots; books wait in a queue; prices are late.
  Correct: one trade per transition, one exposure, no fill on a book the signal could have known, and a score is
  answered by the market after it.
* **Records.** The process dies anywhere, requests fail, answers get lost, the same rows are sent twice, two threads
  flush. Correct: loss is bounded, nothing is filed twice, nothing waits for ever.
* **Streams.** Updates are lost, the queue drops its oldest, the exchange restarts, history overlaps the live stream, a
  trade's print and its book change come in either order. Correct: a synced book is the exchange's, a recording replays
  to it, bars have no seam, trading is not read as pulling, no swing repaints.
* **Frames.** Callers share one computation; some force it. Correct: a tick is sampled once, and what allows a signal is
  recent.
* **Research.** The ordinary end of a job is that the process is stopped; orders are late, fill in part, and are cancelled
  in flight. Correct: a job starts a bounded number of times and ends, a fill is booked once, entries wait for good data.

## 2. Modules

Left of an arrow is what the module on its right EXTENDS; in parentheses is what that module INSTANCEs.

```
AnalysisRuns -> LiveCounts -> WaveStudies (WaveAnalysis (WaveRules), AnalystSession (DeepCount (WaveRules)))
                                -> WaveStudiesProofs
PaperAccount -> PaperAccountProofs
VirtualLedger -> LeadOutcomes (Calibration) -> LeadOutcomesProofs
PaperAccount, LeadOutcomes -> Accounts
LedgerStorage -> Records (PaperTrader) -> RecordsProofs
Selections -> Calibration, PaperTrader, LiveCandles, Capture, SmcStructure, WaveAnalysis, SelectionProofs
SelectionProofs -> LeadOutcomesProofs, RecordsProofs, FeedsProofs, LeadViewsProofs, WaveStudiesProofs
ResearchQueue -> Research (ResearchTrading (OrderExecution, OrderLifecycle)) -> ResearchProofs
BookFeed -> Feeds (Capture, LiveCandles) -> FeedsProofs
SmcStructure -> LeadStructure -> LeadViews (LeadFrames, BookWalls, LeadScores (LeadReadings)) -> LeadViewsProofs
                LeadStructure -> LeadWaves
LeadLifecycle, ChartCounts
```

`Accounts`, `WaveStudies`, `LeadOutcomes`, `Records`, `Research`, `Feeds` and `LeadViews` put components side by side that share no
state in the program. Their variable `part` (`runs` in `Accounts`) says which of them runs: a behaviour is one of one part, while the others
rest, so the states add up and do not multiply. Where parts do share state they are one module (`LiveCounts`,
`VirtualLedger`, `BookFeed`, `LeadStructure`, `ResearchTrading`). Values for the constants that a configuration cannot
write down stand at the end of the module that is checked, under a heading of their own.

Definitions under a comment "Faulty variant" are never part of a specification. Each is a plausible bug in a definition
near it; putting one in its place makes the property it is listed with in `PROJECT.json` (`mutants`) fail, which shows
that the property can.

| module | models | state and actions |
|---|---|---|
| PaperAccount | `backtest/engine.py` and below | `StartCandle`, `MarkPosition`, `EndMarking`, `Decide` are the parts of `process_candle` between which another thread can run; each `on_price_update` is one step, and `InstallCount` (`set_ai_scenario`) may fall between any two. Prices are integers, quantities twentieths of a position |
| AnalysisRuns | `ai_advisor/jobs.py`, `analysis_store.py` | requests that start or join a run, the registry and its pruning, runs that load, count and save; a save is one SQL transaction, or a delete and an insert over REST |
| LiveCounts | `live_loop.py`, `live_state` of `server.py` | polls, each a request thread, that carry the newest saved count past two comparisons through three assignments, with no lock; what is traded with it is `PaperAccount`. `overlapped` is history: the last poll to install met one with another count |
| WaveRules, WaveAnalysis | `elliott_engine/`, `market_structure/`, `process_candle` | the rules as operators on pivots, mirrored by the direction; one step is one closed candle: pivot, trend, rebuild, chain, subwaves |
| DeepCount, AnalystSession | `deep_count.py`, `analyst.py`, `analyst_tools.py` | the automatic count of a series; the analyst's loop, whose model may say anything: prose, tool calls, busy replies, failures |
| VirtualLedger | `signal_machine.py`, `virtual_trades.py` | `Snapshot` and `OnSignal` are the halves of a snapshot, between which books may come; `OnBook` is one call of the ledger with the stamp a book got before it waited |
| Calibration | `calibration.py` and its half of the recorder | scores are opened by snapshots, settled by trades, filed by the recorder and read back by the next process; a write is refused, or applied with its answer lost and then sent again |
| LedgerStorage | `storage.py`, `drain_persist`, `restore` | the recorder's sweep in seven steps, `Stop` and `StopSend` of the stopping thread, `Die` anywhere. A request is confirmed, applied without an answer, or not applied |
| PaperTrader | `research/paper.py` | traders of a process, their journal in storage, restarts; a session is named by its second, and a row found by session and number |
| ResearchQueue | `research/jobs.py` | rows and the worker that polls, reclaims, selects, claims, runs, reports; `Crash` may fall anywhere |
| OrderExecution, ResearchTrading | `execution.py`, `book.py`, `runner.py`, `portfolio.py`, `strategies.py` | one call of `on_book` or `on_trade` is one step and does all of it: gaps, orders, quality, positions, the strategy, its intents |
| OrderLifecycle | abstract | what the simulator promises of each order: sent, resting, filled bit by bit, ended once |
| BookFeed | `bybit_ws.py`, `orderbook_engine.py`, parts of `engine.py`, `state.py` | exchange, wire, socket thread, bounded queue, ingest thread, resync with its debounce, reconnects. A reset is two writes and a notice to `health`, an application of a frame two steps, and the threads interleave between any of them. `torn` is history: a reset fell in the application of the last snapshot |
| Capture | `research/capture.py`, `dataset.py` | taps, segments, seeds, writes under a budget, and the replay |
| LiveCandles | `live_loop.py`, `candle_builder/`, the Bybit clients | a seeded history, the row of the bucket in progress included, grown from trades over dropped sockets and new sessions |
| SmcStructure, LeadStructure | `smc_engine.py`, `candles.py`, `prebreak_engine.LevelTracker`, `elliott_state.py`, `engine.py` | operators on series of bars; klines, trades, outages and the backfill that feed one symbol |
| LeadWaves | `elliott_state.ElliottContext` | the wave context beside that structure |
| LeadFrames | `state.py`, `health.py` | callers of `snapshot`, polite and forcing, round one lock |
| BookWalls | `orderbook_engine.py`, `on_trade` | what was added, executed and pulled, and the walls |
| LeadReadings, LeadScores | `trade_flow`, `cvd`, `liquidation`, `oi`, `btc_leadlag`, `layers`, `pressure_engine`, `prebreak_engine`, `normalize` | operators from streams to readings to scores; a step is a message |
| Selections | | what a Python list comprehension with a condition makes of a list; `SelectionProofs` has the lemmas on it |
| LeadLifecycle | threads of `engine.py` | `start`, `subscribe`, `stop`; stream, poller and recorder are numbered by the start that made them |
| ChartCounts | the second-opinion tab of `server.py`, `candle_store.py` | builds, warmups and analyst runs over two tables without a lock |

## 3. Runs

Twelve runs: six must pass and six exhibit a disagreement (section 5). Deadlock is not checked in any of them, because
every model stops at its bounds (trades, requests, candles, jobs, ticks) and some of the systems may stop.

| run | instance | what it shows |
|---|---|---|
| `accounts` | 4 counts (one per tradeable label), 4 candle shapes, 3 positions opened, 2 at once, both modes; 5 kinds of tick, 3 books, 5 time units, 2 trades; 4 ticks, 2 prices heard late, 2 scores, 1 restart | with counts installed between any two steps of a candle: `RiskBookMatchesPositions`, `PositionLimits`, `ExposureWithinCap`, `NoPositionOutlivesItsStop`, `HaltIsFinal`; `OneExposure`, `OneTradePerTransition`, `EntryAfterSignal`; `OutcomesAreCausal`, `FiledByOne` |
| `wave_studies` | 7 candles of 6 shapes; every zigzag of 7 pivots at 5 prices, 2 steps; 2 requests, no room for finished jobs, 2 pollers, both stores | the rule engine (`ChainIsOneReading`, `ScenariosAreLegal`), the analyst (`CoverageIsTrue`, `MotiveOutranks`, `AnswerSurvives`), the way of a count (`RunningStaysFindable`, `CountsAgree`, `LastCountIsTraded`) |
| `records` | 5 trades, journal 2, batch 2, buffer 2; 2 traders, 2 processes | `LossIsBounded`, `LedgerTradesAreFiled`; `JournalIsTrue`, `ClosedTradesAreFiled` |
| `research` | 3 strategies, 3 books, 3 trades, 4 orders, 4 ticks; 2 jobs, 3 attempts | `BookedOnce`, `EntriesOnGoodData`, `Simulator` (the simulator implements `OrderLifecycle`); `StartsBounded`, `EndedStaysEnded`, `JobsEnd` |
| `feeds` | queue of 2, wire of 1, 3 updates, 2 epochs, 1 loss, 2 connections; 2 trades, 3 updates, 1 seed, 2 rows; 5 ticks, 2 sessions, 2 drops | `SyncedBookIsTrue`, `ResyncEnds`; `ReplayIsExact`, `TapeIsWhole`; `BarsAreTrue` |
| `lead_views` | 7 minutes, 1 outage, 2 backfills; 3 callers, 1 forcing, 4 ticks; 4 prices, 3 wall steps, 1 resync; an empty and a busy market, 3 messages | `MinutesAreTrue`, `NoRepaint`; `SampledOnce`, `ServedFrameIsFresh`; `PullsAreReal`; `MirrorHolds` |
| `live_counts`, `book_resets`, `chart_counts`, `lead_answers`, `lead_waves`, `lead_recorders` | smallest instances that show it | section 5 |

### Why the bounds are enough

* `accounts`, the paper account: two positions at once and a third later reach every limit: the exposure cap is that of two large
  trades, one stopped trade leaves room and two halt the account. The plunge candle passes every stop and targets of
  wave 3, so that the order within a candle matters.
* `wave_studies`: seven candles give five or six pivots, enough for an impulse to be confirmed, re-anchored and truncated;
  seven pivots are the fewest on which two structures can compete for the same legs. `MaxJobs = 0` makes pruning take
  every finished job at once. Two pollers are the fewest that meet with two counts, and two requests save two.
* `accounts`, the Lead Engine's: five units hold a signal, a fill, a deadline of three and a gap of one around them; two trades are
  needed for a transition to be offered again after its trade closed. A write of scores may be repeated any number of times. The calibration also held with three prices heard
  (4.5 million states).
* `records`: five trades overflow a journal and a buffer of 2 with a batch in flight, and spread over several processes. Two
  traders start in one second or in two, before and after a restart, so their rows meet under one id in every way they can.
* `research`: a delay of one tick, a cancel delay of one and a time to live of one let a fill, a cancel and a timeout meet;
  a gap of two makes the feed bad and one tick makes it good again. Three attempts are the program's.
* `feeds`: a queue of 2 drops its oldest while a snapshot waits behind it; two epochs give a restart of the exchange
  that re-uses ids. Two connections and a full queue give resets of both origins at every point of an application. Bars of two
  ticks have a first and a second half to be seeded in.
* `lead_views`: fourteen prices form a double bottom that two changes of character leave; `BookLimit = 0` means only the book of
  the same tick is fresh, the tightest limit; three wall steps are placing, trading and pulling one wall.

### Fairness

* `AnalysisRuns`, `LiveCounts`: weak fairness of a run's steps, since every model call has a timeout, and of polls, since an
  open chart polls every few seconds. Nothing forces a request or a candle.
* `AnalystSession`: weak fairness of the loop; its deadline ends every call.
* `ResearchQueue`: weak fairness of the host's restart, of the worker and of claims getting old; strong fairness of
  polling, selecting, reclaiming and of a successful claim, because a crash may interrupt each of them any number of
  times: it says only that host and storage do not fail at that very call for ever.
* `LedgerStorage`: weak fairness of the recorder and of a stopping process ending; strong fairness of a request that is
  confirmed: the storage does not refuse for ever. `PaperTrader`: likewise of a frame whose write is confirmed.
* `BookFeed`: weak fairness of both threads, of the exchange's answers, of reconnecting and of the debounce running out;
  nothing is assumed of updates, losses and disconnections.
* The other specifications are safety only. In a composition a part is fair only while it is the one that runs.

## 4. Proofs

TLAPS proves, for every value of the constants that satisfies the named assumptions:

| theorem | statement |
|---|---|
| `PaperAccountProofs!TypeCorrect` | types, and that no position is sized by a zero distance (where `position_size` would raise) |
| `PaperAccountProofs!RiskBookAgrees` | the risk book has exactly the open positions, each with its own risk |
| `PaperAccountProofs!LimitsHold` | at most `MaxConcurrent` open positions, one per label |
| `PaperAccountProofs!StopsAreHonoured` | no position is open after a candle that reached its stop |
| `PaperAccountProofs!HaltHolds` | after a halt no step opens a position or lifts the halt |
| `WaveStudiesProofs!RunsTypeCorrect`, `RunsFindable`, `StudiesFindable` | types, and that no run in flight leaves the registry, with any limit, 0 included |
| `WaveStudiesProofs!LayersAgree` | for any number of pollers, pipeline and account hold one count whenever none writes it, unless the last poll to install one met another with another count |
| `WaveStudiesProofs!AnswersSurvive` | what the analyst's toolbox has accepted is never dropped and is handed over at the end, whatever the model service does |
| `WaveStudiesProofs!MotivesOutrank` | on every chart, the automatic count places no correction where a five-wave motive reading is legal, and its structures follow each other |
| `WaveStudiesProofs!CoverageStaysTrue` | on every chart and whatever is submitted, the measured coverage is the length of the chart in some structure, and the gaps are what lies in none, slivers excepted |
| `WaveStudiesProofs!CountsAreLegal` | whatever the candles, a scenario of four waves or more that survives `rebuild` is a legal count of its own structure |
| `WaveStudiesProofs!ChainHolds` | whatever the candles, the confirmed chain is made of legs between neighbouring pivots, no two of which overlap |
| `ResearchProofs!StartsAreBounded` | at most `MaxAttempts` starts, whatever crashes and lost answers |
| `ResearchProofs!EndedHolds` | only its own worker rewrites an ended job, and a result was returned by a handler |
| `LeadOutcomesProofs!LedgerKeeps` | types, numbering and stages of the ledger's trades |
| `LeadOutcomesProofs!ExposureLimited` | intents and positions together stay within the limit |
| `LeadOutcomesProofs!TransitionsTradedOnce` | however often a transition is offered it opens one trade, which is in one list |
| `LeadOutcomesProofs!EntriesFollowSignals` | a trade is filled by a book from after its signal and before the gap, and settled by a later one |
| `LeadOutcomesProofs!ScoresAnsweredCausally` | a score is broken by a trade inside the horizon, and held only if none that had arrived broke it |
| `LeadOutcomesProofs!ScoresFiledByOne` | what was read back from the table is never filed again, and what is sent again after a lost answer is the row the table has |
| `RecordsProofs!JournalHolds` | what a paper trader holds as written was written: it is in the table, or another run's trade stands there under its id; the table tells of an id once, and a journal of each trade once |
| `RecordsProofs!LossBounded` | a terminal trade leaves memory unwritten only with its process or an overflow, which drops the oldest |
| `LeadViewsProofs!FramesKeep` | the callers of a frame round its lock |
| `LeadViewsProofs!TickSampledOnce` | for any number of callers, frames computed without force lie an interval apart unless a forced one comes between |
| `LeadViewsProofs!FramesServedFresh` | a frame that is served and allows signals is on a book that arrived less than `BookLimit + Interval` ago |
| `LeadViewsProofs!NoTradeIsAPull` | once prints and changes have both arrived, no more counts as cancelled on a side than was withdrawn, unless a snapshot came between |
| `LeadViewsProofs!SwingsStay` | a swing once read stays one while bars are only added at the end and its neighbours are kept |
| `LeadViewsProofs!MinutesStayTrue` | in whatever order klines and history come, the series is the newest minutes heard of, each with the last word on it; and a longer bar in progress is what was traded in it while none of its minutes was missed, if a series keeps at least three minutes |
| `ResearchProofs!RunnerKeeps` | orders, journal, positions and the feed's stamps of a runner |
| `ResearchProofs!FillsBookedOnce` | a fill is booked once |
| `ResearchProofs!EntriesWaitForData` | no entry is sent before the feed has been good for `Rewarm` |
| `ResearchProofs!SimulatorImplements` | the simulator implements `OrderLifecycle`: initial states map to initial states, each step to a step or a stutter |
| `FeedsProofs!FramesFit`, `SyncedBooksAreTrue` | between two frames and two resets a synced book is the exchange's of some moment, unless a reset fell in the application of its snapshot; signals are computed from no other |
| `FeedsProofs!ProcessedBarsAreTrue` | bars are processed once, in order, when they are over, and are the exchange's unless the socket was down in them; the one in progress at the seed stands at most twice, side by side |
| `FeedsProofs!TapesAreWhole` | between the gaps its rows show, a recording has each trade of the tape once and in order; without a gap, from the first trade on |
| `FeedsProofs!ReplaysAreExact` | from the next snapshot after such a gap on, the replay is the book the engine trusts, unless that snapshot was overtaken |

*PaperAccount.* The inductive invariant adds two facts to the three it proves. `ClosedIsEmpty`: a position is closed
exactly when nothing is left of it; needed because a fill that leaves nothing closes it and removes its risk.
`MarksOpen`: the positions still to be marked are open; without it a mark could fill a closed one and take a risk entry
that is not there. `StopsSeen`, for the stops, says that open positions that have seen the candle are clear of it, and so is the next to
see its favourable extreme.
Assumed: counts, candles and limits are of their types; for the plans, that wave ends are naturals.

*The way of a count.* The runs' invariant adds that finished and aged runs have ended and that an unanswered request has
started nothing. Pruning takes only from the finished ones. `CountsInv` says, while `overlapped` is false, that the polls that install are of
one count, and that what a stage writes is written once nobody is at it or before it (`Orderly`): the last poll to leave a stage
has written there what all of them write. A poll that begins to install and meets none with another count makes this true,
whatever was installed before it, which is why `overlapped` is only about the last one to begin. That no count changes after
its run has ended (`CountsStand`) keeps it. `AnswerSurvives` is an action
property; `SessionInv` gives it the types of the accepted list and that something submitted was submitted in a step.
The property excepts a tool that raises, which does lose the answer (section 5).

*The automatic count.* `ScoresOf`: whatever the proportions of a reading, a motive wave scores at least 1800 and a correction
at most 1500, since proportions are worth 0 to 1000 for a motive wave, half of which counts, 500 for a correction, whose
labels `score_fibonacci` does not look up, and a flat's shape is worth at most 200. `BestIs`: a best
reading exists (order by score, then by rank), and is no correction if a motive wave fits. `WalkExists` and `WalkSound` go from
the last pivot to the first: a step of the walk looks only ahead, so the recursive definition has a solution, and what is
placed in front of a sound walk makes one. Assumed of a chart: times and prices are naturals (`ChartsAssumption`).

*The rule engine.* `DetectorInv` is why pivots alternate in kind, in price and in time: the candidate that is tracked lies beyond the
last pivot and after it, and a reversal by a percentage is a reversal (of a price and a deviation above zero, `ShapesAssumption`;
with a deviation of 0 a pivot could be followed by one of the same price). On such a series every wave of a count runs in
its direction (`MovesAlternate`), which leaves the rules that `Build` asks: `LegalCount`. `Ranked` says that of finitely many
candidates in a strict order one has each place, so what `Survivors` chooses exists and is one of them. `ChainOk` is that any two
waves of the chain, not only neighbours, are in order, so it survives a selection and the waves put behind it.

*ResearchQueue.* `StartsBounded` is not inductive: a claim starts the handler by what the worker *read*. `WorkerKnowsRow`
relates the two at each point: while claiming the row still has the attempts read, while running and reporting exactly
one more, and it can only be done already if a failure is being reported. `RowsAreSound` says that a done row has a
result and that an absent one was never tried. `EndedHolds` follows from the same invariant.

*The paper ledger.* `LedgerInv` adds to the properties that trades are numbered by the transition that opened them, none
later than the last one traded, and for each list the moments its trades have behind them: a pending one was not
filled, an open one was entered in time, a closed one left after it entered. A book between a signal and its offer is the
case that needs the stamp of arrival.

*The write buffer.* `RecordsInv` orders what is waiting, while the process is up, from the table towards the ledger: the batch is older
than what the sweep has in hand, that than the queue, and all are older than what is live, and while a batch
is under way the buffer is empty. So the rows that `flush` puts back come first, and cutting the buffer to its limit drops the
oldest. Once the process is stopping two threads flush and the order is lost, which is why `LossIsBounded` promises the
oldest only before that. `DownOk` (nothing in memory outlives the process) makes the next start sound.

*The paper journal.* A row is found by session and number, and a session is the second it began in, so the keys do not tell
trades apart. `OwnOk` numbers the trades of one trader in one process, which makes any two of them different in number; `TableOk` says that no
two rows of the table are of one key (`KeysTell`), which `Upserted` keeps because it replaces the row of a key it has. `JournalOk`
carries what a trader holds as written: a row that was there is there, or one of its key that some later write put in its place, and
that is another trader's or another process's, since a trader writes under a key only the trade it has there. That every row held
as written is in the table would be stronger, and false (section 5).

*Scores.* `CaseInv` is that of one calibrator. `Answerable` says what a score has heard: unanswered, nothing that broke
it; answered, what the property states. `KeysOnce` says that time and direction tell scores apart, and
`WrittenOnce` that whatever is in the table, the buffer or a sweep is marked as written, so that a sweep takes what is in none of them. A row that
is in buffer and table, because the answer to its write was lost, is the same in both, since a settled score is not changed.

*Lists.* The library's induction theorem takes an operator and cannot be used, but its well-founded minimum does not: `LeastNatural`
says that a set of naturals with a member has a least one, which is induction over a set instead of an operator. `Counting` derives from it that
the number of elements up to a position grows by one with each, and with that `PickedElements` and the list lemmas
say what a selection keeps: elements, order and uniqueness.

*Frames.* `FramesInv` says who holds the lock, that the frame is the last one made, and that who computes without
force came an interval after it.

*The walls.* `WallsInv` says that each book of the exchange comes from the one before by one step and that the mirror is one
of them; and, while no snapshot came between, that executed and pending are together what the delivered fills took, and that
removed is at most what the delivered changes took. Between two books a side loses no more than was pulled or filled: an
order is a set of units, so these are cardinalities, and `UnitsStand` says that later steps leave them alone.

*The structure.* `StructureInv` says that each series has a start once, in the order of time. `Placed` gives what `Place` makes of
one: the same with one bar in its place, where a closed bar is final, cut to the newest. What is kept of old bars is an end of them,
so two readings that have a bar in common have its neighbours in common (`NextToo`, counted on by `NeighboursToo`), and
a swing stays one at the shifted position.

*The minutes.* `MinutesInv` is that the exchange's series is the newest bars of `HeardIn`, the bars of all that was heard, and
that nothing is heard before it is traded. `PlacedNewest` is the step: placing a bar among the newest of a series gives
the newest of the series with the bar. It is not obvious for a bar older than all that are kept, which must fall out again
(`Overfull`), and for one whose closed form was cut off before. For the longer bar, `MinutesKept` says that the bars since its start
are the last ones of its minutes; there are at most three, so none was cut if a series keeps three (the code keeps 400 and 1500).

*Research.* `OrderOk` is the invariant of one order under the simulator's operators (its sums, stamps and status agree),
`DeskOk` that of the runner's orders, its journal and its position, `FeedOk` that of the stamps of good and bad
data. Each operator has a lemma of its own; `SimulatorImplements` maps an order to its status and what is filled, and
`RunnerInv` gives that every event moves each order by a step of its life or not at all.

*The book.* `FeedInv` is about the frames on their way, on the wire and in the queue: wherever two neighbours are of
different epochs of the exchange the second is a snapshot, and the first fits the book it will meet. An id that follows
the book's last one is then of the book's own epoch, so a delta that is applied is the exchange's next. `HandOk` says this for each
stage of the frame in the ingest thread's hand, of the book as it will be. A reset between the check of a delta and its merge leaves a book
with one level, but not in sync, as the reset's second write ends it (`SteadyOk` speaks of no reset under way). One between the merge of a snapshot
and the flag that calls it synced leaves a book in sync without its levels: that is `torn`, the case `book_resets` shows.

*The candles.* `CandleInv` says of the wire that it holds the market's newest trades, of an open bar that it is that of
what was heard of its bucket, and of a processed one that its bucket is over and nothing of it is on the wire; the
values only where no tick of the bucket was dark. `SeamOk` is what joins seed and stream: a bucket of which something was heard, but
which is not the open one, is over or dark. Without it a bar could open a second time for a bucket that the seed has: one may, the
one that was in progress when the history was seeded (`forming`), whose row is the last of the seed. What is heard does not pass
it, so the stream's bar of that bucket follows its row.

*The coverage.* `coverage_of` sorts and then merges: the proof first shows that every span has its place in the order (`Ranks`),
and that the merge, a recursion over the places, exists (`StepByStep`). The merged spans are `Tidy` (each ends before the next one starts) and hold the times the spans hold; then
the lengths add up (`SumIs`), and a time of the chart lies in the stretch between the last edge before it and the next one
(`StretchOf`), which is covered, a gap or a sliver. Assumed of a chart (`ChartsAssumption`): its pivots follow each other in time,
which `ZigZagPivotDetector` ensures, since a pivot is confirmed by a later candle and the next extreme starts there.

*The recorder.* `CaptureInv` speaks of `Settled`, what a reader has of rows and buffer since the last gap. A step of the recorder puts
frames behind it, and drops of its oldest only with a count or a number that shows (`Follows`): buffering, cutting a row and
losing one each have a lemma that says so. `TapeOk`: what is settled carries the trades after some number up to the tape's last.
`MirrorOk` is about the book that the frame in the ingest thread's hand will make (`Coming`), since a frame is tapped before it is applied.
A reader of the end of a recording who has seen a snapshot has the book that all of it makes (`ReplaySuffix`), so what a gap cuts off does not matter.
The step that is not obvious is the merged window. It leaves late, behind snapshots and seeds recorded meanwhile, so its levels
are laid over books that hold some of its updates already; `Completes` says that laid over the exchange's book at any
update since the window began they make the book at its end. A seed older than the window's beginning is the case that `spoilt` excepts.
Assumed: a buffer has room for a frame (`CaptureAssumption`).

### Only model-checked

* Liveness (`LastCountIsTraded`, `JobsEnd`, `LedgerTradesAreFiled`, `ClosedTradesAreFiled`, `ResyncEnds`): under
  fairness, which the prover cannot do.
* What is computed by folds and `SelectSeq`, whose definitions the provers cannot expand, or by a search over pivots:
  `MirrorHolds`.
* `ExposureWithinCap`: not true for every constant. A stop a tick away makes a position so large that slippage and fees
  of its own exit exceed its risk, and the equity the cap is measured against falls below it.

## 5. Where code and comments disagree

| run | property | what happens |
|---|---|---|
| `live_counts` | `ReanalysisTakesEffect` | `server.py:790` says a re-analysis takes effect on the next candle that closes; two polls that meet with two counts can leave the older scenario under records of the newer, and every later poll skips (`live_loop.py:180`, `backtest/engine.py:168`) |
| `book_resets` | `NoBookIsSilentlyWrong` | `orderbook_engine.py:251` says the book is touched only from the stream thread, and `:326` that no book is silently wrong; the socket thread resets it while the ingest thread merges a snapshot, and it is called synced without its levels |
| `chart_counts` | `DrawnOnItsBars` | `server.py:1793` says the count is drawn on exactly the bars it was made on; another run may have filed a newer series of the same chart since |
| `lead_answers` | `AnswerMovesWithACloseOnly` | `smc_engine.py:305` says the answer changes exactly when a bar closes; any kline drops the remembered one, and the trend it was computed from has moved with the reading |
| `lead_waves` | `ContextFollowsTime` | `ElliottContext.update` appends bars in the order of arrival; the same history is placed in time order in `SmcEngine.update`, with the reason in a comment (`smc_engine.py:245`) |
| `lead_recorders` | `LiquidationsOnce` | `storage.py:390` says liquidations are written once each; `subscribe` starts a second recorder beside the first |

What else came up while modelling, without a run of its own:

* *Account and live counts.* REST's row of the bar in progress is marked closed (`bybit_rest_client.py:123`), seeded and
  processed, and processed again when the stream's bar of that bucket closes, against `live_loop.py:201`; `BarsAreTrue` says that
  this bucket alone may stand twice. A plan's stop may lie on the wrong side of the entry (`backtest/engine.py:337`). The recorded
  price is the wick, not the fill (`:265`). `start_new_day` has no caller (`risk_manager.py:94`), so the daily limit sums
  different days. A fill is journalled under the count of the moment (`live_loop.py:160`), not of its plan. A failing save over REST loses a
  finished analysis (`server.py:1178`), and two requests may start one analysis twice (`server.py:1281`).
  A count installed during a candle is evaluated on that candle, though `apply_ai_analysis` speaks of later ones.
* *Counts.* External counts may skip pivots, so accepted waves may run against their direction (`external_count.py:210`).
  The rule on wave 2 is first asked at the fourth wave (`scenario.py:15`), a tie of waves 3 and 5 is rejected, and every zigzag with
  a short B is classified as a combination. `build_count` keeps the best usable rung, the coarsest on a tie; its docstring
  says the finer. A `ValueError` from tool arguments leaves `AnalystToolbox.call` (`analyst_tools.py:178`) although its docstring
  (`:620`) says errors are answered, and takes the whole run with it.
* *Ledger and storage.* A clean stop flushes the buffer but not the trades queued for the next sweep (`engine.py:258`):
  `Stop` leaves `queue` alone, and `LossIsBounded` excuses the end of the process. A liquidation with the stamp of a
  filed one is never filed (`storage.py:690`). `load_calibration` and `_load_trades` read the oldest 2000 rows.
  `drain` marks as written what `flush` may yet drop (`calibration.py:159`). A paper session is named by the second of its start
  and a row by session and number (`paper.py:135`, `:302`), so traders that one loop starts overwrite each other's rows, against the
  "idempotent key" of `paper.py:19`; `JournalIsTrue` says that nothing else removes a row.
* *Book and streams.* `_track_walls` counts every wall that is gone unreached as withdrawn (`orderbook_engine.py:538`), one traded away
  before its prints arrived or outgrown by others too. A debounced resync can leave a book
  without updates (`engine.py`, `start`). `OrderBook.reset` keeps flows, cancelled walls and spoofs, although everything derived
  "goes with it". A seed is copied without a lock and can be older than the deltas recorded before it (`capture.py:691`;
  `ReplayIsExact` excepts those). A restarted exchange's delta is a snapshot for the engine and a delta for recorder and
  replay. The first bar after connecting is partial.
* *Lead engine.* `on_kline` runs on the ingest and the backfill thread without a lock. `subscribe` leaves the old poller
  and recorder; two overlapping ones can leave a socket nobody stops. The time windows are anchored at the newest
  item, so liquidations never age in silence, and a late trade hides newer ones. The confidence of a quiet tape never
  falls (`health.py:270`). `invalidation_distance` is signed, against the comment at `layers.py:319`.
* *Research.* A trade with a late stamp moves the simulator's clock back (`execution.py:334`). A partly filled order is
  forgotten with its first fill (`runner.py:276`). One trade's volume fills two own orders (`execution.py:52`). Quotes
  bypass the risk limits while a position is held, and the inventory limit of `SpreadCapture` has no effect. A remainder
  below the smallest notional cannot be closed. `WARMUP_MS` is not enforced;
  a degraded storage stays degraded and limits are not restored by a restart.

## 6. Not modelled, and why

* Indicator formulas of the analyser, order flow, derivatives, research features and handlers: values without state that
  other parts depend on; the models take their result as an input.
* Network clients, HTTP and MCP views, serialisation, table definitions: input and output; a handler that changes the
  state of an engine is the action it calls.
* `ElliottStateMachine`, `EntryTimingTracker`, `update_trailing_stop`, `cancel_order`, `manual_reset`,
  `check_liquidity_sweep`, `resample_candles` and the futures client: nothing in the program calls them.
* In modelled modules: progress lines, display scenarios, reports, prompts and confidence texts, the other tables of the
  recorder, heartbeat and replay of the lead engine.
* Two processes overlapping during a deployment (`research/jobs.py:140` excludes them), and a request that the database
  applies after the process that sent it has died and the next one has read the table.

## 7. Plan

1. An abstract journal (a set of trades, each written once) that both recorders of `Records` implement through a
   refinement mapping.
2. Model the handlers of `research/handlers.py` and the subscriptions of `api_v1.py`.
