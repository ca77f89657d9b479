------------------------------ MODULE LeadWaves ------------------------------
(***************************************************************************)
(* The wave context beside the structure (elliott_state.ElliottContext):   *)
(* SymbolState hands it every minute bar there is, the klines and the      *)
(* history in on_kline and the bars made of trades in on_trade.            *)
(***************************************************************************)
EXTENDS LeadStructure

\* Two tapes: a rise whose break turns into a change of character and a fall,
\* and a double bottom that is left by two changes of character.
MCTapes == {<<1, 1, 1, 3, 5, 4, 4, 4, 6, 6, 3, 3, 3, 1>>, <<1, 1, 2, 3, 2, 2, 3, 3, 3, 4, 2, 1, 2, 6>>}

VARIABLE waves     \* ElliottContext.candles

WavesInit == Init /\ waves = <<>>

WavesKline == Kline /\ waves' = WaveBars(waves, BarAt(wire.kline + 1))
WavesBackfill == Backfill /\ waves' = WaveBars(waves, BarAt(Head(fetched)))
WavesTrade ==
    /\ PublicTrade
    /\ waves' = IF local' # local THEN WaveBars(waves, Finished(minute)) ELSE waves
WavesOther == (Trade \/ Outage \/ Fetch \/ Snapshot) /\ UNCHANGED waves

WavesNext == WavesKline \/ WavesBackfill \/ WavesTrade \/ WavesOther
WavesSpec == WavesInit /\ [][WavesNext]_<<vars, waves>>

(* The wave context is a reading of the minutes in their order: it is the
   one the same bars give when each minute is there once, in time order
   (the comment of SmcEngine.update on positional swings).                 *)
InOrder == FoldLeft(Place, <<>>, waves)
ContextFollowsTime == WaveContext(waves).label = WaveContext(InOrder).label
=============================================================================
