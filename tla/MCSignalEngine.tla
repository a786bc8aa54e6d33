--------------------------- MODULE MCSignalEngine ---------------------------
(* Model-checking instance of SignalEngine: a strategy on closed 5m candles  *)
(* of two venues and one on tickers and any candle of one venue.             *)
EXTENDS SignalEngine

TwoStrategies == <<"cross", "single">>
TwoRequirements ==
  [cross |-> [trigger_kinds |-> {"candle"}, fresh_data |-> {"ticker"},
              needs_history |-> FALSE, minimum_venues |-> 2, intervals |-> {"5m"}],
   single |-> [trigger_kinds |-> {"candle", "ticker"}, fresh_data |-> {},
               needs_history |-> TRUE, minimum_venues |-> 1, intervals |-> {}]]

Event(kind, venue, interval, closed) ==
  [kind |-> kind, venue |-> venue, interval |-> interval, is_closed |-> closed]
FewEvents ==
  {Event("ticker", "v1", "", TRUE), Event("ticker", "v2", "", TRUE),
   Event("candle", "v1", "5m", TRUE), Event("candle", "v1", "1h", TRUE),
   Event("candle", "v1", "5m", FALSE)}
=============================================================================
