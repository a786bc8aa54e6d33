----------------------------- MODULE MarketData -----------------------------
(* What MarketState keeps of one instrument besides its order book, and the *)
(* part of MarketDataSupervisor that feeds it: candle windows fed by a      *)
(* stream, by gap backfills, by recoveries and by baseline refreshes; and   *)
(* tickers, funding rates, open interest and trades fed by stream and REST. *)
(*                                                                          *)
(* A behaviour follows one feed, because the feeds share no state:          *)
(*   "adapter"   candles of _consume_forever, which recovers until it works *)
(*   "lane"      candles of an isolated critical lane, which goes on        *)
(*   "baseline"  candles of an interval that is not streamed                *)
(*   a data kind of ContextKinds                                            *)
(* Candles are numbered by open_time in units of their interval.  A closed  *)
(* candle has final values, an open one preliminary values.                 *)
EXTENDS Integers, Sequences, FiniteSets

CONSTANTS
  Feeds,          \* the feeds to follow
  WindowSize,     \* candle_window_size
  WarmupSize,     \* candle_warmup_size
  RecentTradeLimit, OpenInterestHistorySize,
  Times, SequenceIds, Values, TradeIds,   \* contents of context events
  LastCandle, MaxInFlight, MaxEvents, MaxFaults   \* bounds

CandleFeeds == {"adapter", "lane", "baseline"}
StreamFeeds == {"adapter", "lane"}
ContextKinds == {"ticker", "funding", "open_interest", "trade"}
None == [received_at |-> -1]

ASSUME MarketDataAssumption ==
  /\ Feeds \subseteq CandleFeeds \cup ContextKinds
  /\ WindowSize \in Nat \ {0} /\ WarmupSize \in 1..1000
  /\ RecentTradeLimit \in Nat \ {0} /\ OpenInterestHistorySize \in Nat \ {0, 1}
  /\ Times \subseteq Nat /\ SequenceIds \subseteq Nat
  /\ LastCandle \in Nat \ {0, 1}
  /\ MaxInFlight \in Nat /\ MaxEvents \in Nat /\ MaxFaults \in Nat

VARIABLES
  feed,       \* the feed this behaviour follows
  byClock,    \* REST rows carry no closed flag: the adapter compares clocks
  newest,     \* the venue: its open candle
  connected,  \* the venue's stream reaches the supervisor
  stream,     \* candles received and not yet processed
  phase,      \* where the consuming task is
  pending,    \* the event that revealed a gap
  mode,       \* recovery_mode
  asked,      \* the venue's open candle when the REST request was sent
  lostAt,     \* the venue's open candle when the connection broke
  since,      \* disconnected_since, in candles; 0 for None
  window,     \* CandleWindowStore
  handled,    \* history: how often the event handler got a candle's final values
  value,      \* _tickers, _funding_rates or _open_interest
  oiHistory,  \* _open_interest_history
  trades, tradeIds,   \* _trades, _trade_ids
  mark,       \* FreshnessTracker._updated_at, -1 for never
  clock,      \* events received so far
  faults

linkVars == <<newest, connected, stream, phase, pending, mode, asked, lostAt, since>>
candleVars == <<window, handled>>
contextVars == <<value, oiHistory, trades, tradeIds, mark, clock>>
vars == <<feed, byClock, linkVars, candleVars, contextVars, faults>>

-----------------------------------------------------------------------------
Candle == [open : 1..LastCandle, closed : BOOLEAN, final : BOOLEAN]
NoCandle == [open |-> 1, closed |-> FALSE, final |-> FALSE]
OpenCandle(i) == [open |-> i, closed |-> FALSE, final |-> FALSE]
ClosedCandle(i) == [open |-> i, closed |-> TRUE, final |-> TRUE]
Phases == {"init", "connect", "stream", "gap", "down", "recover", "none"}

Init ==
  /\ feed \in Feeds /\ byClock \in IF feed \in CandleFeeds THEN BOOLEAN ELSE {FALSE}
  /\ newest = 2 /\ connected = FALSE /\ stream = <<>>
  /\ phase = IF feed \in CandleFeeds THEN "init" ELSE "none"
  /\ pending = NoCandle /\ mode = "none" /\ asked = 2 /\ lostAt = 0 /\ since = 0
  /\ window = <<>> /\ handled = [i \in 1..LastCandle |-> 0]
  /\ value = None /\ oiHistory = <<>> /\ trades = <<>> /\ tradeIds = {}
  /\ mark = -1 /\ clock = 0
  /\ faults = 0

-----------------------------------------------------------------------------
(* CandleWindowStore                                                        *)

\* _is_duplicate_closed_candle
IsDuplicate(old, new) == old.closed /\ new.closed /\ old.final = new.final
\* Mutant: an open candle replaces a closed one.
RefusesDuplicates(old, new) == IsDuplicate(old, new)

Refuses(old, new) == (old.closed /\ ~new.closed) \/ IsDuplicate(old, new)

Places(w, c) == {k \in 1..Len(w) : w[k].open = c.open}

\* upsert: newer candles are appended, known ones replaced, others refused.
Accepts(w, c) ==
  \/ w = <<>> \/ c.open > w[Len(w)].open
  \/ \E k \in Places(w, c) : ~Refuses(w[k], c)

\* Mutant: the window has no maximum.
UpsertUnbounded(w, c) ==
  IF ~Accepts(w, c) THEN w
  ELSE IF Places(w, c) # {}
  THEN [k \in DOMAIN w |-> IF w[k].open = c.open THEN c ELSE w[k]]
  ELSE Append(w, c)

Upsert(w, c) ==
  IF ~Accepts(w, c) THEN w
  ELSE IF Places(w, c) # {}
  THEN [k \in DOMAIN w |-> IF w[k].open = c.open THEN c ELSE w[k]]
  ELSE IF Len(w) < WindowSize THEN Append(w, c) ELSE Append(Tail(w), c)

\* apply of one candle; when the store accepts it the event handler gets it,
\* and a strategy evaluates it if it is closed.
Applied(m, c) ==
  [window |-> Upsert(m.window, c),
   handled |-> IF Accepts(m.window, c) /\ c.closed /\ c.final
               THEN [m.handled EXCEPT ![c.open] = @ + 1] ELSE m.handled]

\* The candles of an answer, one after the other.  apply_many leaves the event
\* handler out: its callers take the window only.
ApplyMany(w, h, cs) ==
  LET after[n \in 0..Len(cs)] ==
        IF n = 0 THEN [window |-> w, handled |-> h] ELSE Applied(after[n - 1], cs[n])
  IN  after[Len(cs)]

\* The closed candles of a window, in its order.
ClosedOf(w) ==
  LET closed[n \in 0..Len(w)] ==
        IF n = 0 THEN <<>>
        ELSE IF w[n].closed THEN Append(closed[n - 1], w[n]) ELSE closed[n - 1]
  IN  closed[Len(w)]

\* Mutant: missing candles are not noticed.
ClosedWindow(w, n) ==
  LET closed == ClosedOf(w)
  IN  IF Len(closed) < n THEN <<>> ELSE SubSeq(closed, Len(closed) - n + 1, Len(closed))

\* contiguous_closed_window: the newest n closed candles, if none is missing
ContiguousClosed(w, n) ==
  LET closed == ClosedOf(w)
      tail == SubSeq(closed, Len(closed) - n + 1, Len(closed))
  IN  IF Len(closed) < n \/ \E k \in 1..n - 1 : tail[k + 1].open # tail[k].open + 1
      THEN <<>> ELSE tail

-----------------------------------------------------------------------------
(* The venue                                                                *)

\* Mutant: the unfinished row at the end counts as closed.
RowsAllClosed(s, limit) ==
  LET n == IF limit < s THEN limit ELSE s
  IN  [k \in 1..n |-> [open |-> s - n + k, final |-> k < n, closed |-> TRUE]]

\* get_candles: the last rows as of candle s, closed by the venue's flag or
\* by comparing close_time with the time of receipt.
Rows(s, limit) ==
  LET n == IF limit < s THEN limit ELSE s
  IN  [k \in 1..n |->
        [open |-> s - n + k, final |-> k < n,
         closed |-> IF byClock THEN s - n + k < newest ELSE k < n]]

Deliver(c) == stream' = IF connected THEN Append(stream, c) ELSE stream

\* The venue announces an unfinished candle.
VenueUpdates ==
  /\ feed \in StreamFeeds /\ connected /\ Len(stream) < MaxInFlight
  /\ Deliver(OpenCandle(newest))
  /\ UNCHANGED <<feed, byClock, newest, connected, phase, pending, mode, asked,
                 lostAt, since, candleVars, contextVars, faults>>

\* A silent connection is noticed within one candle (heartbeat timeouts).
VenueCloses ==
  /\ feed \in CandleFeeds /\ newest < LastCandle /\ Len(stream) < MaxInFlight
  /\ ~(phase \in {"stream", "gap"} /\ ~connected /\ newest > lostAt)
  /\ Deliver(ClosedCandle(newest))
  /\ newest' = newest + 1
  /\ UNCHANGED <<feed, byClock, connected, phase, pending, mode, asked, lostAt,
                 since, candleVars, contextVars, faults>>

ConnectionLost ==
  /\ connected /\ faults < MaxFaults
  /\ faults' = faults + 1
  /\ connected' = FALSE /\ stream' = <<>> /\ lostAt' = newest
  /\ UNCHANGED <<feed, byClock, newest, phase, pending, mode, asked, since,
                 candleVars, contextVars>>

-----------------------------------------------------------------------------
(* Consuming candles                                                        *)

\* initialize: _warm_instrument applies candles without evaluating them.
WarmUp(s) ==
  /\ phase = "init" /\ s \in asked..newest
  /\ window' = ApplyMany(window, handled, Rows(s, WarmupSize)).window
  /\ phase' = IF feed = "baseline" THEN "none" ELSE "connect"
  /\ UNCHANGED <<feed, byClock, newest, connected, stream, pending, mode, asked,
                 lostAt, since, handled, contextVars, faults>>

Connect ==
  /\ phase = "connect"
  /\ phase' = "stream" /\ connected' = TRUE /\ stream' = <<>>
  /\ UNCHANGED <<feed, byClock, newest, pending, mode, asked, lostAt, since,
                 candleVars, contextVars, faults>>

\* Mutant: a gap of one candle is overlooked.
RevealsLargeGap(c) == window # <<>> /\ c.open > window[Len(window)].open + 2

\* _backfill_candle_gap compares open times only.
RevealsGap(c) == window # <<>> /\ c.open > window[Len(window)].open + 1

\* process_event of a candle that continues the window
ProcessCandle ==
  /\ phase = "stream" /\ stream # <<>> /\ ~RevealsGap(Head(stream))
  /\ LET r == Applied([window |-> window, handled |-> handled], Head(stream))
     IN  window' = r.window /\ handled' = r.handled
  /\ stream' = Tail(stream)
  /\ UNCHANGED <<feed, byClock, newest, connected, phase, pending, mode, asked,
                 lostAt, since, contextVars, faults>>

\* The ingestion policy refuses the candle's timestamp.
RejectCandle ==
  /\ phase = "stream" /\ stream # <<>> /\ faults < MaxFaults
  /\ faults' = faults + 1
  /\ stream' = Tail(stream)
  /\ UNCHANGED <<feed, byClock, newest, connected, phase, pending, mode, asked,
                 lostAt, since, candleVars, contextVars>>

DetectGap ==
  /\ phase = "stream" /\ stream # <<>> /\ RevealsGap(Head(stream))
  /\ phase' = "gap" /\ pending' = Head(stream) /\ asked' = newest
  /\ stream' = Tail(stream)
  /\ UNCHANGED <<feed, byClock, newest, connected, mode, lostAt, since,
                 candleVars, contextVars, faults>>

\* The backfill is applied without evaluation, then the event as any other.
BackfillGap(s) ==
  /\ phase = "gap" /\ s \in asked..newest
  /\ LET filled == ApplyMany(window, handled, Rows(s, WarmupSize)).window
         r == Applied([window |-> filled, handled |-> handled], pending)
     IN  window' = r.window /\ handled' = r.handled
  /\ phase' = "stream" /\ pending' = NoCandle
  /\ UNCHANGED <<feed, byClock, newest, connected, stream, mode, asked, lostAt,
                 since, contextVars, faults>>

\* The outage counts from the first failure since a stable connection.
Fails(stable, m) ==
  /\ phase' = "down" /\ connected' = FALSE /\ stream' = <<>> /\ mode' = m
  /\ since' = IF since = 0 \/ stable THEN newest ELSE since

BackfillFails(stable) ==
  /\ phase = "gap" /\ faults < MaxFaults
  /\ faults' = faults + 1
  /\ Fails(stable, "short")
  /\ pending' = NoCandle
  /\ UNCHANGED <<feed, byClock, newest, asked, lostAt, candleVars, contextVars>>

NoticeLoss(stable) ==
  /\ phase = "stream" /\ ~connected
  /\ Fails(stable, "short")
  /\ UNCHANGED <<feed, byClock, newest, pending, asked, lostAt, candleVars,
                 contextVars, faults>>

\* A gap in the order book ends the stream that also carries the candles.
BookGap(stable) ==
  /\ phase = "stream" /\ feed = "adapter" /\ connected /\ faults < MaxFaults
  /\ faults' = faults + 1
  /\ Fails(stable, "order_book")
  /\ UNCHANGED <<feed, byClock, newest, pending, asked, lostAt, candleVars, contextVars>>

\* A full recovery is chosen by the length of the outage in seconds; a short
\* outage spans at most one close of any interval.
BeginRecovery(m) ==
  /\ phase = "down"
  /\ m \in IF mode = "order_book" THEN {"order_book"} ELSE {"short", "full"}
  /\ m = "short" => newest - since <= 1
  /\ phase' = "recover" /\ mode' = m /\ asked' = newest
  /\ UNCHANGED <<feed, byClock, newest, connected, stream, pending, lostAt, since,
                 candleVars, contextVars, faults>>

\* _backfill_recovery_candles: two rows more than the outage has intervals
RecoveryLimit ==
  IF mode = "full" \/ asked - since + 2 > WarmupSize THEN WarmupSize
  ELSE asked - since + 2

\* Mutant: the recovery evaluates every closed candle it was sent.
RecoverEvaluatesAll(s) ==
  /\ phase = "recover" /\ mode # "order_book" /\ s \in asked..newest
  /\ LET rows == Rows(s, RecoveryLimit)
     IN  /\ window' = ApplyMany(window, handled, rows).window
         /\ handled' = [i \in 1..LastCandle |->
              IF mode = "short" /\ \E k \in DOMAIN rows : rows[k] = ClosedCandle(i)
              THEN handled[i] + 1 ELSE handled[i]]
  /\ phase' = "connect" /\ mode' = "none"
  /\ UNCHANGED <<feed, byClock, newest, connected, stream, pending, asked, lostAt,
                 since, contextVars, faults>>

\* Only the short recovery evaluates the closed candles it brings.
Recover(s) ==
  /\ phase = "recover" /\ mode # "order_book" /\ s \in asked..newest
  /\ LET r == ApplyMany(window, handled, Rows(s, RecoveryLimit))
     IN  /\ window' = r.window
         /\ handled' = IF mode = "short" THEN r.handled ELSE handled
  /\ phase' = "connect" /\ mode' = "none"
  /\ UNCHANGED <<feed, byClock, newest, connected, stream, pending, asked, lostAt,
                 since, contextVars, faults>>

\* _recover_adapter in mode ORDER_BOOK fetches no candles.
RecoverBook ==
  /\ phase = "recover" /\ mode = "order_book"
  /\ phase' = "connect" /\ mode' = "none"
  /\ UNCHANGED <<feed, byClock, newest, connected, stream, pending, asked, lostAt,
                 since, candleVars, contextVars, faults>>

\* _consume_forever tries again; the critical lane connects all the same.
RecoveryFails ==
  /\ phase = "recover" /\ faults < MaxFaults
  /\ faults' = faults + 1
  /\ phase' = IF feed = "lane" THEN "connect" ELSE "down"
  /\ mode' = IF feed = "lane" THEN "none" ELSE "short"
  /\ UNCHANGED <<feed, byClock, newest, connected, stream, pending, asked, lostAt,
                 since, candleVars, contextVars>>

\* _maintain_candidate_baselines: when the newest closed candle is no longer
\* fresh, the last two rows are fetched; a failed request changes nothing.
RefreshBaseline ==
  LET closed == {window[k].open : k \in {j \in 1..Len(window) : window[j].closed}}
  IN  /\ feed = "baseline" /\ phase = "none"
      /\ \A i \in closed : newest > i + 1
      /\ window' = ApplyMany(window, handled, Rows(newest, 2)).window
      /\ window' # window
      /\ UNCHANGED <<feed, byClock, linkVars, handled, contextVars, faults>>

-----------------------------------------------------------------------------
(* Tickers, funding rates, open interest, trades                            *)

\* A sequence id of 0 is None, and so is a value of 0 in a ticker's field; the
\* other kinds use the first field only.  REST answers may have been received
\* before the stream event that was applied last.
ContextEvents ==
  [ts : Times, seq : SequenceIds,
   a : IF feed = "ticker" THEN Values \cup {0} ELSE Values,
   b : IF feed = "ticker" THEN Values \cup {0} ELSE {0},
   received_at : {clock, clock + 1}]
Trades == [id : TradeIds, ts : Times, seq : SequenceIds, received_at : {clock, clock + 1}]

IsOlder(e, previous) ==
  /\ previous # None
  /\ IF e.ts # previous.ts THEN e.ts < previous.ts
     ELSE e.seq # 0 /\ previous.seq # 0 /\ e.seq < previous.seq

IsSameSource(e, previous) ==
  /\ previous # None /\ e.ts = previous.ts
  /\ e.seq = previous.seq \/ e.seq = 0 \/ previous.seq = 0

\* _merge_ticker
Merged(previous, e) ==
  IF feed # "ticker" \/ previous = None THEN e
  ELSE [e EXCEPT !.a = IF @ # 0 THEN @ ELSE previous.a,
                 !.b = IF @ # 0 THEN @ ELSE previous.b]

SameValues(e, previous) == e.a = previous.a /\ e.b = previous.b

\* Mutant: an event is compared with the previous one by its sequence alone.
AppliesBySequence(e) ==
  /\ value # None /\ e.seq # 0 /\ value.seq # 0 => e.seq >= value.seq
  /\ ~(IsSameSource(e, value) /\ SameValues(Merged(value, e), value))

\* MarketState.apply of a ticker, a funding rate or an open interest
Applies(e) ==
  /\ ~IsOlder(e, value)
  /\ ~(IsSameSource(e, value) /\ SameValues(Merged(value, e), value))

\* Mutant: a correction of the present value is not recorded.
OpenInterestKept(e) ==
  IF IsSameSource(e, value) /\ oiHistory # <<>> THEN oiHistory
  ELSE IF Len(oiHistory) < OpenInterestHistorySize THEN Append(oiHistory, e)
  ELSE Append(Tail(oiHistory), e)

\* _record_open_interest: a correction replaces what it corrects.
OpenInterestRecorded(e) ==
  IF IsSameSource(e, value) /\ oiHistory # <<>>
  THEN [oiHistory EXCEPT ![Len(oiHistory)] = e]
  ELSE IF Len(oiHistory) < OpenInterestHistorySize THEN Append(oiHistory, e)
  ELSE Append(Tail(oiHistory), e)

\* Mutant: an ignored event counts as fresh data.
ApplyContextMarksAll(e) ==
  /\ feed \in ContextKinds \ {"trade"} /\ clock < MaxEvents
  /\ clock' = clock + 1
  /\ IF Applies(e)
     THEN /\ value' = Merged(value, e)
          /\ oiHistory' = IF feed = "open_interest" THEN OpenInterestRecorded(e) ELSE oiHistory
     ELSE UNCHANGED <<value, oiHistory>>
  /\ mark' = e.received_at
  /\ UNCHANGED <<feed, byClock, linkVars, candleVars, trades, tradeIds, faults>>

ApplyContext(e) ==
  /\ feed \in ContextKinds \ {"trade"} /\ clock < MaxEvents
  /\ clock' = clock + 1
  /\ IF Applies(e)
     THEN /\ value' = Merged(value, e)
          /\ oiHistory' = IF feed = "open_interest" THEN OpenInterestRecorded(e) ELSE oiHistory
          /\ mark' = e.received_at
     ELSE UNCHANGED <<value, oiHistory, mark>>
  /\ UNCHANGED <<feed, byClock, linkVars, candleVars, trades, tradeIds, faults>>

\* _apply_trade
TradeApplies(e) ==
  /\ e.id \notin tradeIds
  /\ trades # <<>> => ~IsOlder(e, trades[Len(trades)])

\* Mutant: the id of an expired trade is kept.
TradeIdsKept(e) == tradeIds \cup {e.id}

TradeIdsAfter(e) ==
  (IF Len(trades) = RecentTradeLimit THEN tradeIds \ {Head(trades).id} ELSE tradeIds)
    \cup {e.id}

ApplyTrade(e) ==
  /\ feed = "trade" /\ clock < MaxEvents
  /\ clock' = clock + 1
  /\ IF TradeApplies(e)
     THEN /\ trades' = Append(IF Len(trades) = RecentTradeLimit THEN Tail(trades) ELSE trades, e)
          /\ tradeIds' = TradeIdsAfter(e)
          /\ mark' = e.received_at
     ELSE UNCHANGED <<trades, tradeIds, mark>>
  /\ UNCHANGED <<feed, byClock, linkVars, candleVars, value, oiHistory, faults>>

\* invalidate_realtime_state, when _consume_forever loses its stream
Invalidate ==
  /\ feed \in ContextKinds /\ faults < MaxFaults
  /\ faults' = faults + 1
  /\ value' = None /\ oiHistory' = <<>> /\ trades' = <<>> /\ tradeIds' = {}
  /\ mark' = -1
  /\ UNCHANGED <<feed, byClock, linkVars, candleVars, clock>>

-----------------------------------------------------------------------------
CandleStep ==
  \/ VenueUpdates \/ VenueCloses \/ ConnectionLost
  \/ Connect \/ ProcessCandle \/ RejectCandle \/ DetectGap \/ RecoverBook \/ RecoveryFails
  \/ RefreshBaseline
  \/ \E s \in 1..LastCandle : WarmUp(s) \/ BackfillGap(s) \/ Recover(s)
  \/ \E stable \in BOOLEAN : BackfillFails(stable) \/ NoticeLoss(stable) \/ BookGap(stable)
  \/ \E m \in {"short", "full", "order_book"} : BeginRecovery(m)
ContextStep ==
  \/ \E e \in ContextEvents : ApplyContext(e)
  \/ \E e \in Trades : ApplyTrade(e)
  \/ Invalidate

Next == CandleStep \/ ContextStep
Spec == Init /\ [][Next]_vars

-----------------------------------------------------------------------------
\* Every variable keeps its type; the window is bounded and strictly ordered
\* by open time.
TypeOK ==
  /\ feed \in Feeds /\ phase \in Phases
  /\ newest \in 2..LastCandle /\ asked \in 2..newest /\ since \in 0..newest
  /\ stream \in Seq(Candle) /\ Len(stream) <= MaxInFlight
  /\ window \in Seq(Candle) /\ Len(window) <= WindowSize
  /\ \A k \in 1..Len(window) - 1 : window[k].open < window[k + 1].open
  /\ Len(oiHistory) <= OpenInterestHistorySize /\ Len(trades) <= RecentTradeLimit
  /\ mark \in -1..MaxEvents + 1 /\ faults \in 0..MaxFaults

\* Streams, replays, gap backfills and recoveries overlap, and still the
\* event handler sees the final values of a closed candle at most once.
HandledOnce == \A i \in 1..LastCandle : handled[i] <= 1

\* Where the venue itself says that a row is closed, every closed candle in
\* the window has its final values.
ClosedIsFinal ==
  ~byClock => \A k \in 1..Len(window) : window[k].closed => window[k].final

\* What contiguous_closed_window hands to a strategy is a run of consecutive
\* candles of the venue with their final values, or nothing, whatever was
\* lost on the way.
HistoryIsExact ==
  ~byClock =>
    \A n \in 1..WindowSize :
      LET h == ContiguousClosed(window, n)
      IN  h # <<>> => \A k \in 1..n : h[k] = ClosedCandle(h[1].open + k - 1)

\* A candle lost on the way to a live stream is noticed by the next one and
\* fetched before that one is applied: streaming leaves no hole in a window
\* without holes, as long as the backfill reaches back to its last candle.
NoHoles(w) == \A k \in 1..Len(w) - 1 : w[k + 1].open = w[k].open + 1
StreamLeavesNoHole ==
  [][/\ phase \in {"stream", "gap"} /\ window # <<>> /\ NoHoles(window)
     /\ newest - window[Len(window)].open <= WarmupSize
     => NoHoles(window')]_vars

\* A closed candle is never opened again.
ClosedStaysClosed ==
  [][\A j \in 1..Len(window), k \in 1..Len(window') :
       window[j].closed /\ window'[k].open = window[j].open => window'[k].closed]_vars

\* Data is as fresh as the event that produced it: the freshness mark is the
\* receive time of the value, rate, interest or trade held at present.
FreshnessIsOfTheData ==
  feed \in ContextKinds =>
    mark = IF feed # "trade" THEN value.received_at
           ELSE IF trades = <<>> THEN -1 ELSE trades[Len(trades)].received_at

\* A late answer or a repeated event never replaces newer data.
NeverOlder ==
  [][value # None /\ value' # None => value'.ts >= value.ts]_vars

\* The ids used to recognise repeated trades are those of the trades held.
TradeIdsExact ==
  /\ tradeIds = {trades[k].id : k \in 1..Len(trades)}
  /\ \A j, k \in 1..Len(trades) : j < k => trades[j].id # trades[k].id /\ trades[j].ts <= trades[k].ts

\* The open-interest history ends with the present value, holds nothing from
\* before an invalidation, and never goes back in time, though a correction
\* replaces an entry and a late REST answer arrives after the stream.
InterestHistoryEndsNow ==
  feed = "open_interest" =>
    /\ (value = None) = (oiHistory = <<>>)
    /\ value # None => oiHistory[Len(oiHistory)] = value
    /\ \A k \in 1..Len(oiHistory) - 1 : oiHistory[k].ts <= oiHistory[k + 1].ts

\* What strategies read and are woken by: candles with their final values, in
\* one piece, each closed one handled once.
CandlesAreExact == TypeOK /\ HandledOnce /\ ClosedIsFinal /\ HistoryIsExact

\* Tickers, funding rates, open interest and trades: what is derived from the
\* events (freshness, ids, history) agrees with the data at hand.
ContextIsExact == FreshnessIsOfTheData /\ TradeIdsExact /\ InterestHistoryEndsNow

\* No step takes back what was known: a closed candle, a newer value, or a
\* window without holes.
NothingTakenBack == ClosedStaysClosed /\ NeverOlder /\ StreamLeavesNoHole
=============================================================================
