----------------------------- MODULE OrderBook -----------------------------
(* One instrument's order book: LocalOrderBook, what MarketState keeps      *)
(* about it, and the part of MarketDataSupervisor that keeps it in step     *)
(* with the venue over a stream and REST snapshots.                         *)
(*                                                                          *)
(* The venue is external.  It numbers the updates of its book; books[k] is  *)
(* the book after update k.  Only one side is modelled, because the code    *)
(* treats bids and asks alike; a level with quantity 0 does not exist.      *)
EXTENDS Naturals, Sequences, FiniteSets

CONSTANTS
  Venues,          \* the venues the instrument may be listed on
  Prices,          \* price levels
  Quantities,      \* quantities of a level
  Depth,           \* levels of a snapshot (100 in the code)
  Time,            \* the venue's timestamp of each update
  StaleThreshold,  \* stale_stream_recycle_threshold
  MaxUpdates,      \* bound: updates of the venue's book
  MaxFaults        \* bound: faults of the network, the clock and the venue

BinanceVenues == {"binance_perp", "binance_spot"}
PlainVenues == {"okx", "bybit", "hyperliquid"}

ASSUME BookAssumption ==
  /\ Venues \subseteq BinanceVenues \cup PlainVenues
  /\ Prices \subseteq Nat
  /\ Quantities \subseteq Nat /\ 0 \in Quantities
  /\ Depth \in Nat /\ StaleThreshold \in Nat \ {0}
  /\ MaxUpdates \in Nat \ {0} /\ MaxFaults \in Nat

\* Timestamps are coarse but do not run backwards.
ASSUME TimeAssumption ==
  /\ Time \in [1..MaxUpdates -> Nat]
  /\ \A j, k \in 1..MaxUpdates : j <= k => Time[j] <= Time[k]

VARIABLES
  venue,      \* Instrument.exchange and market_type
  candidate,  \* the instrument comes from a candidate supervisor's reconcile
  books,      \* the venue: its book after each update
  sent,       \* the venue: last update its stream has announced
  live,       \* the connection delivers what the venue announces
  queue,      \* events received and not yet processed
  phase,      \* where the consuming task is
  mode,       \* recovery_mode of _consume_forever
  asked,      \* the venue's update when the REST snapshot was requested
  book,       \* LocalOrderBook
  pending,    \* instrument \in _pending_order_book_resyncs
  stale,      \* _consecutive_stale_counts
  observed,   \* _order_book_history and _best_level_history
  known,      \* history: prices the last applied snapshot was complete for
  gaps,       \* history: sequence gaps detected
  conn,       \* history: connections that have ended
  faults

venueVars == <<venue, candidate, books, sent>>
linkVars == <<live, queue, phase, mode, asked>>
bookVars == <<book, observed, known>>
historyVars == <<gaps, conn>>
vars == <<venueVars, linkVars, bookVars, pending, stale, historyVars, faults>>

-----------------------------------------------------------------------------
Levels == [Prices -> Quantities]
Phases == {"init", "down", "buffering", "snapshot", "streaming", "resync"}
Modes == {"none", "order_book", "short_disconnect"}

\* A delta covers the updates prev+1 .. final; a snapshot shows update final;
\* "end" is the _StreamTermination behind the last event of a connection.
Message == [kind : {"delta", "snapshot", "end"}, prev : Nat, final : Nat]
Delta(prev, final) == [kind |-> "delta", prev |-> prev, final |-> final]
Snapshot(at) == [kind |-> "snapshot", prev |-> at, final |-> at]
End == [kind |-> "end", prev |-> 1, final |-> 1]

\* sequence_id is None is 0.
Book == [levels : Levels, sequence_id : Nat, exchange_timestamp : Nat,
         is_synchronized : BOOLEAN, first_delta_after_snapshot : BOOLEAN,
         generation : Nat]

EmptyBook ==
  [levels |-> [p \in Prices |-> 0], sequence_id |-> 0, exchange_timestamp |-> 0,
   is_synchronized |-> FALSE, first_delta_after_snapshot |-> TRUE,
   generation |-> 0]

Now == Len(books)

TypeOK ==
  /\ venue \in Venues /\ candidate \in BOOLEAN
  /\ books \in Seq(Levels) /\ Now \in 1..MaxUpdates
  /\ sent \in 1..Now
  /\ live \in BOOLEAN
  /\ queue \in Seq(Message)
  /\ phase \in Phases /\ mode \in Modes
  /\ asked \in 1..Now
  /\ book \in Book
  /\ pending \in BOOLEAN
  /\ stale \in 0..(StaleThreshold - 1)
  /\ observed \in SUBSET [generation : Nat, gaps : Nat, conn : Nat]
  /\ known \in SUBSET Prices
  /\ gaps \in Nat /\ conn \in Nat /\ faults \in 0..MaxFaults

\* A candidate adapter with order books is one for Binance spot: the dynamic
\* perpetual adapter takes candles only.
Init ==
  /\ venue \in Venues /\ candidate \in BOOLEAN
  /\ candidate => venue = "binance_spot"
  /\ books \in {<<b>> : b \in Levels}
  /\ sent = 1
  /\ live = FALSE /\ queue = <<>> /\ phase = "init" /\ mode = "none" /\ asked = 1
  /\ book = EmptyBook
  /\ pending = FALSE /\ stale = 0
  /\ observed = {} /\ known = {}
  /\ gaps = 0 /\ conn = 0 /\ faults = 0

Fault == faults < MaxFaults /\ faults' = faults + 1

\* requires_stream_order_book_bootstrap: a snapshot needs a delta to bridge it.
Bootstrap == venue \in BinanceVenues

-----------------------------------------------------------------------------
(* The venue                                                               *)

VenueUpdates(p, q) ==
  /\ Now < MaxUpdates
  /\ q # books[Now][p]
  /\ books' = Append(books, [books[Now] EXCEPT ![p] = q])
  /\ UNCHANGED <<venue, candidate, sent, linkVars, bookVars, pending, stale, historyVars, faults>>

\* The stream announces all updates since the last announcement at once.
\* Hyperliquid sends whole books.
VenueAnnounces ==
  /\ sent < Now
  /\ sent' = Now
  /\ queue' = IF ~live THEN queue
              ELSE Append(queue, IF venue = "hyperliquid" THEN Snapshot(Now)
                                 ELSE Delta(sent, Now))
  /\ UNCHANGED <<venue, candidate, books, live, phase, mode, asked, bookVars, pending, stale,
                 historyVars, faults>>

\* The levels a delta carries, and the prices whose level a snapshot of Depth
\* levels determines.
Changed(prev, final) ==
  {p \in Prices : \E k \in prev..final : books[k][p] # books[final][p]}
Determined(at) ==
  {p \in Prices :
     Cardinality({q \in Prices : q > p /\ books[at][q] > 0}) < Depth}

\* exchange_timestamp of an update.  Timestamps are coarse: updates may share
\* one.  Hyperliquid's sequence number is its timestamp, so they differ there.
Stamp(k) == IF venue = "hyperliquid" THEN k ELSE Time[k]

\* The exchange_timestamp of a REST snapshot.  Binance spot sends none and the
\* adapter takes its own clock; Binance perpetual and Bybit send the time of
\* the answer; OKX and Hyperliquid that of the book.
RestTimes(at) ==
  CASE venue = "binance_spot" -> {Time[k] : k \in 1..MaxUpdates}
    [] venue \in {"binance_perp", "bybit"} -> {Time[k] : k \in at..Now}
    [] OTHER -> {Stamp(at)}

-----------------------------------------------------------------------------
(* LocalOrderBook                                                          *)

\* Mutant: a snapshot is taken whatever its age.
AcceptsAnySnapshot(b, at, ts) == TRUE

AcceptsSnapshot(b, at, ts) ==
  b.is_synchronized =>
    /\ ts >= b.exchange_timestamp
    /\ ts = b.exchange_timestamp => at # b.sequence_id

\* Mutant: require_delta_bridge is ignored.
FromSnapshotUnbridged(b, at, ts, bridge) ==
  [b EXCEPT !.levels = [p \in Prices |-> IF p \in Determined(at) THEN books[at][p] ELSE 0],
            !.sequence_id = at, !.exchange_timestamp = ts,
            !.is_synchronized = TRUE, !.first_delta_after_snapshot = TRUE]

FromSnapshot(b, at, ts, bridge) ==
  [b EXCEPT !.levels = [p \in Prices |-> IF p \in Determined(at) THEN books[at][p] ELSE 0],
            !.sequence_id = at, !.exchange_timestamp = ts,
            !.is_synchronized = ~bridge, !.first_delta_after_snapshot = TRUE]

FromDelta(b, m) ==
  [b EXCEPT !.levels = [p \in Prices |-> IF p \in Changed(m.prev, m.final)
                                         THEN books[m.final][p] ELSE b.levels[p]],
            !.sequence_id = m.final, !.exchange_timestamp = Stamp(m.final),
            !.is_synchronized = TRUE, !.first_delta_after_snapshot = FALSE]

Invalidate(b) ==
  [b EXCEPT !.generation = IF b.is_synchronized THEN @ + 1 ELSE @,
            !.is_synchronized = FALSE]

\* _validate_binance, for the first delta after a snapshot and for later ones.
BinanceReplays(b, m) ==
  IF b.first_delta_after_snapshot /\ venue = "binance_perp"
  THEN m.final < b.sequence_id ELSE m.final <= b.sequence_id

\* Mutant: a later perpetual delta is accepted whatever it follows.
BinanceFollowsAnything(b, m) ==
  CASE venue = "binance_spot" ->
         m.prev + 1 <= b.sequence_id + 1 /\ b.sequence_id + 1 <= m.final
    [] venue # "binance_spot" /\ b.first_delta_after_snapshot ->
         m.prev + 1 <= b.sequence_id /\ b.sequence_id <= m.final
    [] OTHER -> TRUE

BinanceFollows(b, m) ==
  CASE venue = "binance_spot" ->
         m.prev + 1 <= b.sequence_id + 1 /\ b.sequence_id + 1 <= m.final
    [] venue # "binance_spot" /\ b.first_delta_after_snapshot ->
         m.prev + 1 <= b.sequence_id /\ b.sequence_id <= m.final
    [] OTHER -> m.prev = b.sequence_id

\* What apply_delta does with a delta: apply it, ignore it, or raise
\* OrderBookOutOfSync.
Connectable(b) ==
  b.sequence_id # 0 /\ (b.is_synchronized \/ b.first_delta_after_snapshot)
Replays(b, m) ==
  CASE Bootstrap -> BinanceReplays(b, m)
    [] venue = "okx" -> m.final = b.sequence_id
    [] OTHER -> m.final <= b.sequence_id
Follows(b, m) ==
  CASE Bootstrap -> BinanceFollows(b, m)
    [] venue = "okx" -> m.prev = b.sequence_id
    [] OTHER -> TRUE

Ignored(b, m) == Connectable(b) /\ Replays(b, m)
Applied(b, m) == Connectable(b) /\ ~Replays(b, m) /\ Follows(b, m)
OutOfSync(b, m) == ~Ignored(b, m) /\ ~Applied(b, m)

-----------------------------------------------------------------------------
(* MarketState                                                             *)

\* _record_order_book.  Old observations that the deques drop, and samples
\* that are not due, only make the set smaller.
Recorded(b) ==
  IF b.is_synchronized /\ \E p \in Prices : b.levels[p] > 0
  THEN observed \cup {[generation |-> b.generation, gaps |-> gaps, conn |-> conn]}
  ELSE observed

\* get_order_book_history and best_level_at show one generation.
Exposed == {o \in observed : o.generation = book.generation}

\* apply_order_book_snapshot.
TakeSnapshot(at, ts, bridge) ==
  IF AcceptsSnapshot(book, at, ts)
  THEN /\ book' = FromSnapshot(book, at, ts, bridge)
       /\ observed' = Recorded(book')
       /\ known' = Determined(at)
  ELSE UNCHANGED bookVars

\* Mutant: the observations of the old generation stay.
InvalidateKeepsHistory ==
  /\ book' = Invalidate(book)
  /\ UNCHANGED <<observed, known>>

InvalidateOrderBook ==
  /\ book' = Invalidate(book)
  /\ observed' = {}
  /\ UNCHANGED known

-----------------------------------------------------------------------------
(* MarketDataSupervisor: start, connect, recover                           *)

\* initialize: every instrument is warmed before a stream is opened.
Initialize(at, ts) ==
  /\ phase = "init"
  /\ phase' = "down"
  /\ TakeSnapshot(at, ts, Bootstrap)
  /\ UNCHANGED <<venueVars, live, queue, mode, asked, pending, stale, historyVars, faults>>

\* reconcile of a candidate supervisor: the book is read among the added
\* symbols' candles and applied with state.apply when all of them are there.
\* Nothing is said of a bridge, so the book is synchronized at once.  A symbol
\* may be removed and added again, whatever its stream is doing by then.
ReconcileCandidate(at, ts) ==
  /\ candidate
  /\ \/ phase = "init" /\ phase' = "down" /\ UNCHANGED faults
     \/ phase # "init" /\ Fault /\ UNCHANGED phase
  /\ TakeSnapshot(at, ts, FALSE)
  /\ UNCHANGED <<venueVars, live, queue, mode, asked, pending, stale, historyVars>>

\* A stream generation begins.  The Binance lane waits for a delta before it
\* asks for a snapshot; the other venues open their stream with one.
Connect ==
  /\ phase = "down" /\ mode = "none"
  /\ live' = TRUE
  /\ phase' = IF Bootstrap THEN "buffering" ELSE "streaming"
  /\ queue' = IF Bootstrap THEN <<>> ELSE <<Snapshot(sent)>>
  /\ UNCHANGED <<venueVars, mode, asked, bookVars, pending, stale, historyVars, faults>>

\* bridge: the delta stays at the head of what is processed after the snapshot.
FirstDelta ==
  /\ phase = "buffering" /\ queue # <<>> /\ Head(queue).kind = "delta"
  /\ phase' = "snapshot" /\ asked' = Now
  /\ UNCHANGED <<venueVars, live, queue, mode, bookVars, pending, stale, historyVars, faults>>

BridgeSnapshot(at, ts) ==
  /\ phase = "snapshot" /\ at >= asked
  /\ phase' = "streaming"
  /\ TakeSnapshot(at, ts, TRUE)
  /\ UNCHANGED <<venueVars, live, queue, mode, asked, pending, stale, historyVars, faults>>

\* Mutant: a short outage is followed by the stream without a snapshot.
RecoverWithoutSnapshot ==
  /\ phase = "down" /\ mode # "none"
  /\ IF pending
     THEN phase' = "resync" /\ asked' = Now /\ UNCHANGED mode
     ELSE mode' = "none" /\ UNCHANGED <<phase, asked>>
  /\ UNCHANGED <<venueVars, live, queue, bookVars, pending, stale, historyVars, faults>>

\* _recover_adapter of an adapter without bootstrap: an order-book recovery
\* asks for the books that had a gap, a reconnect for all of them.  A full
\* recovery does to the book what a reconnect does.
Recover ==
  /\ phase = "down" /\ mode # "none"
  /\ IF mode = "short_disconnect" \/ pending
     THEN phase' = "resync" /\ asked' = Now /\ UNCHANGED mode
     ELSE mode' = "none" /\ UNCHANGED <<phase, asked>>
  /\ UNCHANGED <<venueVars, live, queue, bookVars, pending, stale, historyVars, faults>>

\* _resync_order_book: inside process_event for Binance, whose stream stays
\* open, and before the next stream for the others.
Resync(at, ts) ==
  /\ phase = "resync" /\ at >= asked
  /\ TakeSnapshot(at, ts, Bootstrap)
  /\ phase' = IF Bootstrap THEN "streaming" ELSE "down"
  /\ pending' = (Bootstrap \/ (pending /\ mode # "order_book"))
  /\ mode' = "none"
  /\ UNCHANGED <<venueVars, live, queue, asked, stale, historyVars, faults>>

\* _consume_isolated_lane_forever: the lane ends, the market state stays.
LaneEnds ==
  /\ live' = FALSE /\ queue' = <<>> /\ phase' = "down"
  /\ conn' = conn + 1
  /\ UNCHANGED <<mode, asked, bookVars, pending, stale, gaps>>

\* _consume_forever after any error but a gap: realtime state is invalidated.
StreamEnds ==
  /\ live' = FALSE /\ queue' = <<>> /\ phase' = "down" /\ mode' = "short_disconnect"
  /\ conn' = conn + 1
  /\ InvalidateOrderBook
  /\ UNCHANGED <<asked, pending, gaps>>

RestFails ==
  /\ phase \in {"snapshot", "resync"}
  /\ Fault
  /\ IF Bootstrap THEN LaneEnds ELSE StreamEnds /\ UNCHANGED stale
  /\ UNCHANGED venueVars

\* The critical lane recovers from a long outage: _warm_adapter reads the book
\* first and applies it when all other requests have been answered.
WarmFromCriticalLane(at, ts) ==
  /\ Bootstrap /\ phase # "init"
  /\ Fault
  /\ TakeSnapshot(at, ts, TRUE)
  /\ UNCHANGED <<venueVars, linkVars, pending, stale, historyVars>>

-----------------------------------------------------------------------------
(* process_event                                                           *)

Receives(kind) == phase = "streaming" /\ queue # <<>> /\ Head(queue).kind = kind

ReceiveSnapshot ==
  /\ Receives("snapshot")
  /\ TakeSnapshot(Head(queue).final, Stamp(Head(queue).final), FALSE)
  /\ queue' = Tail(queue)
  /\ UNCHANGED <<venueVars, live, phase, mode, asked, pending, stale, historyVars, faults>>

\* An applied delta that synchronises the book ends a pending resync
\* (_record_order_book_bridge).  The event handler that runs in between reads
\* the market state only.
ApplyDelta ==
  /\ Receives("delta") /\ Applied(book, Head(queue))
  /\ book' = FromDelta(book, Head(queue))
  /\ observed' = Recorded(book')
  /\ pending' = (pending /\ book.is_synchronized)
  /\ queue' = Tail(queue) /\ stale' = 0
  /\ UNCHANGED <<venueVars, live, phase, mode, asked, known, historyVars, faults>>

IgnoreDelta ==
  /\ Receives("delta") /\ Ignored(book, Head(queue))
  /\ queue' = Tail(queue) /\ stale' = 0
  /\ UNCHANGED <<venueVars, live, phase, mode, asked, bookVars, pending, historyVars, faults>>

\* A gap: the Binance lane asks for a snapshot in place, the other venues give
\* the connection up (_OrderBookStreamGap).
DeltaOutOfSync ==
  /\ Receives("delta") /\ OutOfSync(book, Head(queue))
  /\ InvalidateOrderBook
  /\ gaps' = gaps + 1 /\ stale' = 0
  /\ \/ /\ Bootstrap
        /\ phase' = "resync" /\ asked' = Now /\ queue' = Tail(queue)
        /\ UNCHANGED <<live, mode, pending, conn>>
     \/ /\ ~Bootstrap
        /\ live' = FALSE /\ queue' = <<>> /\ phase' = "down" /\ mode' = "order_book"
        /\ pending' = TRUE /\ conn' = conn + 1
        /\ UNCHANGED asked
  /\ UNCHANGED <<venueVars, faults>>

\* IngestionPolicy refuses an event for its timestamp.  A series of old
\* deltas recycles the stream, except on the Binance lane.
RejectEvent(tooOld) ==
  /\ phase = "streaming" /\ queue # <<>> /\ Head(queue).kind # "end"
  /\ Fault
  /\ LET counted == tooOld /\ ~Bootstrap /\ Head(queue).kind = "delta" IN
     \/ /\ counted /\ stale + 1 >= StaleThreshold
        /\ stale' = 0 /\ StreamEnds
     \/ /\ counted => stale + 1 < StaleThreshold
        /\ stale' = IF counted THEN stale + 1 ELSE stale
        /\ queue' = Tail(queue)
        /\ UNCHANGED <<live, phase, mode, asked, bookVars, pending, historyVars>>
  /\ UNCHANGED venueVars

\* The events before the end of a connection are processed first.
ReceiveEnd ==
  /\ phase \in {"buffering", "streaming"} /\ queue # <<>> /\ Head(queue).kind = "end"
  /\ IF Bootstrap THEN LaneEnds ELSE StreamEnds /\ UNCHANGED stale
  /\ UNCHANGED <<venueVars, faults>>

-----------------------------------------------------------------------------
(* What the network and the other instruments of the adapter do            *)

Disconnect ==
  /\ live
  /\ Fault
  /\ live' = FALSE /\ queue' = Append(queue, End)
  /\ UNCHANGED <<venueVars, phase, mode, asked, bookVars, pending, stale, historyVars>>

\* The venue repeats an event.
Redeliver ==
  /\ phase = "streaming" /\ queue # <<>> /\ Head(queue).kind # "end"
  /\ Fault
  /\ queue' = <<Head(queue)>> \o queue
  /\ UNCHANGED <<venueVars, live, phase, mode, asked, bookVars, pending, stale, historyVars>>

\* The connection is shared.  On Binance any failure ends the lane.  On the
\* other venues another instrument's gap closes the stream without touching
\* this book; any other error, of the event handler, a candle backfill, another
\* snapshot or the next connection, invalidates it.
OtherInstrumentFails ==
  /\ Fault
  /\ \/ /\ Bootstrap /\ phase \in {"buffering", "snapshot", "streaming", "resync"}
        /\ LaneEnds
     \/ /\ ~Bootstrap /\ phase = "streaming"
        /\ live' = FALSE /\ queue' = <<>> /\ phase' = "down" /\ mode' = "order_book"
        /\ conn' = conn + 1
        /\ UNCHANGED <<asked, bookVars, pending, stale, gaps>>
     \/ /\ ~Bootstrap /\ phase \in {"down", "resync", "streaming"}
        /\ StreamEnds /\ UNCHANGED stale
  /\ UNCHANGED venueVars

-----------------------------------------------------------------------------
SnapshotStep(at, ts) ==
  \/ Initialize(at, ts) \/ BridgeSnapshot(at, ts) \/ Resync(at, ts)
  \/ WarmFromCriticalLane(at, ts) \/ ReconcileCandidate(at, ts)

EventStep ==
  \/ ReceiveSnapshot \/ ApplyDelta \/ IgnoreDelta \/ DeltaOutOfSync
  \/ \E tooOld \in BOOLEAN : RejectEvent(tooOld)
  \/ ReceiveEnd

Next ==
  \/ \E p \in Prices, q \in Quantities : VenueUpdates(p, q)
  \/ VenueAnnounces
  \/ \E at \in 1..Now : \E ts \in RestTimes(at) : SnapshotStep(at, ts)
  \/ Connect \/ FirstDelta \/ Recover \/ RestFails
  \/ EventStep
  \/ Disconnect \/ Redeliver \/ OtherInstrumentFails

Spec == Init /\ [][Next]_vars

-----------------------------------------------------------------------------
(* Properties                                                              *)

\* A book that claims to be synchronized shows the venue's book after update
\* sequence_id: exactly, for the prices its last snapshot was complete for, and
\* with no level that is not there for the others.  (LocalOrderBook.apply_delta
\* accepts only what connects to its state.)
SynchronizedBookIsExact ==
  book.is_synchronized =>
    /\ \A p \in known : book.levels[p] = books[book.sequence_id][p]
    /\ \A p \in Prices : book.levels[p] \in {0, books[book.sequence_id][p]}

\* A book that stays synchronized never shows a state the venue had replaced
\* at an earlier time, whatever late snapshots and repeated events arrive.
\* (apply_snapshot compares timestamps, apply_delta sequence numbers.)  The one
\* step exempt is the first delta on a candidate's unbridged book: that book bears
\* the adapter's clock, the delta the venue's.
NeverGoesBack ==
  [][book.is_synchronized /\ book'.is_synchronized
       /\ ~(candidate /\ book.first_delta_after_snapshot)
     => book'.exchange_timestamp >= book.exchange_timestamp]_vars

\* "Confirm gaps invalidate the book and its generation-scoped history
\* immediately": no observation a strategy can read is from before a gap.
NoObservationFromBeforeAGap == \A o \in Exposed : o.gaps = gaps

\* A Binance book that start-up, the depth lane, a resync or a recovery has read
\* is not usable until a delta has bridged it (apply_order_book_snapshot withholds
\* it).  A candidate's book is the exception: reconcile applies it unbridged.
BridgedBeforeUse ==
  Bootstrap /\ ~candidate /\ book.is_synchronized => ~book.first_delta_after_snapshot

\* Events are consumed only for a book that is synchronized, or on Binance one
\* that a next delta can still bridge: recovery completes before the stream
\* resumes, after every sequence of gaps, outages and failed requests.
RewarmedBeforeStreaming ==
  phase = "streaming" =>
    book.is_synchronized \/ (Bootstrap /\ book.first_delta_after_snapshot)
=============================================================================
