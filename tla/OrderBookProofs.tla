-------------------------- MODULE OrderBookProofs --------------------------
(* Proofs about OrderBook, for every set of venues, prices and quantities,  *)
(* every depth and every number of updates and faults.                      *)
EXTENDS OrderBook, TLAPS

USE BookAssumption

-----------------------------------------------------------------------------
(* The inductive invariant, in parts                                       *)

\* Events in flight are about updates the venue has made.
MessagesAreAnnounced ==
  \A i \in 1..Len(queue) :
    /\ queue[i].prev \in 1..Now /\ queue[i].final \in queue[i].prev..Now
    /\ Bootstrap => queue[i].kind # "snapshot"
    /\ venue = "hyperliquid" => queue[i].kind # "delta"

\* Sequence and timestamp of the book.  The timestamp of a candidate's unbridged
\* snapshot is the adapter's clock.
BookIsPlaced ==
  /\ book.sequence_id \in 0..Now
  /\ book.is_synchronized => book.sequence_id > 0
  /\ book.is_synchronized /\ venue # "bybit"
       /\ ~(candidate /\ book.first_delta_after_snapshot) =>
       book.exchange_timestamp = Stamp(book.sequence_id)

\* What each phase of the consuming task presupposes of the book.
PhasesPresuppose ==
  /\ phase \in {"buffering", "snapshot"} => Bootstrap
  /\ ~Bootstrap /\ phase = "down" /\ mode = "none" => book.is_synchronized
  /\ ~Bootstrap /\ phase = "down" /\ mode = "order_book" /\ ~pending =>
       book.is_synchronized

\* Every kept observation was made since the last gap.
ObservationsAreRecent == \A o \in observed : o.gaps = gaps

IInv ==
  /\ TypeOK
  /\ MessagesAreAnnounced
  /\ BookIsPlaced
  /\ PhasesPresuppose
  /\ ObservationsAreRecent
  /\ BridgedBeforeUse
  /\ RewarmedBeforeStreaming

-----------------------------------------------------------------------------
(* The operations on the book                                              *)

LEMMA StampType ==
  ASSUME TypeOK, NEW k \in 1..Now
  PROVE  Stamp(k) \in Nat
BY TimeAssumption DEF TypeOK, Stamp

LEMMA StampMonotone ==
  ASSUME TypeOK, NEW j \in 1..Now, NEW k \in 1..Now, j <= k
  PROVE  Stamp(j) <= Stamp(k)
BY TimeAssumption DEF TypeOK, Stamp

\* Every time a snapshot may carry.
LEMMA RestTimesType ==
  ASSUME TypeOK, NEW at \in 1..Now, NEW ts \in RestTimes(at)
  PROVE  ts \in Nat /\ (~Bootstrap /\ venue # "bybit" => ts = Stamp(at))
<1>1. CASE venue = "binance_spot"
  BY <1>1, TimeAssumption DEF TypeOK, RestTimes, Bootstrap, BinanceVenues
<1>2. CASE venue \in {"binance_perp", "bybit"}
  BY <1>2, TimeAssumption DEF TypeOK, RestTimes, Bootstrap, BinanceVenues
<1>3. CASE venue \notin {"binance_spot", "binance_perp", "bybit"}
  <2>1. ts = Stamp(at)
    BY <1>3 DEF RestTimes
  <2> QED BY <2>1, StampType
<1> QED BY <1>1, <1>2, <1>3

LEMMA EmptyBookType == EmptyBook \in Book
BY DEF EmptyBook, Book, Levels

LEMMA FromSnapshotType ==
  ASSUME TypeOK, NEW at \in 1..Now, NEW ts \in Nat, NEW bridge \in BOOLEAN
  PROVE  FromSnapshot(book, at, ts, bridge) \in Book
<1> DEFINE lv == [p \in Prices |-> IF p \in Determined(at) THEN books[at][p] ELSE 0]
<1>1. books[at] \in Levels
  BY DEF TypeOK, Now
<1>2. lv \in Levels
  BY <1>1 DEF Levels
<1> HIDE DEF lv
<1>3. book \in Book /\ at \in Nat /\ (~bridge) \in BOOLEAN
  BY DEF TypeOK, Now
<1>4. [book EXCEPT !.levels = lv, !.sequence_id = at, !.exchange_timestamp = ts,
                   !.is_synchronized = ~bridge, !.first_delta_after_snapshot = TRUE]
        \in Book
  BY <1>2, <1>3 DEF Book
<1> QED BY <1>4 DEF FromSnapshot, lv

LEMMA FromSnapshotLevels ==
  ASSUME TypeOK, NEW at, NEW ts, NEW bridge \in BOOLEAN, NEW p \in Prices
  PROVE  FromSnapshot(book, at, ts, bridge).levels[p] =
           IF p \in Determined(at) THEN books[at][p] ELSE 0
<1>1. book \in Book
  BY DEF TypeOK
<1> QED BY <1>1 DEF FromSnapshot, Book

LEMMA FromDeltaType ==
  ASSUME TypeOK, NEW m, m.final \in 1..Now
  PROVE  FromDelta(book, m) \in Book
<1> DEFINE lv == [p \in Prices |-> IF p \in Changed(m.prev, m.final)
                                   THEN books[m.final][p] ELSE book.levels[p]]
<1>1. books[m.final] \in Levels /\ book.levels \in Levels
  BY DEF TypeOK, Now, Book
<1>2. lv \in Levels
  BY <1>1 DEF Levels
<1> HIDE DEF lv
<1>3. book \in Book /\ m.final \in Nat /\ Stamp(m.final) \in Nat
  BY StampType DEF TypeOK, Now
<1>4. [book EXCEPT !.levels = lv, !.sequence_id = m.final, !.exchange_timestamp = Stamp(m.final),
                   !.is_synchronized = TRUE, !.first_delta_after_snapshot = FALSE]
        \in Book
  BY <1>2, <1>3 DEF Book
<1> QED BY <1>4 DEF FromDelta, lv

LEMMA FromDeltaFields ==
  ASSUME TypeOK, NEW m
  PROVE  LET n == FromDelta(book, m) IN
         /\ n.sequence_id = m.final /\ n.exchange_timestamp = Stamp(m.final)
         /\ n.is_synchronized = TRUE /\ n.first_delta_after_snapshot = FALSE
         /\ n.generation = book.generation
<1>1. book \in Book
  BY DEF TypeOK
<1> QED BY <1>1 DEF FromDelta, Book

LEMMA FromDeltaLevels ==
  ASSUME TypeOK, NEW m, NEW p \in Prices
  PROVE  FromDelta(book, m).levels[p] =
           IF p \in Changed(m.prev, m.final) THEN books[m.final][p] ELSE book.levels[p]
<1>1. book \in Book
  BY DEF TypeOK
<1> QED BY <1>1 DEF FromDelta, Book

LEMMA InvalidateType ==
  ASSUME TypeOK
  PROVE  /\ Invalidate(book) \in Book
         /\ Invalidate(book).is_synchronized = FALSE
         /\ Invalidate(book).sequence_id = book.sequence_id
         /\ Invalidate(book).exchange_timestamp = book.exchange_timestamp
         /\ Invalidate(book).levels = book.levels
<1>1. book \in Book
  BY DEF TypeOK
<1>2. book.generation \in Nat /\ book.generation + 1 \in Nat
  BY <1>1 DEF Book
<1> QED BY <1>1, <1>2 DEF Invalidate, Book

LEMMA RecordedType ==
  ASSUME TypeOK, ObservationsAreRecent, NEW n \in Book
  PROVE  /\ Recorded(n) \in SUBSET [generation : Nat, gaps : Nat, conn : Nat]
         /\ \A o \in Recorded(n) : o.gaps = gaps
<1>1. n.generation \in Nat
  BY DEF Book
<1> QED BY <1>1 DEF TypeOK, ObservationsAreRecent, Recorded

LEMMA DeterminedType == ASSUME NEW at PROVE Determined(at) \in SUBSET Prices
BY DEF Determined

-----------------------------------------------------------------------------
(* Steps of the book.  BookGood collects what every step must re-establish *)
(* about the book itself.                                                  *)

BookGood ==
  /\ book \in Book /\ known \in SUBSET Prices
  /\ observed \in SUBSET [generation : Nat, gaps : Nat, conn : Nat]
  /\ BookIsPlaced /\ ObservationsAreRecent /\ BridgedBeforeUse

\* A snapshot the venue has served, applied with or without a bridge.
LEMMA SnapshotTaken ==
  ASSUME IInv, NEW at \in 1..Now, NEW ts \in Nat, NEW bridge \in BOOLEAN,
         ~Bootstrap /\ venue # "bybit" => ts = Stamp(at),
         Bootstrap /\ ~candidate => bridge,
         TakeSnapshot(at, ts, bridge), UNCHANGED <<venue, candidate, books, gaps>>
  PROVE  /\ BookGood'
         /\ ~bridge => book'.is_synchronized
         /\ book'.is_synchronized \/ book'.first_delta_after_snapshot
         /\ Now' = Now /\ Bootstrap' = Bootstrap
<1>1. TypeOK /\ book \in Book /\ Now \in Nat /\ ts \in Nat
  BY DEF IInv, TypeOK, Now
<1>2. Now' = Now /\ Bootstrap' = Bootstrap
  BY DEF Now, Bootstrap
<1>3. CASE ~AcceptsSnapshot(book, at, ts)
  <2>1. UNCHANGED bookVars /\ book.is_synchronized
    BY <1>3 DEF TakeSnapshot, AcceptsSnapshot
  <2> QED BY <1>1, <1>2, <2>1 DEF bookVars, BookGood, IInv, TypeOK, BookIsPlaced,
             ObservationsAreRecent, BridgedBeforeUse, Stamp
<1>4. CASE AcceptsSnapshot(book, at, ts)
  <2> DEFINE n == FromSnapshot(book, at, ts, bridge)
  <2>1. book' = n /\ observed' = Recorded(n) /\ known' = Determined(at)
    BY <1>4 DEF TakeSnapshot
  <2>2. n \in Book
    BY <1>1, FromSnapshotType
  <2>3. /\ n.sequence_id = at /\ n.exchange_timestamp = ts
        /\ n.is_synchronized = ~bridge /\ n.first_delta_after_snapshot = TRUE
    BY <1>1 DEF FromSnapshot, Book
  <2> HIDE DEF n
  <2>4. BookIsPlaced'
    <3>1. book'.sequence_id \in 0..Now' /\ book'.sequence_id > 0
      BY <1>1, <1>2, <2>1, <2>3
    <3>2. ASSUME book'.is_synchronized, venue' # "bybit",
                 ~(candidate' /\ book'.first_delta_after_snapshot)
          PROVE  book'.exchange_timestamp = Stamp(book.sequence_id)'
      <4>1. ~Bootstrap /\ venue # "bybit"
        BY <2>1, <2>3, <3>2
      <4>2. ts = Stamp(at)
        BY <4>1
      <4> QED BY <2>1, <2>3, <4>2 DEF Stamp
    <3> QED BY <3>1, <3>2 DEF BookIsPlaced
  <2>5. BridgedBeforeUse'
    BY <1>2, <2>1, <2>3 DEF BridgedBeforeUse
  <2>6. /\ observed' \in SUBSET [generation : Nat, gaps : Nat, conn : Nat]
        /\ ObservationsAreRecent'
    BY <1>1, <2>1, <2>2, RecordedType DEF IInv, ObservationsAreRecent
  <2> QED BY <1>2, <2>1, <2>2, <2>3, <2>4, <2>5, <2>6, DeterminedType DEF BookGood
<1> QED BY <1>3, <1>4

\* A delta whose last update the venue has made.
LEMMA DeltaApplied ==
  ASSUME IInv, NEW m, m.final \in 1..Now,
         book' = FromDelta(book, m), observed' = Recorded(book'),
         UNCHANGED <<known, venue, candidate, books, gaps>>
  PROVE  BookGood' /\ book'.is_synchronized
<1>1. TypeOK /\ Now \in Nat
  BY DEF IInv, TypeOK, Now
<1>2. Now' = Now /\ Bootstrap' = Bootstrap
  BY DEF Now, Bootstrap
<1>3. book' \in Book
  BY <1>1, FromDeltaType
<1>4. /\ book'.sequence_id = m.final /\ book'.exchange_timestamp = Stamp(m.final)
      /\ book'.is_synchronized = TRUE /\ book'.first_delta_after_snapshot = FALSE
  BY <1>1, FromDeltaFields
<1>5. BookIsPlaced'
  BY <1>1, <1>2, <1>4 DEF BookIsPlaced, Stamp
<1>6. BridgedBeforeUse'
  BY <1>4 DEF BridgedBeforeUse
<1>7. /\ observed' \in SUBSET [generation : Nat, gaps : Nat, conn : Nat]
      /\ ObservationsAreRecent'
  BY <1>1, <1>3, RecordedType DEF IInv, ObservationsAreRecent
<1> QED BY <1>1, <1>3, <1>4, <1>5, <1>6, <1>7 DEF BookGood, TypeOK

\* invalidate_order_book, whether or not a gap is counted with it.
LEMMA BookInvalidated ==
  ASSUME IInv, InvalidateOrderBook, UNCHANGED <<venue, candidate, books>>
  PROVE  BookGood'
<1>1. TypeOK
  BY DEF IInv
<1>2. Now' = Now /\ Bootstrap' = Bootstrap
  BY DEF Now, Bootstrap
<1>3. /\ book' \in Book /\ book'.is_synchronized = FALSE
      /\ book'.sequence_id = book.sequence_id
      /\ book'.exchange_timestamp = book.exchange_timestamp
  BY <1>1, InvalidateType DEF InvalidateOrderBook
<1>4. BookIsPlaced'
  BY <1>2, <1>3 DEF IInv, BookIsPlaced, Stamp
<1>5. BridgedBeforeUse'
  BY <1>3 DEF BridgedBeforeUse
<1> QED BY <1>1, <1>3, <1>4, <1>5 DEF InvalidateOrderBook, BookGood, TypeOK,
           ObservationsAreRecent

\* A step that leaves the book alone.
LEMMA BookUntouched ==
  ASSUME IInv, UNCHANGED <<bookVars, venue, candidate, books, gaps>>
  PROVE  BookGood'
<1>1. Now' = Now /\ Bootstrap' = Bootstrap
  BY DEF Now, Bootstrap
<1> QED BY <1>1 DEF bookVars, IInv, TypeOK, BookGood, BookIsPlaced, Stamp,
           ObservationsAreRecent, BridgedBeforeUse

-----------------------------------------------------------------------------
(* The queue of events                                                     *)

QueueGood == queue \in Seq(Message) /\ MessagesAreAnnounced

LEMMA HeadIsAnnounced ==
  ASSUME TypeOK, MessagesAreAnnounced, queue # <<>>
  PROVE  /\ Head(queue) \in Message
         /\ Head(queue).prev \in 1..Now /\ Head(queue).final \in Head(queue).prev..Now
         /\ Head(queue).final \in 1..Now
         /\ Bootstrap => Head(queue).kind # "snapshot"
         /\ venue = "hyperliquid" => Head(queue).kind # "delta"
<1>1. queue \in Seq(Message) /\ Now \in Nat
  BY DEF TypeOK, Now
<1>2. Len(queue) > 0 /\ Head(queue) = queue[1] /\ 1 \in 1..Len(queue)
  BY <1>1
<1> QED BY <1>1, <1>2 DEF MessagesAreAnnounced

LEMMA TailIsGood ==
  ASSUME TypeOK, MessagesAreAnnounced, queue # <<>>, queue' = Tail(queue),
         UNCHANGED <<venue, books>>
  PROVE  QueueGood'
<1>1. queue \in Seq(Message) /\ Now' = Now /\ Bootstrap' = Bootstrap
  BY DEF TypeOK, Now, Bootstrap
<1>2. queue' \in Seq(Message) /\ Len(queue') = Len(queue) - 1
  BY <1>1
<1>3. \A i \in 1..Len(queue') : queue'[i] = queue[i + 1] /\ i + 1 \in 1..Len(queue)
  BY <1>1, <1>2
<1> QED BY <1>1, <1>2, <1>3 DEF QueueGood, MessagesAreAnnounced

LEMMA AppendIsGood ==
  ASSUME TypeOK, MessagesAreAnnounced, NEW m \in Message,
         m.prev \in 1..Now, m.final \in m.prev..Now, Bootstrap => m.kind # "snapshot",
         venue = "hyperliquid" => m.kind # "delta",
         queue' = Append(queue, m), UNCHANGED <<venue, books>>
  PROVE  QueueGood'
<1>1. queue \in Seq(Message) /\ Now' = Now /\ Bootstrap' = Bootstrap
  BY DEF TypeOK, Now, Bootstrap
<1>2. queue' \in Seq(Message) /\ Len(queue') = Len(queue) + 1
  BY <1>1
<1>3. \A i \in 1..Len(queue') : \/ i \in 1..Len(queue) /\ queue'[i] = queue[i]
                                \/ queue'[i] = m
  BY <1>1, <1>2
<1> QED BY <1>1, <1>2, <1>3 DEF QueueGood, MessagesAreAnnounced

LEMMA RepeatIsGood ==
  ASSUME TypeOK, MessagesAreAnnounced, queue # <<>>,
         queue' = <<Head(queue)>> \o queue, UNCHANGED <<venue, books>>
  PROVE  QueueGood'
<1>1. queue \in Seq(Message) /\ Now' = Now /\ Bootstrap' = Bootstrap
  BY DEF TypeOK, Now, Bootstrap
<1>2. Head(queue) = queue[1] /\ queue[1] \in Message /\ Len(queue) > 0
  BY <1>1
<1>3. queue' \in Seq(Message) /\ Len(queue') = Len(queue) + 1
  BY <1>1, <1>2
<1>4. \A i \in 1..Len(queue') : \E j \in 1..Len(queue) : queue'[i] = queue[j]
  <2>1. queue'[1] = queue[1]
    BY <1>1, <1>2
  <2>2. \A i \in 2..Len(queue') : queue'[i] = queue[i - 1] /\ i - 1 \in 1..Len(queue)
    BY <1>1, <1>2, <1>3
  <2> QED BY <1>1, <1>2, <1>3, <2>1, <2>2
<1> QED BY <1>1, <1>3, <1>4 DEF QueueGood, MessagesAreAnnounced

LEMMA QueueKept ==
  ASSUME TypeOK, MessagesAreAnnounced, UNCHANGED <<queue, venue, books>>
  PROVE  QueueGood'
<1>1. Now' = Now /\ Bootstrap' = Bootstrap
  BY DEF Now, Bootstrap
<1> QED BY <1>1 DEF TypeOK, QueueGood, MessagesAreAnnounced

LEMMA QueueDropped ==
  ASSUME queue' = <<>> PROVE QueueGood'
BY DEF QueueGood, MessagesAreAnnounced

-----------------------------------------------------------------------------
(* The rest of the state                                                   *)

\* What TypeOK says of the variables that are neither the book nor the queue.
LinkType ==
  /\ venue \in Venues /\ candidate \in BOOLEAN
  /\ books \in Seq(Levels) /\ Now \in 1..MaxUpdates
  /\ sent \in 1..Now
  /\ live \in BOOLEAN
  /\ phase \in Phases /\ mode \in Modes
  /\ asked \in 1..Now
  /\ pending \in BOOLEAN
  /\ stale \in 0..(StaleThreshold - 1)
  /\ gaps \in Nat /\ conn \in Nat /\ faults \in 0..MaxFaults

LEMMA InvParts ==
  IInv <=> LinkType /\ QueueGood /\ BookGood /\ PhasesPresuppose /\ RewarmedBeforeStreaming
BY DEF IInv, LinkType, QueueGood, BookGood, TypeOK

\* A step that leaves the venue alone.
LEMMA VenueKept ==
  ASSUME IInv, UNCHANGED venueVars
  PROVE  /\ UNCHANGED <<venue, candidate, books, sent>>
         /\ Now' = Now /\ Bootstrap' = Bootstrap
         /\ venue' \in Venues /\ candidate' \in BOOLEAN /\ books' \in Seq(Levels)
         /\ Now' \in 1..MaxUpdates /\ sent' \in 1..Now'
         /\ Now \in Nat /\ Now \in 1..Now
BY DEF venueVars, Now, Bootstrap, IInv, TypeOK

LEMMA FaultType == ASSUME IInv, Fault PROVE faults' \in 0..MaxFaults
BY DEF IInv, TypeOK, Fault

-----------------------------------------------------------------------------
(* The invariant                                                           *)

\* Before the first snapshot everything is as the invariant says.
LEMMA InvInit == Init => IInv
<1> SUFFICES ASSUME Init PROVE IInv
  OBVIOUS
<1>1. PICK b \in Levels : books = <<b>>
  BY DEF Init
<1>2. books \in Seq(Levels) /\ Now = 1
  BY <1>1 DEF Now
<1>b. live \in BOOLEAN /\ pending \in BOOLEAN /\ candidate \in BOOLEAN
  BY Zenon DEF Init
<1>n. /\ venue \in Venues /\ sent = 1 /\ phase = "init" /\ mode = "none" /\ asked = 1
      /\ stale = 0 /\ gaps = 0 /\ conn = 0 /\ faults = 0
  BY Zenon DEF Init
<1>3. LinkType
  BY <1>2, <1>b, <1>n DEF LinkType, Phases, Modes
<1>4. QueueGood
  BY DEF Init, QueueGood, MessagesAreAnnounced
<1>5. book \in Book /\ book.sequence_id = 0 /\ book.exchange_timestamp = 0
      /\ book.is_synchronized = FALSE
  BY EmptyBookType DEF Init, EmptyBook
<1>6. BookGood
  BY <1>2, <1>5
     DEF Init, BookGood, BookIsPlaced, ObservationsAreRecent, BridgedBeforeUse
<1>7. PhasesPresuppose /\ RewarmedBeforeStreaming
  BY DEF Init, PhasesPresuppose, RewarmedBeforeStreaming
<1> QED BY <1>3, <1>4, <1>6, <1>7, InvParts

\* The venue's own steps: books[1..Now] never changes again.
LEMMA VenueInv ==
  ASSUME IInv,
         \/ \E p \in Prices, q \in Quantities : VenueUpdates(p, q)
         \/ VenueAnnounces
  PROVE  IInv'
<1>t. IInv' <=> (LinkType /\ QueueGood /\ BookGood /\ PhasesPresuppose
                 /\ RewarmedBeforeStreaming)'
  BY DEF IInv, LinkType, QueueGood, BookGood, TypeOK
<1>i. TypeOK /\ MessagesAreAnnounced /\ Now \in Nat
  BY DEF IInv, TypeOK, Now
<1>1. ASSUME NEW p \in Prices, NEW q \in Quantities, VenueUpdates(p, q) PROVE IInv'
  <2>1. books[Now] \in Levels
    BY <1>i DEF TypeOK, Now
  <2>2. [books[Now] EXCEPT ![p] = q] \in Levels
    BY <2>1 DEF Levels
  <2>3. books' \in Seq(Levels) /\ Now' = Now + 1 /\ Now < MaxUpdates
    BY <1>1, <1>i, <2>2 DEF VenueUpdates, TypeOK, Now
  <2>4. UNCHANGED <<venue, candidate, sent, linkVars, bookVars, pending, stale, historyVars, faults>>
    BY <1>1 DEF VenueUpdates
  <2>5. LinkType'
    BY <1>i, <2>3, <2>4 DEF LinkType, TypeOK, linkVars, historyVars
  <2>6. QueueGood'
    <3>1. queue' = queue /\ venue' = venue /\ Bootstrap' = Bootstrap
      BY <2>4 DEF linkVars, Bootstrap
    <3>2. \A k \in 1..Now : k \in 1..Now' /\ \A l \in k..Now : l \in k..Now'
      BY <1>i, <2>3
    <3>3. MessagesAreAnnounced'
      BY <1>i, <3>1, <3>2 DEF MessagesAreAnnounced
    <3> QED BY <1>i, <3>1, <3>3 DEF QueueGood, TypeOK
  <2>7. BookGood'
    BY <1>i, <2>3, <2>4
       DEF BookGood, IInv, TypeOK, BookIsPlaced, ObservationsAreRecent,
       BridgedBeforeUse, Bootstrap, Stamp, bookVars, historyVars
  <2>8. PhasesPresuppose' /\ RewarmedBeforeStreaming'
    BY <2>4
       DEF IInv, PhasesPresuppose, RewarmedBeforeStreaming, Bootstrap, linkVars,
       bookVars
  <2> QED BY <1>t, <2>5, <2>6, <2>7, <2>8
<1>2. CASE VenueAnnounces
  <2>1. UNCHANGED <<venue, candidate, books, live, phase, mode, asked, bookVars, pending,
                    stale, historyVars, faults>>
        /\ sent' = Now /\ Now' = Now
    BY <1>2 DEF VenueAnnounces, Now
  <2>2. LinkType'
    BY <1>i, <2>1 DEF LinkType, TypeOK, historyVars
  <2>3. QueueGood'
    <3>1. CASE ~live
      BY <1>2, <1>i, <3>1, QueueKept DEF VenueAnnounces
    <3>2. CASE live /\ venue = "hyperliquid"
      <4>1. /\ Snapshot(Now) \in Message /\ Snapshot(Now).prev = Now
            /\ Snapshot(Now).final = Now /\ Snapshot(Now).kind = "snapshot"
        BY <1>i DEF Snapshot, Message
      <4>2. ~Bootstrap /\ Now \in 1..Now
        BY <1>i, <3>2 DEF Bootstrap, BinanceVenues, TypeOK
      <4> QED BY <1>2, <1>i, <3>2, <4>1, <4>2, AppendIsGood DEF VenueAnnounces
    <3>3. CASE live /\ venue # "hyperliquid"
      <4>1. sent \in 1..Now
        BY <1>i DEF TypeOK
      <4>2. /\ Delta(sent, Now) \in Message /\ Delta(sent, Now).prev = sent
            /\ Delta(sent, Now).final = Now /\ Delta(sent, Now).kind # "snapshot"
        BY <1>i, <4>1 DEF Delta, Message
      <4> QED BY <1>2, <1>i, <3>3, <4>1, <4>2, AppendIsGood DEF VenueAnnounces
    <3> QED BY <3>1, <3>2, <3>3
  <2>4. BookGood'
    BY <2>1, BookUntouched DEF historyVars
  <2>5. PhasesPresuppose' /\ RewarmedBeforeStreaming'
    BY <2>1 DEF IInv, PhasesPresuppose, RewarmedBeforeStreaming, Bootstrap, bookVars
  <2> QED BY <1>t, <2>2, <2>3, <2>4, <2>5
<1> QED BY <1>1, <1>2

\* Snapshots, whoever asked for them.
LEMMA SnapshotInv ==
  ASSUME IInv, NEW at \in 1..Now, NEW ts \in RestTimes(at), SnapshotStep(at, ts)
  PROVE  IInv'
<1>t. IInv' <=> (LinkType /\ QueueGood /\ BookGood /\ PhasesPresuppose
                 /\ RewarmedBeforeStreaming)'
  BY DEF IInv, LinkType, QueueGood, BookGood, TypeOK
<1>i. TypeOK /\ MessagesAreAnnounced /\ Now \in Nat /\ LinkType /\ PhasesPresuppose
      /\ RewarmedBeforeStreaming
  BY InvParts DEF IInv, TypeOK, Now
<1>s. ts \in Nat /\ (~Bootstrap /\ venue # "bybit" => ts = Stamp(at))
  BY <1>i, RestTimesType
<1>b. Bootstrap \in BOOLEAN
  BY DEF Bootstrap
<1>1. CASE Initialize(at, ts)
  <2>1. /\ TakeSnapshot(at, ts, Bootstrap) /\ UNCHANGED venueVars /\ phase' = "down"
        /\ UNCHANGED <<live, queue, mode, asked, pending, stale, gaps, conn, faults>>
        /\ phase = "init"
    BY <1>1 DEF Initialize, historyVars
  <2>2. /\ UNCHANGED <<venue, candidate, books, sent>> /\ Now' = Now /\ Bootstrap' = Bootstrap
    BY <2>1, VenueKept
  <2>3. BookGood' /\ (~Bootstrap => book'.is_synchronized)
    BY <1>s, <1>b, <2>1, <2>2, SnapshotTaken
  <2>4. LinkType'
    BY <1>i, <2>1, <2>2 DEF LinkType, Phases
  <2>5. QueueGood'
    BY <1>i, <2>1, <2>2, QueueKept
  <2>6. PhasesPresuppose' /\ RewarmedBeforeStreaming'
    BY <1>i, <2>1, <2>2, <2>3 DEF PhasesPresuppose, RewarmedBeforeStreaming
  <2> QED BY <1>t, <2>3, <2>4, <2>5, <2>6
<1>2. CASE BridgeSnapshot(at, ts)
  <2>1. /\ TakeSnapshot(at, ts, TRUE) /\ UNCHANGED venueVars /\ phase' = "streaming"
        /\ UNCHANGED <<live, queue, mode, asked, pending, stale, gaps, conn, faults>>
        /\ Bootstrap
    BY <1>2, <1>i DEF BridgeSnapshot, historyVars, PhasesPresuppose
  <2>2. /\ UNCHANGED <<venue, candidate, books, sent>> /\ Now' = Now /\ Bootstrap' = Bootstrap
    BY <2>1, VenueKept
  <2>3. BookGood' /\ (book'.is_synchronized \/ book'.first_delta_after_snapshot)
    BY <1>s, <2>1, <2>2, SnapshotTaken
  <2>4. LinkType'
    BY <1>i, <2>1, <2>2 DEF LinkType, Phases
  <2>5. QueueGood'
    BY <1>i, <2>1, <2>2, QueueKept
  <2>6. PhasesPresuppose' /\ RewarmedBeforeStreaming'
    BY <1>i, <2>1, <2>2, <2>3 DEF PhasesPresuppose, RewarmedBeforeStreaming
  <2> QED BY <1>t, <2>3, <2>4, <2>5, <2>6
<1>3. CASE Resync(at, ts)
  <2>1. /\ TakeSnapshot(at, ts, Bootstrap) /\ UNCHANGED venueVars /\ mode' = "none"
        /\ phase' = (IF Bootstrap THEN "streaming" ELSE "down")
        /\ pending' = (Bootstrap \/ (pending /\ mode # "order_book"))
        /\ UNCHANGED <<live, queue, asked, stale, gaps, conn, faults>>
        /\ phase = "resync"
    BY <1>3 DEF Resync, historyVars
  <2>2. /\ UNCHANGED <<venue, candidate, books, sent>> /\ Now' = Now /\ Bootstrap' = Bootstrap
    BY <2>1, VenueKept
  <2>3. /\ BookGood' /\ (~Bootstrap => book'.is_synchronized)
        /\ book'.is_synchronized \/ book'.first_delta_after_snapshot
    BY <1>s, <1>b, <2>1, <2>2, SnapshotTaken
  <2>p. pending' \in BOOLEAN
    BY <2>1, Zenon
  <2>4. LinkType'
    BY <1>i, <2>1, <2>2, <2>p DEF LinkType, Phases, Modes
  <2>5. QueueGood'
    BY <1>i, <2>1, <2>2, QueueKept
  <2>6. PhasesPresuppose' /\ RewarmedBeforeStreaming'
    BY <1>i, <2>1, <2>2, <2>3 DEF PhasesPresuppose, RewarmedBeforeStreaming
  <2> QED BY <1>t, <2>3, <2>4, <2>5, <2>6
<1>4. CASE WarmFromCriticalLane(at, ts)
  <2>1. /\ TakeSnapshot(at, ts, TRUE) /\ UNCHANGED venueVars
        /\ UNCHANGED <<phase, live, queue, mode, asked, pending, stale, gaps, conn>>
        /\ Bootstrap /\ Fault
    BY <1>4 DEF WarmFromCriticalLane, historyVars, linkVars
  <2>2. /\ UNCHANGED <<venue, candidate, books, sent>> /\ Now' = Now /\ Bootstrap' = Bootstrap
    BY <2>1, VenueKept
  <2>3. BookGood' /\ (book'.is_synchronized \/ book'.first_delta_after_snapshot)
    BY <1>s, <2>1, <2>2, SnapshotTaken
  <2>4. LinkType'
    BY <1>i, <2>1, <2>2, FaultType DEF LinkType
  <2>5. QueueGood'
    BY <1>i, <2>1, <2>2, QueueKept
  <2>6. PhasesPresuppose' /\ RewarmedBeforeStreaming'
    BY <1>i, <2>1, <2>2, <2>3 DEF PhasesPresuppose, RewarmedBeforeStreaming
  <2> QED BY <1>t, <2>3, <2>4, <2>5, <2>6
<1>5. CASE ReconcileCandidate(at, ts)
  <2>1. /\ TakeSnapshot(at, ts, FALSE) /\ UNCHANGED venueVars /\ candidate
        /\ UNCHANGED <<live, queue, mode, asked, pending, stale, gaps, conn>>
    BY <1>5 DEF ReconcileCandidate, historyVars
  <2>2. /\ UNCHANGED <<venue, candidate, books, sent>> /\ Now' = Now /\ Bootstrap' = Bootstrap
    BY <2>1, VenueKept
  <2>3. BookGood' /\ book'.is_synchronized
    BY <1>s, <2>1, <2>2, SnapshotTaken
  <2>4. /\ faults' \in 0..MaxFaults
        /\ (phase = "init" /\ phase' = "down") \/ UNCHANGED phase
    BY <1>5, <1>i, FaultType DEF ReconcileCandidate, LinkType
  <2>5. LinkType'
    BY <1>i, <2>1, <2>2, <2>4 DEF LinkType, Phases
  <2>6. QueueGood'
    BY <1>i, <2>1, <2>2, QueueKept
  <2>7. PhasesPresuppose' /\ RewarmedBeforeStreaming'
    BY <1>i, <2>1, <2>2, <2>3, <2>4 DEF PhasesPresuppose, RewarmedBeforeStreaming
  <2> QED BY <1>t, <2>3, <2>5, <2>6, <2>7
<1> QED BY <1>1, <1>2, <1>3, <1>4, <1>5 DEF SnapshotStep

\* The Binance lane ends.
LEMMA LaneEndsInv ==
  ASSUME IInv, Bootstrap, LaneEnds, UNCHANGED venueVars, faults' \in 0..MaxFaults
  PROVE  IInv'
<1>t. IInv' <=> (LinkType /\ QueueGood /\ BookGood /\ PhasesPresuppose
                 /\ RewarmedBeforeStreaming)'
  BY DEF IInv, LinkType, QueueGood, BookGood, TypeOK
<1>i. TypeOK /\ MessagesAreAnnounced /\ Now \in Nat /\ LinkType /\ PhasesPresuppose
      /\ RewarmedBeforeStreaming
  BY InvParts DEF IInv, TypeOK, Now
<1>1. /\ live' = FALSE /\ queue' = <<>> /\ phase' = "down" /\ conn' = conn + 1
      /\ UNCHANGED <<mode, asked, bookVars, pending, stale, gaps>>
  BY DEF LaneEnds
<1>2. /\ UNCHANGED <<venue, candidate, books, sent>> /\ Now' = Now /\ Bootstrap' = Bootstrap
  BY VenueKept
<1>3. BookGood'
  BY <1>1, <1>2, BookUntouched
<1>l. live' \in BOOLEAN /\ conn' \in Nat
  <2>1. live' \in BOOLEAN
    BY <1>1, Zenon
  <2>2. conn' \in Nat
    BY <1>i, <1>1 DEF LinkType
  <2> QED BY <2>1, <2>2
<1>4. LinkType'
  BY <1>i, <1>1, <1>2, <1>l DEF LinkType, Phases
<1>5. QueueGood'
  BY <1>1, QueueDropped
<1>6. PhasesPresuppose' /\ RewarmedBeforeStreaming'
  BY <1>1, <1>2 DEF PhasesPresuppose, RewarmedBeforeStreaming
<1> QED BY <1>t, <1>3, <1>4, <1>5, <1>6

\* Another venue's stream ends; the book is invalidated and will be recovered.
LEMMA StreamEndsInv ==
  ASSUME IInv, ~Bootstrap, StreamEnds, UNCHANGED venueVars, faults' \in 0..MaxFaults,
         stale' \in 0..(StaleThreshold - 1)
  PROVE  IInv'
<1>t. IInv' <=> (LinkType /\ QueueGood /\ BookGood /\ PhasesPresuppose
                 /\ RewarmedBeforeStreaming)'
  BY DEF IInv, LinkType, QueueGood, BookGood, TypeOK
<1>i. TypeOK /\ MessagesAreAnnounced /\ Now \in Nat /\ LinkType /\ PhasesPresuppose
      /\ RewarmedBeforeStreaming
  BY InvParts DEF IInv, TypeOK, Now
<1>1. /\ live' = FALSE /\ queue' = <<>> /\ phase' = "down" /\ mode' = "short_disconnect"
      /\ conn' = conn + 1 /\ InvalidateOrderBook /\ UNCHANGED <<asked, pending, gaps>>
  BY DEF StreamEnds
<1>2. /\ UNCHANGED <<venue, candidate, books, sent>> /\ Now' = Now /\ Bootstrap' = Bootstrap
  BY VenueKept
<1>3. BookGood'
  BY <1>1, <1>2, BookInvalidated
<1>l. live' \in BOOLEAN /\ conn' \in Nat
  <2>1. live' \in BOOLEAN
    BY <1>1, Zenon
  <2>2. conn' \in Nat
    BY <1>i, <1>1 DEF LinkType
  <2> QED BY <2>1, <2>2
<1>4. LinkType'
  BY <1>i, <1>1, <1>2, <1>l DEF LinkType, Phases, Modes
<1>5. QueueGood'
  BY <1>1, QueueDropped
<1>6. PhasesPresuppose' /\ RewarmedBeforeStreaming'
  BY <1>1, <1>2 DEF PhasesPresuppose, RewarmedBeforeStreaming
<1> QED BY <1>t, <1>3, <1>4, <1>5, <1>6

\* The steps of the consuming task that do not touch the book.
LEMMA LinkInv ==
  ASSUME IInv, Connect \/ FirstDelta \/ Recover \/ RestFails
  PROVE  IInv'
<1>t. IInv' <=> (LinkType /\ QueueGood /\ BookGood /\ PhasesPresuppose
                 /\ RewarmedBeforeStreaming)'
  BY DEF IInv, LinkType, QueueGood, BookGood, TypeOK
<1>i. TypeOK /\ MessagesAreAnnounced /\ Now \in Nat /\ LinkType /\ PhasesPresuppose
      /\ RewarmedBeforeStreaming
  BY InvParts DEF IInv, TypeOK, Now
<1>1. CASE Connect
  <2>1. /\ phase = "down" /\ mode = "none" /\ live' = TRUE
        /\ phase' = (IF Bootstrap THEN "buffering" ELSE "streaming")
        /\ queue' = (IF Bootstrap THEN <<>> ELSE <<Snapshot(sent)>>)
        /\ UNCHANGED venueVars /\ UNCHANGED bookVars
        /\ UNCHANGED <<mode, asked, pending, stale, gaps, conn, faults>>
    BY <1>1 DEF Connect, historyVars
  <2>2. /\ UNCHANGED <<venue, candidate, books, sent>> /\ Now' = Now /\ Bootstrap' = Bootstrap
    BY <2>1, VenueKept
  <2>3. BookGood'
    BY <2>1, <2>2, BookUntouched
  <2>4. LinkType'
    BY <1>i, <2>1, <2>2 DEF LinkType, Phases
  <2>5. QueueGood'
    <3>1. CASE Bootstrap
      BY <2>1, <3>1, QueueDropped
    <3>2. CASE ~Bootstrap
      <4>1. sent \in 1..Now
        BY <1>i DEF TypeOK
      <4>2. /\ Snapshot(sent) \in Message /\ Snapshot(sent).prev = sent
            /\ Snapshot(sent).final = sent /\ Snapshot(sent).kind = "snapshot"
        BY <1>i, <4>1 DEF Snapshot, Message
      <4>3. queue' = <<Snapshot(sent)>>
        BY <2>1, <3>2
      <4>4. queue' \in Seq(Message) /\ Len(queue') = 1 /\ queue'[1] = Snapshot(sent)
        BY <4>2, <4>3
      <4>5. sent \in sent..Now
        BY <1>i, <4>1
      <4>6. \A i \in 1..Len(queue') : i = 1
        BY <4>4
      <4> QED BY <2>2, <3>2, <4>1, <4>2, <4>4, <4>5, <4>6 DEF QueueGood, MessagesAreAnnounced
    <3> QED BY <3>1, <3>2
  <2>6. PhasesPresuppose' /\ RewarmedBeforeStreaming'
    BY <1>i, <2>1, <2>2 DEF PhasesPresuppose, RewarmedBeforeStreaming, bookVars
  <2> QED BY <1>t, <2>3, <2>4, <2>5, <2>6
<1>2. CASE FirstDelta
  <2>1. /\ phase = "buffering" /\ phase' = "snapshot" /\ asked' = Now
        /\ UNCHANGED venueVars /\ UNCHANGED bookVars
        /\ UNCHANGED <<live, queue, mode, pending, stale, gaps, conn, faults>>
    BY <1>2 DEF FirstDelta, historyVars
  <2>2. /\ UNCHANGED <<venue, candidate, books, sent>> /\ Now' = Now /\ Bootstrap' = Bootstrap
        /\ Now \in 1..Now
    BY <2>1, VenueKept
  <2>3. BookGood'
    BY <2>1, <2>2, BookUntouched
  <2>4. LinkType'
    BY <1>i, <2>1, <2>2 DEF LinkType, Phases
  <2>5. QueueGood'
    BY <1>i, <2>1, <2>2, QueueKept
  <2>6. PhasesPresuppose' /\ RewarmedBeforeStreaming'
    BY <1>i, <2>1, <2>2 DEF PhasesPresuppose, RewarmedBeforeStreaming, bookVars
  <2> QED BY <1>t, <2>3, <2>4, <2>5, <2>6
<1>3. CASE Recover
  <2>1. /\ phase = "down"
        /\ UNCHANGED venueVars /\ UNCHANGED bookVars
        /\ UNCHANGED <<live, queue, pending, stale, gaps, conn, faults>>
    BY <1>3 DEF Recover, historyVars
  <2>2. /\ UNCHANGED <<venue, candidate, books, sent>> /\ Now' = Now /\ Bootstrap' = Bootstrap
        /\ Now \in 1..Now
    BY <2>1, VenueKept
  <2>a. \/ phase' = "resync" /\ asked' = Now /\ UNCHANGED mode
        \/ mode = "order_book" /\ ~pending /\ mode' = "none" /\ UNCHANGED <<phase, asked>>
    BY <1>3, <1>i DEF Recover, LinkType, Modes
  <2>3. BookGood'
    BY <2>1, <2>2, BookUntouched
  <2>4. LinkType'
    BY <1>i, <2>1, <2>2, <2>a DEF LinkType, Phases, Modes
  <2>5. QueueGood'
    BY <1>i, <2>1, <2>2, QueueKept
  <2>6. PhasesPresuppose' /\ RewarmedBeforeStreaming'
    BY <1>i, <2>1, <2>2, <2>a DEF PhasesPresuppose, RewarmedBeforeStreaming, bookVars
  <2> QED BY <1>t, <2>3, <2>4, <2>5, <2>6
<1>4. CASE RestFails
  <2>1. UNCHANGED venueVars /\ faults' \in 0..MaxFaults
    BY <1>4, FaultType DEF RestFails
  <2>2. CASE Bootstrap
    BY <1>4, <2>1, <2>2, LaneEndsInv DEF RestFails
  <2>3. CASE ~Bootstrap
    <3>1. StreamEnds /\ UNCHANGED stale
      BY <1>4, <2>3 DEF RestFails
    <3> QED BY <1>i, <2>1, <2>3, <3>1, StreamEndsInv DEF LinkType
  <2> QED BY <2>2, <2>3
<1> QED BY <1>1, <1>2, <1>3, <1>4

\* An event at the head of the queue.
LEMMA EventInv ==
  ASSUME IInv, EventStep
  PROVE  IInv'
<1>t. IInv' <=> (LinkType /\ QueueGood /\ BookGood /\ PhasesPresuppose
                 /\ RewarmedBeforeStreaming)'
  BY DEF IInv, LinkType, QueueGood, BookGood, TypeOK
<1>i. TypeOK /\ MessagesAreAnnounced /\ Now \in Nat /\ LinkType /\ PhasesPresuppose
      /\ RewarmedBeforeStreaming
  BY InvParts DEF IInv, TypeOK, Now
<1>h. ASSUME queue # <<>>
      PROVE  /\ Head(queue).final \in 1..Now
             /\ Bootstrap => Head(queue).kind # "snapshot"
  BY <1>h, <1>i, HeadIsAnnounced
<1>1. CASE ReceiveSnapshot
  <2>1. /\ phase = "streaming" /\ queue # <<>> /\ Head(queue).kind = "snapshot"
        /\ TakeSnapshot(Head(queue).final, Stamp(Head(queue).final), FALSE)
        /\ queue' = Tail(queue) /\ UNCHANGED venueVars
        /\ UNCHANGED <<live, phase, mode, asked, pending, stale, gaps, conn, faults>>
    BY <1>1 DEF ReceiveSnapshot, Receives, historyVars
  <2>2. /\ UNCHANGED <<venue, candidate, books, sent>> /\ Now' = Now /\ Bootstrap' = Bootstrap
    BY <2>1, VenueKept
  <2>h. /\ Head(queue).final \in 1..Now /\ ~Bootstrap
        /\ Stamp(Head(queue).final) \in Nat
    BY <1>h, <1>i, <2>1, StampType
  <2>3. BookGood' /\ book'.is_synchronized
    BY <2>1, <2>2, <2>h, SnapshotTaken
  <2>4. LinkType'
    BY <1>i, <2>1, <2>2 DEF LinkType
  <2>5. QueueGood'
    BY <1>i, <2>1, <2>2, TailIsGood
  <2>6. PhasesPresuppose' /\ RewarmedBeforeStreaming'
    BY <1>i, <2>1, <2>2, <2>3 DEF PhasesPresuppose, RewarmedBeforeStreaming
  <2> QED BY <1>t, <2>3, <2>4, <2>5, <2>6
<1>2. CASE ApplyDelta
  <2>1. /\ phase = "streaming" /\ queue # <<>>
        /\ book' = FromDelta(book, Head(queue)) /\ observed' = Recorded(book')
        /\ pending' = (pending /\ book.is_synchronized)
        /\ queue' = Tail(queue) /\ stale' = 0 /\ UNCHANGED venueVars
        /\ UNCHANGED <<live, phase, mode, asked, known, gaps, conn, faults>>
    BY <1>2 DEF ApplyDelta, Receives, historyVars
  <2>2. /\ UNCHANGED <<venue, candidate, books, sent>> /\ Now' = Now /\ Bootstrap' = Bootstrap
    BY <2>1, VenueKept
  <2>3. BookGood' /\ book'.is_synchronized
    BY <1>h, <2>1, <2>2, DeltaApplied
  <2>p. pending' \in BOOLEAN
    BY <2>1, Zenon
  <2>4. LinkType'
    BY <1>i, <2>1, <2>2, <2>p DEF LinkType
  <2>5. QueueGood'
    BY <1>i, <2>1, <2>2, TailIsGood
  <2>6. PhasesPresuppose' /\ RewarmedBeforeStreaming'
    BY <1>i, <2>1, <2>2, <2>3 DEF PhasesPresuppose, RewarmedBeforeStreaming
  <2> QED BY <1>t, <2>3, <2>4, <2>5, <2>6
<1>3. CASE IgnoreDelta
  <2>1. /\ queue # <<>> /\ queue' = Tail(queue) /\ stale' = 0
        /\ UNCHANGED venueVars /\ UNCHANGED bookVars
        /\ UNCHANGED <<live, phase, mode, asked, pending, gaps, conn, faults>>
    BY <1>3 DEF IgnoreDelta, Receives, historyVars
  <2>2. /\ UNCHANGED <<venue, candidate, books, sent>> /\ Now' = Now /\ Bootstrap' = Bootstrap
    BY <2>1, VenueKept
  <2>3. BookGood'
    BY <2>1, <2>2, BookUntouched
  <2>4. LinkType'
    BY <1>i, <2>1, <2>2 DEF LinkType
  <2>5. QueueGood'
    BY <1>i, <2>1, <2>2, TailIsGood
  <2>6. PhasesPresuppose' /\ RewarmedBeforeStreaming'
    BY <1>i, <2>1, <2>2 DEF PhasesPresuppose, RewarmedBeforeStreaming, bookVars
  <2> QED BY <1>t, <2>3, <2>4, <2>5, <2>6
<1>4. CASE DeltaOutOfSync
  <2>1. /\ phase = "streaming" /\ queue # <<>> /\ InvalidateOrderBook
        /\ gaps' = gaps + 1 /\ stale' = 0 /\ UNCHANGED venueVars /\ UNCHANGED faults
    BY <1>4 DEF DeltaOutOfSync, Receives
  <2>2. /\ UNCHANGED <<venue, candidate, books, sent>> /\ Now' = Now /\ Bootstrap' = Bootstrap
        /\ Now \in 1..Now
    BY <2>1, VenueKept
  <2>3. BookGood'
    BY <2>1, <2>2, BookInvalidated
  <2>4. CASE Bootstrap
    <3>1. /\ phase' = "resync" /\ asked' = Now /\ queue' = Tail(queue)
          /\ UNCHANGED <<live, mode, pending, conn>>
      BY <1>4, <2>4 DEF DeltaOutOfSync
    <3>2. LinkType'
      BY <1>i, <2>1, <2>2, <3>1 DEF LinkType, Phases
    <3>3. QueueGood'
      BY <1>i, <2>1, <2>2, <3>1, TailIsGood
    <3>4. PhasesPresuppose' /\ RewarmedBeforeStreaming'
      BY <2>2, <2>4, <3>1 DEF PhasesPresuppose, RewarmedBeforeStreaming
    <3> QED BY <1>t, <2>3, <3>2, <3>3, <3>4
  <2>5. CASE ~Bootstrap
    <3>1. /\ live' = FALSE /\ queue' = <<>> /\ phase' = "down" /\ mode' = "order_book"
          /\ pending' = TRUE /\ conn' = conn + 1 /\ UNCHANGED asked
      BY <1>4, <2>5 DEF DeltaOutOfSync
    <3>b. live' \in BOOLEAN /\ pending' \in BOOLEAN
      BY <3>1, Zenon
    <3>2. LinkType'
      BY <1>i, <2>1, <2>2, <3>1, <3>b DEF LinkType, Phases, Modes
    <3>3. QueueGood'
      BY <3>1, QueueDropped
    <3>4. PhasesPresuppose' /\ RewarmedBeforeStreaming'
      BY <2>2, <2>5, <3>1 DEF PhasesPresuppose, RewarmedBeforeStreaming
    <3> QED BY <1>t, <2>3, <3>2, <3>3, <3>4
  <2> QED BY <2>4, <2>5
<1>5. ASSUME NEW tooOld \in BOOLEAN, RejectEvent(tooOld) PROVE IInv'
  <2> DEFINE counted == tooOld /\ ~Bootstrap /\ Head(queue).kind = "delta"
  <2>1. queue # <<>> /\ UNCHANGED venueVars /\ faults' \in 0..MaxFaults
    BY <1>5, FaultType DEF RejectEvent
  <2>2. \/ counted /\ stale' = 0 /\ StreamEnds
        \/ /\ counted => stale + 1 < StaleThreshold
           /\ stale' = IF counted THEN stale + 1 ELSE stale
           /\ queue' = Tail(queue)
           /\ UNCHANGED <<live, phase, mode, asked, bookVars, pending, historyVars>>
    BY <1>5 DEF RejectEvent
  <2>3. CASE counted /\ stale' = 0 /\ StreamEnds
    <3>1. ~Bootstrap /\ stale' \in 0..(StaleThreshold - 1)
      BY <2>3
    <3> QED BY <2>1, <2>3, <3>1, StreamEndsInv
  <2>4. CASE /\ counted => stale + 1 < StaleThreshold
             /\ stale' = IF counted THEN stale + 1 ELSE stale
             /\ queue' = Tail(queue)
             /\ UNCHANGED <<live, phase, mode, asked, bookVars, pending, historyVars>>
    <3> HIDE DEF counted
    <3>1. stale' \in 0..(StaleThreshold - 1)
      BY <1>i, <2>4 DEF LinkType
    <3>2. /\ UNCHANGED <<venue, candidate, books, sent>> /\ Now' = Now /\ Bootstrap' = Bootstrap
      BY <2>1, VenueKept
    <3>3. BookGood'
      BY <2>4, <3>2, BookUntouched DEF historyVars
    <3>4. LinkType'
      BY <1>i, <2>1, <2>4, <3>1, <3>2 DEF LinkType, historyVars
    <3>5. QueueGood'
      BY <1>i, <2>1, <2>4, <3>2, TailIsGood
    <3>6. PhasesPresuppose' /\ RewarmedBeforeStreaming'
      BY <1>i, <2>4, <3>2 DEF PhasesPresuppose, RewarmedBeforeStreaming, bookVars
    <3> QED BY <1>t, <3>3, <3>4, <3>5, <3>6
  <2> QED BY <2>2, <2>3, <2>4
<1>6. CASE ReceiveEnd
  <2>1. UNCHANGED venueVars /\ faults' \in 0..MaxFaults
    BY <1>6, <1>i DEF ReceiveEnd, LinkType
  <2>2. CASE Bootstrap
    BY <1>6, <2>1, <2>2, LaneEndsInv DEF ReceiveEnd
  <2>3. CASE ~Bootstrap
    <3>1. StreamEnds /\ UNCHANGED stale
      BY <1>6, <2>3 DEF ReceiveEnd
    <3> QED BY <1>i, <2>1, <2>3, <3>1, StreamEndsInv DEF LinkType
  <2> QED BY <2>2, <2>3
<1> QED BY <1>1, <1>2, <1>3, <1>4, <1>5, <1>6 DEF EventStep

\* What the network and the other instruments do.
LEMMA FaultInv ==
  ASSUME IInv, Disconnect \/ Redeliver \/ OtherInstrumentFails
  PROVE  IInv'
<1>t. IInv' <=> (LinkType /\ QueueGood /\ BookGood /\ PhasesPresuppose
                 /\ RewarmedBeforeStreaming)'
  BY DEF IInv, LinkType, QueueGood, BookGood, TypeOK
<1>i. TypeOK /\ MessagesAreAnnounced /\ Now \in Nat /\ LinkType /\ PhasesPresuppose
      /\ RewarmedBeforeStreaming
  BY InvParts DEF IInv, TypeOK, Now
<1>1. CASE Disconnect
  <2>1. /\ live' = FALSE /\ queue' = Append(queue, End) /\ live
        /\ UNCHANGED venueVars /\ UNCHANGED bookVars
        /\ UNCHANGED <<phase, mode, asked, pending, stale, gaps, conn>> /\ Fault
    BY <1>1 DEF Disconnect, historyVars
  <2>2. /\ UNCHANGED <<venue, candidate, books, sent>> /\ Now' = Now /\ Bootstrap' = Bootstrap
    BY <2>1, VenueKept
  <2>3. BookGood'
    BY <2>1, <2>2, BookUntouched
  <2>b. live' \in BOOLEAN
    BY <2>1, Zenon
  <2>4. LinkType'
    BY <1>i, <2>1, <2>2, <2>b, FaultType DEF LinkType
  <2>5. QueueGood'
    <3>1. End \in Message /\ End.prev = 1 /\ End.final = 1 /\ End.kind = "end"
      BY DEF End, Message
    <3>2. 1 \in 1..Now
      BY <1>i DEF TypeOK
    <3> QED BY <1>i, <2>1, <2>2, <3>1, <3>2, AppendIsGood
  <2>6. PhasesPresuppose' /\ RewarmedBeforeStreaming'
    BY <1>i, <2>1, <2>2 DEF PhasesPresuppose, RewarmedBeforeStreaming, bookVars
  <2> QED BY <1>t, <2>3, <2>4, <2>5, <2>6
<1>2. CASE Redeliver
  <2>1. /\ queue # <<>> /\ queue' = <<Head(queue)>> \o queue
        /\ UNCHANGED venueVars /\ UNCHANGED bookVars
        /\ UNCHANGED <<live, phase, mode, asked, pending, stale, gaps, conn>> /\ Fault
    BY <1>2 DEF Redeliver, historyVars
  <2>2. /\ UNCHANGED <<venue, candidate, books, sent>> /\ Now' = Now /\ Bootstrap' = Bootstrap
    BY <2>1, VenueKept
  <2>3. BookGood'
    BY <2>1, <2>2, BookUntouched
  <2>4. LinkType'
    BY <1>i, <2>1, <2>2, FaultType DEF LinkType
  <2>5. QueueGood'
    BY <1>i, <2>1, <2>2, RepeatIsGood
  <2>6. PhasesPresuppose' /\ RewarmedBeforeStreaming'
    BY <1>i, <2>1, <2>2 DEF PhasesPresuppose, RewarmedBeforeStreaming, bookVars
  <2> QED BY <1>t, <2>3, <2>4, <2>5, <2>6
<1>3. CASE OtherInstrumentFails
  <2>1. UNCHANGED venueVars /\ faults' \in 0..MaxFaults
    BY <1>3, FaultType DEF OtherInstrumentFails
  <2>2. /\ UNCHANGED <<venue, candidate, books, sent>> /\ Now' = Now /\ Bootstrap' = Bootstrap
    BY <2>1, VenueKept
  <2>3. CASE Bootstrap /\ LaneEnds
    BY <2>1, <2>3, LaneEndsInv
  <2>4. CASE ~Bootstrap /\ StreamEnds /\ UNCHANGED stale
    BY <1>i, <2>1, <2>4, StreamEndsInv DEF LinkType
  <2>5. CASE /\ ~Bootstrap /\ phase = "streaming"
             /\ live' = FALSE /\ queue' = <<>> /\ phase' = "down" /\ mode' = "order_book"
             /\ conn' = conn + 1 /\ UNCHANGED bookVars
             /\ UNCHANGED <<asked, pending, stale, gaps>>
    <3>2. BookGood'
      BY <2>2, <2>5, BookUntouched
    <3>b. live' \in BOOLEAN
      BY <2>5, Zenon
    <3>3. LinkType'
      BY <1>i, <2>1, <2>2, <2>5, <3>b DEF LinkType, Phases, Modes
    <3>4. QueueGood'
      BY <2>5, QueueDropped
    <3>5. book.is_synchronized
      BY <1>i, <2>5 DEF RewarmedBeforeStreaming
    <3>6. PhasesPresuppose' /\ RewarmedBeforeStreaming'
      BY <2>2, <2>5, <3>5 DEF PhasesPresuppose, RewarmedBeforeStreaming, bookVars
    <3> QED BY <1>t, <3>2, <3>3, <3>4, <3>6
  <2> QED BY <1>3, <2>3, <2>4, <2>5 DEF OtherInstrumentFails
<1> QED BY <1>1, <1>2, <1>3

LEMMA InvStutters ==
  ASSUME IInv, UNCHANGED vars
  PROVE  IInv'
BY DEF vars, venueVars, linkVars, bookVars, historyVars, IInv, TypeOK,
   MessagesAreAnnounced, BookIsPlaced, PhasesPresuppose, ObservationsAreRecent,
   BridgedBeforeUse, RewarmedBeforeStreaming, Bootstrap, Now, Stamp

LEMMA InvNext == IInv /\ [Next]_vars => IInv'
BY VenueInv, SnapshotInv, LinkInv, EventInv, FaultInv, InvStutters DEF Next

LEMMA InvAlways == Spec => []IInv
BY InvInit, InvNext, PTL DEF Spec

-----------------------------------------------------------------------------
(* What a step does to the book                                            *)

\* Only four things happen to a book, whichever action takes the step.
TakesSnapshot ==
  \E at \in 1..Now : \E ts \in Nat, bridge \in BOOLEAN :
    /\ ~Bootstrap /\ venue # "bybit" => ts = Stamp(at)
    /\ Bootstrap /\ ~candidate => bridge
    /\ TakeSnapshot(at, ts, bridge)

AppliesDelta ==
  /\ queue # <<>> /\ Head(queue).kind = "delta" /\ Applied(book, Head(queue))
  /\ book' = FromDelta(book, Head(queue)) /\ UNCHANGED known

LEMMA BookSteps ==
  ASSUME IInv, [Next]_vars
  PROVE  UNCHANGED <<book, known>> \/ InvalidateOrderBook \/ TakesSnapshot \/ AppliesDelta
<1>i. TypeOK /\ MessagesAreAnnounced /\ Now \in Nat
  BY DEF IInv, TypeOK, Now
<1>b. Bootstrap \in BOOLEAN
  BY DEF Bootstrap
<1>1. CASE \E at \in 1..Now : \E ts \in RestTimes(at) : SnapshotStep(at, ts)
  <2>1. PICK at \in 1..Now : \E ts \in RestTimes(at) : SnapshotStep(at, ts)
    BY <1>1
  <2>2. PICK ts \in RestTimes(at) : SnapshotStep(at, ts)
    BY <2>1
  <2>3. ts \in Nat /\ (~Bootstrap /\ venue # "bybit" => ts = Stamp(at))
    BY <1>i, RestTimesType
  <2>4. TakeSnapshot(at, ts, Bootstrap) \/ TakeSnapshot(at, ts, TRUE)
          \/ (candidate /\ TakeSnapshot(at, ts, FALSE))
    BY <2>2, Zenon
       DEF SnapshotStep, Initialize, BridgeSnapshot, Resync, WarmFromCriticalLane,
       ReconcileCandidate
  <2> QED BY <1>b, <2>3, <2>4 DEF TakesSnapshot
<1>2. CASE EventStep
  <2>1. CASE ReceiveSnapshot
    <3>1. /\ queue # <<>> /\ Head(queue).kind = "snapshot"
          /\ TakeSnapshot(Head(queue).final, Stamp(Head(queue).final), FALSE)
      BY <2>1 DEF ReceiveSnapshot, Receives
    <3>2. /\ Head(queue).final \in 1..Now /\ ~Bootstrap
      BY <1>i, <3>1, HeadIsAnnounced
    <3>3. Stamp(Head(queue).final) \in Nat
      BY <1>i, <3>2, StampType
    <3> QED BY <3>1, <3>2, <3>3 DEF TakesSnapshot
  <2>2. CASE ApplyDelta
    BY <2>2 DEF ApplyDelta, Receives, AppliesDelta
  <2>3. CASE IgnoreDelta
    BY <2>3 DEF IgnoreDelta, bookVars
  <2>4. CASE DeltaOutOfSync
    BY <2>4 DEF DeltaOutOfSync
  <2>5. CASE \E tooOld \in BOOLEAN : RejectEvent(tooOld)
    BY <2>5 DEF RejectEvent, StreamEnds, bookVars
  <2>6. CASE ReceiveEnd
    BY <2>6 DEF ReceiveEnd, LaneEnds, StreamEnds, bookVars
  <2> QED BY <1>2, <2>1, <2>2, <2>3, <2>4, <2>5, <2>6 DEF EventStep
<1>3. CASE RestFails
  BY <1>3 DEF RestFails, LaneEnds, StreamEnds, bookVars
<1>4. CASE OtherInstrumentFails
  BY <1>4 DEF OtherInstrumentFails, LaneEnds, StreamEnds, bookVars
<1>5. CASE \/ \E p \in Prices, q \in Quantities : VenueUpdates(p, q)
           \/ VenueAnnounces \/ Connect \/ FirstDelta \/ Recover \/ Disconnect \/ Redeliver
           \/ UNCHANGED vars
  BY <1>5
     DEF VenueUpdates, VenueAnnounces, Connect, FirstDelta, Recover, Disconnect,
     Redeliver, vars, bookVars
<1> QED BY <1>1, <1>2, <1>3, <1>4, <1>5 DEF Next

\* The venue's history only grows.
LEMMA HistoryGrows ==
  ASSUME IInv, [Next]_vars
  PROVE  venue' = venue /\ \A k \in 1..Now : books'[k] = books[k]
<1>i. books \in Seq(Levels)
  BY DEF IInv, TypeOK
<1>1. CASE UNCHANGED <<venue, books>>
  BY <1>1
<1>2. CASE \E p \in Prices, q \in Quantities : VenueUpdates(p, q)
  <2>1. PICK p \in Prices, q \in Quantities : VenueUpdates(p, q)
    BY <1>2
  <2>2. books[Now] \in Levels
    BY <1>i DEF IInv, TypeOK, Now
  <2>3. [books[Now] EXCEPT ![p] = q] \in Levels
    BY <2>2 DEF Levels
  <2> QED BY <1>i, <2>1, <2>3 DEF VenueUpdates, Now
<1> QED BY <1>1, <1>2 DEF Next, VenueAnnounces, SnapshotStep, Initialize, BridgeSnapshot,
       Resync, WarmFromCriticalLane, ReconcileCandidate, Connect, FirstDelta, Recover, RestFails, EventStep,
       ReceiveSnapshot, ApplyDelta, IgnoreDelta, DeltaOutOfSync, RejectEvent, ReceiveEnd,
       Disconnect, Redeliver, OtherInstrumentFails, vars, venueVars

\* A delta that is applied starts no later than the book and ends no earlier.
LEMMA AppliedConnects ==
  ASSUME IInv, AppliesDelta
  PROVE  /\ Head(queue).final \in 1..Now /\ book.sequence_id \in 1..Now
         /\ book.sequence_id <= Head(queue).final
         /\ venue # "bybit" => Head(queue).prev <= book.sequence_id
<1> DEFINE m == Head(queue)
<1>i. TypeOK /\ MessagesAreAnnounced /\ Now \in Nat /\ BookIsPlaced
  BY DEF IInv, TypeOK, Now
<1>1. /\ m.prev \in 1..Now /\ m.final \in m.prev..Now /\ m.final \in 1..Now
      /\ venue # "hyperliquid"
  BY <1>i, HeadIsAnnounced DEF AppliesDelta
<1>2. Connectable(book) /\ ~Replays(book, m) /\ Follows(book, m)
  BY DEF AppliesDelta, Applied
<1> HIDE DEF m
<1>3. book.sequence_id \in 1..Now
  BY <1>i, <1>2 DEF Connectable, BookIsPlaced
<1>4. venue \in BinanceVenues \cup {"okx", "bybit"}
  BY <1>i, <1>1 DEF TypeOK, PlainVenues
<1>5. CASE venue = "binance_spot"
  BY <1>1, <1>2, <1>3, <1>5 DEF Follows, BinanceFollows, Bootstrap, BinanceVenues, m
<1>6. CASE venue = "binance_perp"
  <2>1. ~BinanceReplays(book, m) /\ BinanceFollows(book, m)
    BY <1>2, <1>6 DEF Replays, Follows, Bootstrap, BinanceVenues
  <2>2. CASE book.first_delta_after_snapshot
    BY <1>1, <1>3, <1>6, <2>1, <2>2 DEF BinanceFollows, m
  <2>3. CASE ~book.first_delta_after_snapshot
    BY <1>1, <1>3, <1>6, <2>1, <2>3 DEF BinanceFollows, m
  <2> QED BY <2>2, <2>3
<1>7. CASE venue = "okx"
  BY <1>1, <1>2, <1>3, <1>7 DEF Follows, Bootstrap, BinanceVenues, m
<1>8. CASE venue = "bybit"
  BY <1>1, <1>2, <1>3, <1>8 DEF Replays, Bootstrap, BinanceVenues, m
<1> QED BY <1>4, <1>5, <1>6, <1>7, <1>8 DEF BinanceVenues

-----------------------------------------------------------------------------
(* Theorems                                                                *)

\* Every variable keeps its type: in particular the stream is recycled before
\* the count of stale events reaches its threshold.
THEOREM TypeCorrect == Spec => []TypeOK
<1>1. IInv => TypeOK
  BY DEF IInv
<1> QED BY <1>1, InvAlways, PTL

\* apply_order_book_snapshot withholds a Binance book until a delta has
\* bridged its snapshot, whether start-up, the depth lane, a resync or the
\* critical lane asked for it.  The instruments of a candidate supervisor are
\* excepted: its reconcile applies the snapshot unbridged.
THEOREM BridgedCorrect == Spec => []BridgedBeforeUse
<1>1. IInv => BridgedBeforeUse
  BY DEF IInv
<1> QED BY <1>1, InvAlways, PTL

\* The supervisor consumes a stream only for a book that is synchronized or,
\* on Binance, can still be bridged.
THEOREM RewarmCorrect == Spec => []RewarmedBeforeStreaming
<1>1. IInv => RewarmedBeforeStreaming
  BY DEF IInv
<1> QED BY <1>1, InvAlways, PTL

\* invalidate_order_book forgets what was observed before a gap.
THEOREM GapForgets == Spec => []NoObservationFromBeforeAGap
<1>1. IInv => NoObservationFromBeforeAGap
  BY DEF IInv, ObservationsAreRecent, NoObservationFromBeforeAGap, Exposed
<1> QED BY <1>1, InvAlways, PTL

\* Off Bybit, a book that stays synchronized moves forward only: the timestamp
\* test of apply_snapshot and the sequence tests of apply_delta agree, but for the
\* first delta on a candidate's unbridged book, whose timestamp is another clock's.
THEOREM ForwardOnly ==
  ASSUME "bybit" \notin Venues
  PROVE  Spec => NeverGoesBack
<1>1. ASSUME IInv, [Next]_vars, book.is_synchronized, book'.is_synchronized,
             ~(candidate /\ book.first_delta_after_snapshot)
      PROVE  book'.exchange_timestamp >= book.exchange_timestamp
  <2>i. TypeOK /\ Now \in Nat /\ BookIsPlaced /\ book \in Book /\ venue # "bybit"
    BY <1>1 DEF IInv, TypeOK, Now
  <2>n. book.exchange_timestamp \in Nat
    BY <2>i DEF Book
  <2>1. CASE UNCHANGED <<book, known>>
    BY <2>n, <2>1
  <2>2. CASE InvalidateOrderBook
    BY <1>1, <2>i, <2>2, InvalidateType DEF InvalidateOrderBook
  <2>3. CASE TakesSnapshot
    <3>1. PICK at \in 1..Now : \E ts \in Nat, bridge \in BOOLEAN :
            TakeSnapshot(at, ts, bridge)
      BY <2>3 DEF TakesSnapshot
    <3>2. PICK ts \in Nat, bridge \in BOOLEAN : TakeSnapshot(at, ts, bridge)
      BY <3>1
    <3>3. CASE AcceptsSnapshot(book, at, ts)
      <4>1. book' = FromSnapshot(book, at, ts, bridge)
        BY <3>2, <3>3 DEF TakeSnapshot
      <4>2. book'.exchange_timestamp = ts
        BY <2>i, <4>1 DEF FromSnapshot, Book
      <4>3. ts >= book.exchange_timestamp
        BY <1>1, <3>3 DEF AcceptsSnapshot
      <4> QED BY <4>2, <4>3
    <3>4. CASE ~AcceptsSnapshot(book, at, ts)
      BY <2>n, <3>2, <3>4 DEF TakeSnapshot, bookVars
    <3> QED BY <3>3, <3>4
  <2>4. CASE AppliesDelta
    <3>1. book'.exchange_timestamp = Stamp(Head(queue).final)
      BY <2>i, <2>4, FromDeltaFields DEF AppliesDelta
    <3>2. /\ Head(queue).final \in 1..Now /\ book.sequence_id \in 1..Now
          /\ book.sequence_id <= Head(queue).final
      BY <1>1, <2>4, AppliedConnects
    <3>3. Stamp(book.sequence_id) <= Stamp(Head(queue).final)
      BY <2>i, <3>2, StampMonotone
    <3>4. book.exchange_timestamp = Stamp(book.sequence_id)
      BY <1>1, <2>i DEF BookIsPlaced
    <3>5. Stamp(Head(queue).final) \in Nat
      BY <2>i, <3>2, StampType
    <3> QED BY <2>n, <3>1, <3>3, <3>4, <3>5
  <2> QED BY <1>1, <2>1, <2>2, <2>3, <2>4, BookSteps
<1>2. IInv /\ [Next]_vars =>
        [book.is_synchronized /\ book'.is_synchronized
           /\ ~(candidate /\ book.first_delta_after_snapshot) =>
           book'.exchange_timestamp >= book.exchange_timestamp]_vars
  BY <1>1
<1> QED BY <1>2, InvAlways, PTL DEF Spec, NeverGoesBack

\* Exactness is kept while the book is not synchronized too: a gap or an
\* outage stops the book, it does not spoil it.
BookIsExact ==
  book.sequence_id > 0 =>
    /\ \A p \in known : book.levels[p] = books[book.sequence_id][p]
    /\ \A p \in Prices : book.levels[p] \in {0, books[book.sequence_id][p]}

LEMMA ExactNext ==
  ASSUME IInv, BookIsExact, [Next]_vars, "bybit" \notin Venues
  PROVE  BookIsExact'
<1>i. TypeOK /\ Now \in Nat /\ BookIsPlaced /\ book \in Book /\ known \subseteq Prices
      /\ venue # "bybit"
  BY DEF IInv, TypeOK, Now
<1>g. \A k \in 1..Now : books'[k] = books[k]
  BY HistoryGrows
<1>s. book.sequence_id \in 0..Now
  BY <1>i DEF BookIsPlaced
<1>1. CASE UNCHANGED <<book, known>>
  <2>1. book.sequence_id > 0 => books'[book.sequence_id] = books[book.sequence_id]
    BY <1>i, <1>g, <1>s
  <2> QED BY <1>1, <2>1 DEF BookIsExact
<1>2. CASE InvalidateOrderBook
  <2>1. book.sequence_id > 0 => books'[book.sequence_id] = books[book.sequence_id]
    BY <1>i, <1>g, <1>s
  <2>2. book'.levels = book.levels /\ book'.sequence_id = book.sequence_id /\ known' = known
    BY <1>i, <1>2, InvalidateType DEF InvalidateOrderBook
  <2> QED BY <2>1, <2>2 DEF BookIsExact
<1>3. CASE TakesSnapshot
  <2>1. PICK at \in 1..Now : \E ts \in Nat, bridge \in BOOLEAN :
          TakeSnapshot(at, ts, bridge)
    BY <1>3 DEF TakesSnapshot
  <2>2. PICK ts \in Nat, bridge \in BOOLEAN : TakeSnapshot(at, ts, bridge)
    BY <2>1
  <2>3. CASE AcceptsSnapshot(book, at, ts)
    <3>1. book' = FromSnapshot(book, at, ts, bridge) /\ known' = Determined(at)
      BY <2>2, <2>3 DEF TakeSnapshot
    <3>2. book'.sequence_id = at
      BY <1>i, <3>1 DEF FromSnapshot, Book
    <3>3. \A p \in Prices : book'.levels[p] =
            IF p \in Determined(at) THEN books[at][p] ELSE 0
      BY <1>i, <3>1, FromSnapshotLevels
    <3>4. books'[at] = books[at] /\ Determined(at) \subseteq Prices
      BY <1>g, DeterminedType
    <3> QED BY <3>1, <3>2, <3>3, <3>4 DEF BookIsExact
  <2>4. CASE ~AcceptsSnapshot(book, at, ts)
    BY <1>1, <2>2, <2>4 DEF TakeSnapshot, bookVars
  <2> QED BY <2>3, <2>4
<1>4. CASE AppliesDelta
  <2> DEFINE m == Head(queue)
             seq == book.sequence_id
  <2>1. /\ m.final \in 1..Now /\ seq \in 1..Now /\ seq <= m.final /\ m.prev <= seq
    BY <1>i, <1>4, AppliedConnects
  <2>p. m.prev \in Nat
    BY <1>i, <1>4, HeadIsAnnounced DEF AppliesDelta, IInv
  <2>2. book'.sequence_id = m.final /\ known' = known
    BY <1>i, <1>4, FromDeltaFields DEF AppliesDelta
  <2>3. \A p \in Prices : book'.levels[p] =
          IF p \in Changed(m.prev, m.final) THEN books[m.final][p] ELSE book.levels[p]
    <3>1. book' = FromDelta(book, m)
      BY <1>4 DEF AppliesDelta
    <3> HIDE DEF m
    <3>2. ASSUME NEW p \in Prices
          PROVE  FromDelta(book, m).levels[p] =
            IF p \in Changed(m.prev, m.final) THEN books[m.final][p] ELSE book.levels[p]
      BY <1>i, FromDeltaLevels
    <3> QED BY <3>1, <3>2
  <2> HIDE DEF m, seq
  <2>4. seq \in m.prev..m.final
    BY <1>i, <2>1, <2>p
  <2>5. \A p \in Prices : p \notin Changed(m.prev, m.final) => books[seq][p] = books[m.final][p]
    BY <2>4 DEF Changed
  <2>6. books'[m.final] = books[m.final]
    BY <1>g, <2>1
  <2>7. /\ \A p \in known : book.levels[p] = books[seq][p]
        /\ \A p \in Prices : book.levels[p] \in {0, books[seq][p]}
    <3>1. seq > 0
      BY <1>i, <2>1
    <3> QED BY <3>1 DEF BookIsExact, seq
  <2>8. \A p \in known : book'.levels[p] = books[m.final][p]
    BY <1>i, <2>3, <2>5, <2>7
  <2>9. \A p \in Prices : book'.levels[p] \in {0, books[m.final][p]}
    BY <2>3, <2>5, <2>7
  <2> QED BY <2>2, <2>6, <2>8, <2>9 DEF BookIsExact
<1> QED BY <1>1, <1>2, <1>3, <1>4, BookSteps

\* On every venue but Bybit a synchronized book is the venue's book: no level
\* is lost or invented, whatever is repeated, refused, late or cut off.
THEOREM BookCorrect ==
  ASSUME "bybit" \notin Venues
  PROVE  Spec => []SynchronizedBookIsExact
<1>1. Init => BookIsExact
  BY DEF Init, EmptyBook, BookIsExact
<1>2. IInv /\ BookIsExact /\ [Next]_vars => BookIsExact'
  BY ExactNext
<1>3. IInv /\ BookIsExact => SynchronizedBookIsExact
  BY DEF IInv, BookIsPlaced, BookIsExact, SynchronizedBookIsExact
<1> QED BY <1>1, <1>2, <1>3, InvAlways, PTL DEF Spec
=============================================================================
