------------------------------ MODULE Candidates ------------------------------
(* The candidate universe: AltcoinCandidateRuntime takes rankings from the    *)
(* all-market scanner, CandidatePool turns them into a stable membership, the *)
(* candidate supervisor warms and registers what is new, and each dynamic     *)
(* adapter moves its WebSocket subscription from one membership to the next   *)
(* while connections drop and come back.                                      *)
(*                                                                            *)
(* A step is what runs between two awaits.  In reconcile() only the warm-up   *)
(* requests wait: the update queues are unbounded, so that everything after   *)
(* the last answer is one step.                                               *)
EXTENDS Integers, FiniteSets, Sequences, FiniteSetsExt

CONSTANTS
  Symbols, Adapters,
  Capacity, Residency,       \* CandidatePool
  Refresh,                   \* refresh_seconds
  Emission, CandidateLimit,  \* the scanner
  RetryBase, RetryMax,       \* reconnect_seconds, reconnect_max_seconds
  MaxTime, MaxFailures, MaxDrops    \* bounds

ASSUME CandidateAssumption ==
  /\ IsFiniteSet(Symbols) /\ Symbols # {} /\ IsFiniteSet(Adapters)
  /\ {Capacity, Residency, Refresh, Emission, CandidateLimit, RetryBase} \subseteq Nat \ {0}
  /\ RetryMax \in Nat /\ RetryBase <= RetryMax
  /\ MaxTime \in Nat \ {0} /\ MaxFailures \in Nat /\ MaxDrops \in Nat

\* The powers a retry delay is computed with.
ASSUME PowersAssumption == \A n \in 0..10 : 2 ^ n \in Nat

VARIABLES
  now,          \* the clock, from 1
  admitted,     \* _admissions: when a symbol was admitted, 0 for none
  phase,        \* where the runtime is
  stop,         \* stop_event
  emitted,      \* last_emission of this scanner generation, 0 for None
  attempt, retryAt,         \* _reconnect_attempt; the end of its delay
  symbols, refreshed,       \* _current_symbols, _last_refresh
  target, started,          \* arguments of the reconcile() in progress
  candidates, instruments,  \* the supervisor's symbols, and its instruments by adapter
  warmed,       \* by adapter: instruments registered with their candles
  active,       \* by adapter: _active_exchange_symbols
  updates,      \* by adapter: the queue of the stream, NoQueue for none
  stream,       \* by adapter: the connection
  subscribed,   \* by adapter: subscription sent first, then what the venue has
  enteredAt,    \* history: when each symbol was last admitted to the pool
  failures, drops

runtime == <<phase, emitted, attempt, retryAt, symbols, refreshed, target, started>>
supervisor == <<candidates, instruments, warmed>>
adapter == <<active, updates, stream, subscribed>>
vars == <<now, admitted, stop, runtime, supervisor, adapter, enteredAt, failures, drops>>

-----------------------------------------------------------------------------
NoQueue == <<[method |-> "NONE", params |-> {}]>>
Phases == {"scanning", "waiting", "preparing", "closing", "closed"}
Streams == {"down", "connecting", "open"}

Init ==
  /\ now = 1 /\ stop = FALSE
  /\ admitted = [s \in Symbols |-> 0] /\ enteredAt = [s \in Symbols |-> 0]
  /\ phase = "scanning" /\ emitted = 0 /\ attempt = 0 /\ retryAt = 0
  /\ symbols = {} /\ refreshed = 0 /\ target = {} /\ started = 0
  /\ candidates = {} /\ instruments = [a \in Adapters |-> {}] /\ warmed = [a \in Adapters |-> {}]
  /\ active = [a \in Adapters |-> {}] /\ updates = [a \in Adapters |-> NoQueue]
  /\ stream = [a \in Adapters |-> "down"] /\ subscribed = [a \in Adapters |-> {}]
  /\ failures = 0 /\ drops = 0

-----------------------------------------------------------------------------
(* CandidatePool                                                             *)

\* Rankings: rank() drops what is thin, wide or stale and cuts to the limit.
Rankings == {r \in SUBSET Symbols : r # {} /\ Cardinality(r) <= CandidateLimit}

\* Mutant: only what is ranked stays.
RetainedIfRanked(ranked) == {s \in Symbols : admitted[s] # 0 /\ s \in ranked}

Retained(ranked) ==
  {s \in Symbols : admitted[s] # 0 /\ (admitted[s] > now - Residency \/ s \in ranked)}

\* Mutant: everything ranked is admitted.
AdmitsAll(ranked) == {ranked \ Retained(ranked)}

\* Newcomers enter in the order of the ranking, which may be any, while there
\* is room.
Admissions(ranked) ==
  LET new  == ranked \ Retained(ranked)
      room == Capacity - Cardinality(Retained(ranked))
  IN  kSubset(Min({Cardinality(new), room}), new)

UpdatePool(ranked, new) ==
  /\ admitted' = [s \in Symbols |-> IF s \in Retained(ranked) THEN admitted[s]
                                    ELSE IF s \in new THEN now ELSE 0]
  /\ enteredAt' = [s \in Symbols |-> IF s \in new THEN now ELSE enteredAt[s]]

-----------------------------------------------------------------------------
(* AltcoinCandidateRuntime                                                   *)

Emits == phase = "scanning" /\ ~stop /\ (emitted = 0 \/ now - emitted >= Emission)

\* Mutant: the time of the last refresh is not looked at.
DueAnyTime(pool) == pool # {} /\ pool # symbols

Due(pool) == /\ pool # {} /\ pool # symbols
             /\ symbols = {} \/ now - refreshed >= Refresh

\* _accept_snapshot with nothing to do for the supervisor
SnapshotChangesNothing(ranked, new) ==
  /\ Emits /\ emitted' = now /\ attempt' = 0
  /\ UpdatePool(ranked, new)
  /\ ~Due(Retained(ranked) \cup new)
  /\ UNCHANGED <<now, stop, phase, retryAt, symbols, refreshed, target, started, supervisor,
                 adapter, failures, drops>>

\* reconcile() waits for warm-up requests (for none when nothing is new).
SnapshotReconciles(ranked, new) ==
  LET pool == Retained(ranked) \cup new
  IN  /\ Emits /\ emitted' = now /\ attempt' = 0
      /\ UpdatePool(ranked, new)
      /\ Due(pool)
      /\ phase' = "preparing" /\ target' = pool /\ started' = now
      /\ UNCHANGED <<now, stop, retryAt, symbols, refreshed, supervisor, adapter, failures, drops>>

RetryDelay(n) == Min({RetryMax, RetryBase * 2 ^ Min({n - 1, 10})})

\* The scanner's discovery or one of its two streams fails.
ScannerFails ==
  /\ phase = "scanning" /\ ~stop /\ failures < MaxFailures
  /\ failures' = failures + 1
  /\ phase' = "waiting" /\ attempt' = attempt + 1 /\ retryAt' = now + RetryDelay(attempt + 1)
  /\ UNCHANGED <<now, admitted, stop, emitted, symbols, refreshed, target, started, supervisor,
                 adapter, enteredAt, drops>>

\* A new generation of the scanner emits as soon as it can rank.
ScannerRetries ==
  /\ phase = "waiting" /\ now >= retryAt /\ ~stop
  /\ phase' = "scanning" /\ emitted' = 0 /\ retryAt' = 0
  /\ UNCHANGED <<now, admitted, stop, attempt, symbols, refreshed, target, started, supervisor,
                 adapter, enteredAt, failures, drops>>

\* Mutant: a stop during the retry delay is not seen.
PhaseAfterScan(p, stopped) == IF stopped /\ p = "scanning" THEN "closing" ELSE p

\* The stop wins over a snapshot and over the retry delay, not over a
\* reconcile() in progress.
PhaseAfter(p, stopped) == IF stopped /\ p \in {"scanning", "waiting"} THEN "closing" ELSE p

-----------------------------------------------------------------------------
(* MarketDataSupervisor.reconcile and the adapters' reconcile_instruments    *)

Update(method, params) == IF params = {} THEN <<>> ELSE <<[method |-> method, params |-> params]>>

\* Mutant: what is gone is unsubscribed once, and what is new not at all.
QueuedWithoutAdditions(queue, from, to) ==
  IF queue = NoQueue THEN NoQueue ELSE queue \o Update("UNSUBSCRIBE", from \ to)

\* reconcile_instruments: the difference goes to the queue of the stream there is.
Queued(queue, from, to) ==
  IF queue = NoQueue THEN NoQueue
  ELSE queue \o Update("SUBSCRIBE", to \ from) \o Update("UNSUBSCRIBE", from \ to)

\* Mutant: additions are subscribed before their candles are there.
ReconciledUnwarmed ==
  /\ active' = [a \in Adapters |-> target]
  /\ updates' = [a \in Adapters |-> Queued(updates[a], active[a], target)]
  /\ UNCHANGED <<warmed, instruments, candidates>>

\* Additions first, on every adapter, and then removals.
Reconciled ==
  LET added == target \ candidates  removed == candidates \ target
  IN  /\ warmed' = [a \in Adapters |-> warmed[a] \cup added]
      /\ instruments' = [a \in Adapters |-> (instruments[a] \ removed) \cup added]
      /\ active' = instruments'
      /\ updates' = [a \in Adapters |->
           LET both == instruments[a] \cup added
           IN  Queued(Queued(updates[a], active[a], both), both, instruments'[a])]
      /\ candidates' = target

PrepareSucceeds ==
  /\ phase = "preparing"
  /\ Reconciled
  /\ symbols' = target /\ refreshed' = started
  /\ phase' = PhaseAfter("scanning", stop) /\ target' = {} /\ started' = 0
  /\ UNCHANGED <<now, admitted, stop, emitted, attempt, retryAt, stream, subscribed, enteredAt,
                 failures, drops>>

\* Mutant: the new membership is kept although it could not be prepared.
PrepareFailsButKept ==
  /\ phase = "preparing" /\ target \ candidates # {} /\ failures < MaxFailures
  /\ failures' = failures + 1
  /\ symbols' = target
  /\ phase' = PhaseAfter("scanning", stop) /\ target' = {} /\ started' = 0
  /\ UNCHANGED <<now, admitted, stop, emitted, attempt, retryAt, refreshed, supervisor, adapter,
                 enteredAt, drops>>

\* A request for a new candidate fails: the subscriptions are retained, and
\* the next snapshot may try again at once.
PrepareFails ==
  /\ phase = "preparing" /\ target \ candidates # {} /\ failures < MaxFailures
  /\ failures' = failures + 1
  /\ symbols' = candidates
  /\ phase' = PhaseAfter("scanning", stop) /\ target' = {} /\ started' = 0
  /\ UNCHANGED <<now, admitted, stop, emitted, attempt, retryAt, refreshed, supervisor, adapter,
                 enteredAt, drops>>

-----------------------------------------------------------------------------
(* One generation of an adapter's critical stream                            *)

Monitoring == phase \notin {"closing", "closed"}

\* Mutant: the stream subscribes to what the supervisor knew and is told later
\* of its queue.
ConnectWithoutQueue(a) ==
  /\ Monitoring /\ stream[a] = "down"
  /\ stream' = [stream EXCEPT ![a] = "connecting"]
  /\ subscribed' = [subscribed EXCEPT ![a] = active[a]]
  /\ UNCHANGED <<now, admitted, stop, runtime, supervisor, active, updates, enteredAt, failures, drops>>

\* _stream_endpoint: its queue exists before the connection does, and its first
\* message is made from the membership at that moment.
Connect(a) ==
  /\ Monitoring /\ stream[a] = "down"
  /\ stream' = [stream EXCEPT ![a] = "connecting"]
  /\ updates' = [updates EXCEPT ![a] = <<>>]
  /\ subscribed' = [subscribed EXCEPT ![a] = active[a]]
  /\ UNCHANGED <<now, admitted, stop, runtime, supervisor, active, enteredAt, failures, drops>>

Opened(a) ==
  /\ stream[a] = "connecting"
  /\ stream' = [stream EXCEPT ![a] = "open"]
  /\ UNCHANGED <<now, admitted, stop, runtime, supervisor, active, updates, subscribed, enteredAt,
                 failures, drops>>

Applied(have, update) ==
  IF update.method = "SUBSCRIBE" THEN have \cup update.params ELSE have \ update.params

\* stream_json_messages takes an update between two messages and sends it.
SendUpdate(a) ==
  /\ stream[a] = "open" /\ updates[a] \notin {NoQueue, <<>>}
  /\ subscribed' = [subscribed EXCEPT ![a] = Applied(@, Head(updates[a]))]
  /\ updates' = [updates EXCEPT ![a] = Tail(@)]
  /\ UNCHANGED <<now, admitted, stop, runtime, supervisor, active, stream, enteredAt, failures, drops>>

Ends(a) ==
  /\ stream' = [stream EXCEPT ![a] = "down"]
  /\ updates' = [updates EXCEPT ![a] = NoQueue]
  /\ subscribed' = [subscribed EXCEPT ![a] = {}]

\* The connection fails or is lost; an update being sent is lost with it.
Drop(a) ==
  /\ stream[a] # "down" /\ drops < MaxDrops
  /\ drops' = drops + 1
  /\ Ends(a)
  /\ UNCHANGED <<now, admitted, stop, runtime, supervisor, active, enteredAt, failures>>

-----------------------------------------------------------------------------
(* Stopping                                                                  *)

RequestStop ==
  /\ ~stop
  /\ stop' = TRUE /\ phase' = PhaseAfter(phase, TRUE)
  /\ emitted' = 0 /\ retryAt' = 0
  /\ UNCHANGED <<now, admitted, attempt, symbols, refreshed, target, started, supervisor, adapter,
                 enteredAt, failures, drops>>

\* The supervisor's run() cancels its consumers and waits for them.
CancelConsumer(a) ==
  /\ phase = "closing" /\ stream[a] # "down"
  /\ Ends(a)
  /\ UNCHANGED <<now, admitted, stop, runtime, supervisor, active, enteredAt, failures, drops>>

Closed ==
  /\ phase = "closing" /\ \A a \in Adapters : stream[a] = "down"
  /\ phase' = "closed"
  /\ UNCHANGED <<now, admitted, stop, emitted, attempt, retryAt, symbols, refreshed, target,
                 started, supervisor, adapter, enteredAt, failures, drops>>

\* (Once a stop is requested nothing looks at the clock any more.)
Tick ==
  /\ now < MaxTime /\ ~stop
  /\ now' = now + 1
  /\ UNCHANGED <<admitted, stop, runtime, supervisor, adapter, enteredAt, failures, drops>>

Next ==
  \/ \E ranked \in Rankings : \E new \in Admissions(ranked) :
       SnapshotChangesNothing(ranked, new) \/ SnapshotReconciles(ranked, new)
  \/ ScannerFails \/ ScannerRetries \/ PrepareSucceeds \/ PrepareFails
  \/ RequestStop \/ Closed \/ Tick
  \/ \E a \in Adapters : Connect(a) \/ Opened(a) \/ SendUpdate(a) \/ Drop(a) \/ CancelConsumer(a)

Spec == Init /\ [][Next]_vars

\* Requests and connection attempts end, and every task gets its turn; snapshots
\* and stops need not come.
Fairness ==
  /\ WF_vars(PrepareSucceeds \/ PrepareFails) /\ WF_vars(Closed)
  /\ \A a \in Adapters :
       /\ WF_vars(Connect(a)) /\ WF_vars(Opened(a) \/ SendUpdate(a)) /\ WF_vars(CancelConsumer(a))
FairSpec == Spec /\ Fairness

-----------------------------------------------------------------------------
\* Every variable keeps its type, and the pool keeps to its capacity although
\* locked symbols and newly ranked ones compete for it.
TypeOK ==
  /\ now \in 1..MaxTime /\ stop \in BOOLEAN
  /\ admitted \in [Symbols -> 0..MaxTime]
  /\ Cardinality({s \in Symbols : admitted[s] # 0}) <= Capacity
  /\ phase \in Phases /\ emitted \in 0..MaxTime /\ refreshed \in 0..MaxTime
  /\ attempt \in 0..MaxFailures /\ retryAt \in 0..MaxTime + RetryMax
  /\ symbols \subseteq Symbols /\ target \subseteq Symbols /\ candidates \subseteq Symbols
  /\ instruments \in [Adapters -> SUBSET Symbols] /\ warmed \in [Adapters -> SUBSET Symbols]
  /\ active \in [Adapters -> SUBSET Symbols] /\ subscribed \in [Adapters -> SUBSET Symbols]
  /\ stream \in [Adapters -> Streams]
  /\ \A a \in Adapters : updates[a] = NoQueue <=> stream[a] = "down"

\* While no reconcile() is in progress, and after one failed too, the runtime,
\* the supervisor and every adapter have the same candidates.
MonitorsAgree ==
  /\ phase # "preparing" => symbols = candidates
  /\ \A a \in Adapters : instruments[a] = candidates /\ active[a] = candidates

\* What a venue has after the whole queue: the last update that names a symbol
\* decides about it.
Reached(have, queue) ==
  {s \in Symbols :
     \/ s \in have /\ \A i \in DOMAIN queue : s \notin queue[i].params
     \/ \E i \in DOMAIN queue :
          /\ queue[i].method = "SUBSCRIBE" /\ s \in queue[i].params
          /\ \A j \in i + 1..Len(queue) : s \notin queue[j].params}

\* Whatever a stream has not sent yet brings its subscription to the present
\* membership: no update is lost or doubled by a connection that opened, broke
\* or came back while the membership changed.
UpdatesReachMembership ==
  \A a \in Adapters : stream[a] # "down" => Reached(subscribed[a], updates[a]) = active[a]

\* A venue is asked only for instruments whose history is there.
WarmedBeforeSubscribed ==
  \A a \in Adapters :
    /\ subscribed[a] \subseteq warmed[a]
    /\ updates[a] # NoQueue => \A i \in DOMAIN updates[a] :
         updates[a][i].method = "SUBSCRIBE" => updates[a][i].params \subseteq warmed[a]

\* "residency is selection stability": a candidate leaves the monitor no sooner
\* than its residency in the pool allows, whatever later rankings say.
ResidencyRespected ==
  [][\A s \in candidates \ candidates' : now - enteredAt[s] >= Residency]_vars

\* Two changes of the monitored membership were decided at least the refresh
\* interval apart.
RefreshSpaced ==
  [][candidates # {} /\ candidates' # candidates => refreshed' - refreshed >= Refresh]_vars

\* While the monitor runs its subscriptions come to the membership again and
\* again; they are lost only for a while.
SubscriptionsSettle ==
  []<>(~Monitoring \/ \A a \in Adapters : stream[a] = "open" /\ subscribed[a] = candidates)

\* A stop ends the runtime with every connection closed.
StopCloses == stop ~> (phase = "closed" /\ \A a \in Adapters : stream[a] = "down")

\* Runtime, supervisor, adapters and streams have one membership, and what a
\* stream subscribes to has been warmed up.
MembershipAgrees ==
  TypeOK /\ MonitorsAgree /\ UpdatesReachMembership /\ WarmedBeforeSubscribed

\* The membership changes no faster than residency and refresh interval allow.
MembershipIsSteady == ResidencyRespected /\ RefreshSpaced

\* Streams come to the membership while the runtime runs and are closed when it
\* stops.
StreamsSettle == SubscriptionsSettle /\ StopCloses
=============================================================================
