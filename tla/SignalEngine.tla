---------------------------- MODULE SignalEngine ----------------------------
(* SignalEngine.evaluate_event as it runs in several consumer tasks at      *)
(* once, and SignalDeduplicator: which candidates of which strategies are   *)
(* emitted.  The handler of an accepted event awaits evaluate_event; a      *)
(* strategy's evaluate() is a coroutine bounded by a timeout, and `now` is  *)
(* read once, before the first of them.                                     *)
(*                                                                          *)
(* One symbol; an evaluation returns at most one candidate.                 *)
EXTENDS Integers, Sequences, FiniteSets, SequencesExt

CONSTANTS
  Tasks,         \* consumer tasks that call the event handler
  Registry,      \* the registered strategies, in order
  Requirements,  \* SignalRequirements of each strategy
  Events,        \* events that may arrive
  Venues,
  FreshFor,      \* FreshnessPolicy.threshold
  Cooldown, MaxAge, Timeout, HistorySize,   \* SignalPolicy
  FutureSkew,    \* seconds a signal may lie in the future (5 in the code)
  Ttl,           \* lifetime of a signal with expires_at
  Fingerprints,
  MaxTime, MaxEvents   \* bounds: clock, market events

Places == 1..Len(Registry)
Strategies == {Registry[k] : k \in Places}

\* A strategy name is registered once; policy values are positive.
ASSUME EngineAssumption ==
  /\ Len(Registry) \in Nat /\ IsFiniteSet(Tasks)
  /\ \A j, k \in Places : Registry[j] = Registry[k] => j = k
  /\ Cooldown \in Nat /\ HistorySize \in Nat \ {0}
  /\ MaxAge \in Nat \ {0} /\ Timeout \in Nat \ {0} /\ Ttl \in Nat \ {0}
  /\ FreshFor \in Nat /\ FutureSkew \in Nat
  /\ MaxTime \in Nat \ {0} /\ MaxEvents \in Nat

VARIABLES
  clock,
  updated,   \* FreshnessTracker._updated_at per venue and kind, -1 for never
  history,   \* venues with enough candles whose last closed one is fresh
  task,      \* evaluate_event of each task
  seen,      \* SignalDeduplicator._seen_occurrences, oldest first
  last,      \* SignalDeduplicator._last_emitted, -1 for no entry
  audit,     \* outcomes recorded by _record_audit, counted
  emitted,   \* signals handed to the signal handler
  due,       \* history: decisions that events have called for
  abandoned, \* history: decisions of evaluations that were cancelled
  recorded,  \* history: occurrences that entered seen
  events

vars == <<clock, updated, history, task, seen, last, audit, emitted, due,
          abandoned, recorded, events>>

-----------------------------------------------------------------------------
Kinds == {"ticker", "candle"}
Outcomes == {"not_ready", "no_signal", "emitted", "suppressed", "invalid",
             "error", "timeout"}
NoTask == [place |-> 0, todo |-> {}, now |-> 0, started |-> 0]
Occurrence == Strategies \X Fingerprints \X Int

\* What a strategy may construct: expires_at is 0 when the signal has none, and
\* later than the occurrence otherwise (Signal.__post_init__).  An "alien"
\* signal carries another strategy's identity or symbol.
Candidates(now) ==
  {c \in [fingerprint : Fingerprints, occurred_at : 0..now + FutureSkew + 1,
          expires_at : {0} \cup Ttl..now + FutureSkew + 1 + Ttl, alien : BOOLEAN] :
     c.expires_at \in {0, c.occurred_at + Ttl}}

Init ==
  /\ clock = 1
  /\ updated = [v \in Venues |-> [k \in Kinds |-> clock]]   \* warm-up
  /\ history = Venues
  /\ task = [t \in Tasks |-> NoTask]
  /\ seen = <<>> /\ last = [key \in Strategies \X Fingerprints |-> -1]
  /\ audit = [o \in Outcomes |-> 0]
  /\ emitted = <<>> /\ due = 0 /\ abandoned = 0 /\ recorded = 0 /\ events = 0

-----------------------------------------------------------------------------
(* Readiness                                                                *)

IsFresh(upd, v, kind, now) == upd[v][kind] >= 0 /\ now - upd[v][kind] <= FreshFor

\* _is_ready, after the trigger's own freshness
ReadyVenues(s, upd, now) ==
  {v \in Venues :
     /\ \A kind \in Requirements[s].fresh_data : IsFresh(upd, v, kind, now)
     /\ Requirements[s].needs_history => v \in history}

IsReady(s, e, upd, now) ==
  /\ IsFresh(upd, e.venue, e.kind, now)
  /\ Cardinality(ReadyVenues(s, upd, now)) >= Requirements[s].minimum_venues

\* _strategies_by_kind and the interval filter; open candles trigger nothing.
TriggeredBy(s, e) ==
  /\ e.kind \in Requirements[s].trigger_kinds
  /\ e.kind = "candle" =>
       /\ e.is_closed
       /\ \/ Requirements[s].intervals = {}
          \/ e.interval \in Requirements[s].intervals
Triggered(e) == {k \in Places : TriggeredBy(Registry[k], e)}

-----------------------------------------------------------------------------
(* The loop over the strategies runs without an await up to the first       *)
(* strategy that is ready; the ones before it are recorded as not ready.    *)

Ready(todo, e, upd, now) == {k \in todo : IsReady(Registry[k], e, upd, now)}

Continued(todo, e, upd, now) ==
  LET ready == Ready(todo, e, upd, now)
      k == Min(ready)
  IN  IF ready = {} THEN [entry |-> NoTask, skipped |-> Cardinality(todo)]
      ELSE [entry |-> [place |-> k, todo |-> {j \in todo : j > k}, now |-> now,
                       started |-> clock, event |-> e],
            skipped |-> Cardinality({j \in todo : j < k})]

Idle(t) == task[t].place = 0

\* A task applies an event (which marks it fresh) and awaits its handler.
Receive(t, e) ==
  /\ Idle(t) /\ events < MaxEvents /\ clock <= MaxTime
  /\ events' = events + 1
  /\ updated' = [updated EXCEPT ![e.venue][e.kind] = clock]
  /\ LET c == Continued(Triggered(e), e, updated', clock)
     IN  /\ task' = [task EXCEPT ![t] = c.entry]
         /\ audit' = [audit EXCEPT !["not_ready"] = @ + c.skipped]
  /\ due' = due + Cardinality(Triggered(e))
  /\ UNCHANGED <<clock, history, seen, last, emitted, abandoned, recorded>>

\* One outcome for the strategy at hand, then the rest of the loop.
Decide(t, outcome) ==
  LET c == Continued(task[t].todo, task[t].event, updated, task[t].now)
  IN  /\ task' = [task EXCEPT ![t] = c.entry]
      /\ audit' = [o \in Outcomes |-> audit[o] + (IF o = outcome THEN 1 ELSE 0)
                                        + (IF o = "not_ready" THEN c.skipped ELSE 0)]
      /\ UNCHANGED <<clock, updated, history, due, abandoned, events>>

\* Mutant: the last strategy is awaited without a timeout.
EvaluationTimesOutButLast(t) ==
  /\ ~Idle(t) /\ clock >= task[t].started + Timeout /\ task[t].todo # {}
  /\ Decide(t, "timeout")
  /\ UNCHANGED <<seen, last, emitted, recorded>>

\* wait_for raises TimeoutError.
EvaluationTimesOut(t) ==
  /\ ~Idle(t) /\ clock >= task[t].started + Timeout
  /\ Decide(t, "timeout")
  /\ UNCHANGED <<seen, last, emitted, recorded>>

\* Mutant: an exception of one strategy ends the whole evaluation.
EvaluationFailsAll(t, outcome) ==
  /\ ~Idle(t) /\ outcome \in {"error", "invalid"}
  /\ task' = [task EXCEPT ![t] = NoTask]
  /\ audit' = [audit EXCEPT ![outcome] = @ + 1]
  /\ UNCHANGED <<clock, updated, history, due, abandoned, events, seen, last,
                 emitted, recorded>>

\* An exception, or a result that is not a sequence.
EvaluationFails(t, outcome) ==
  /\ ~Idle(t) /\ outcome \in {"error", "invalid"}
  /\ Decide(t, outcome)
  /\ UNCHANGED <<seen, last, emitted, recorded>>

\* The strategies that a record of the loop leaves to be decided upon.
Awaited(r) == IF r.place = 0 THEN {} ELSE {r.place} \cup r.todo

\* The task is cancelled in its await: the depth lane of a Binance adapter ends
\* for one instrument and cancels the bridges of the others, or the supervisor
\* stops.  CancelledError is no Exception, so it leaves the loop: nothing is
\* recorded of the strategy at hand nor of those after it.
EvaluationCancelled(t) ==
  /\ ~Idle(t)
  /\ task' = [task EXCEPT ![t] = NoTask]
  /\ abandoned' = abandoned + Cardinality(Awaited(task[t]))
  /\ UNCHANGED <<clock, updated, history, seen, last, audit, emitted, due, recorded,
                 events>>

EvaluatesToNothing(t) ==
  /\ ~Idle(t)
  /\ Decide(t, "no_signal")
  /\ UNCHANGED <<seen, last, emitted, recorded>>

\* Mutant: the age is compared with the expiry only.
ValidAtAnyAge(c, now) ==
  ~c.alien /\ now - c.occurred_at >= -FutureSkew
           /\ (c.expires_at # 0 => c.expires_at > now)

\* _validate_signal, at the time read before the first await
Valid(c, now) ==
  /\ ~c.alien
  /\ now - c.occurred_at <= MaxAge
  /\ now - c.occurred_at >= -FutureSkew
  /\ c.expires_at # 0 => c.expires_at > now

-----------------------------------------------------------------------------
(* SignalDeduplicator.accept                                                *)

OccurrenceKey(s, c) == <<s, c.fingerprint, c.occurred_at>>

\* Mutant: the newest occurrence makes room.
RememberedNewestOut(k) == IF Len(seen) < HistorySize THEN Append(seen, k) ELSE seen

\* Mutant: nothing makes room.
RememberedForever(k) == Append(seen, k)

\* The occurrence is remembered before the cooldown is looked at; the oldest
\* ones make room.
Remembered(k) ==
  LET all == Append(seen, k)
  IN  SubSeq(all, 1 + (IF Len(all) > HistorySize THEN Len(all) - HistorySize ELSE 0),
             Len(all))

\* Entries whose cooldown is over are deleted first.
Unexpired(now) ==
  [key \in DOMAIN last |->
     IF last[key] >= 0 /\ now - last[key] >= Cooldown THEN -1 ELSE last[key]]

\* Mutant: a cooldown that lies in the caller's future does not count.
CoolingPastOnly(key, now) ==
  Unexpired(now)[key] >= 0 /\ now >= Unexpired(now)[key]

Cooling(key, now) ==
  Unexpired(now)[key] >= 0 /\ now - Unexpired(now)[key] < Cooldown

CandidateInvalid(t, c) ==
  /\ ~Idle(t) /\ ~Valid(c, task[t].now)
  /\ Decide(t, "invalid")
  /\ UNCHANGED <<seen, last, emitted, recorded>>

CandidateSuppressed(t, c) ==
  LET s == Registry[task[t].place]
      k == OccurrenceKey(s, c)
      now == task[t].now
  IN  /\ ~Idle(t) /\ Valid(c, now)
      /\ \/ /\ Contains(seen, k)
            /\ UNCHANGED <<seen, last, recorded>>
         \/ /\ ~Contains(seen, k)
            /\ Cooldown > 0 /\ Cooling(<<s, c.fingerprint>>, now)
            /\ seen' = Remembered(k) /\ recorded' = recorded + 1
            /\ last' = Unexpired(now)
      /\ Decide(t, "suppressed")
      /\ UNCHANGED emitted

\* The signal handler runs synchronously and its exceptions are swallowed.
CandidateEmitted(t, c) ==
  LET s == Registry[task[t].place]
      k == OccurrenceKey(s, c)
      now == task[t].now
  IN  /\ ~Idle(t) /\ Valid(c, now) /\ ~Contains(seen, k)
      /\ Cooldown > 0 => ~Cooling(<<s, c.fingerprint>>, now)
      /\ seen' = Remembered(k) /\ recorded' = recorded + 1
      /\ last' = IF Cooldown = 0 THEN last
                 ELSE [Unexpired(now) EXCEPT ![<<s, c.fingerprint>>] = now]
      /\ emitted' = Append(emitted,
           [key |-> k, now |-> now, at |-> clock, expires_at |-> c.expires_at,
            rank |-> recorded + 1])
      /\ Decide(t, "emitted")

-----------------------------------------------------------------------------
\* The market state between two evaluations: candle histories come and go.
HistoryChanges(v) ==
  /\ events < MaxEvents /\ events' = events + 1
  /\ history' = IF v \in history THEN history \ {v} ELSE history \cup {v}
  /\ UNCHANGED <<clock, updated, task, seen, last, audit, emitted, due, abandoned,
                 recorded>>

\* Time does not pass a timeout that is due; behind the bound it only passes
\* for evaluations in progress.
Tick ==
  /\ clock < MaxTime \/ \E t \in Tasks : ~Idle(t)
  /\ \A t \in Tasks : ~Idle(t) => clock < task[t].started + Timeout
  /\ clock' = clock + 1
  /\ UNCHANGED <<updated, history, task, seen, last, audit, emitted, due,
                 abandoned, recorded, events>>

Evaluate(t) ==
  \/ EvaluationTimesOut(t)
  \/ \E outcome \in {"error", "invalid"} : EvaluationFails(t, outcome)
  \/ EvaluationCancelled(t)
  \/ EvaluatesToNothing(t)
  \/ \E c \in Candidates(task[t].now) :
       CandidateInvalid(t, c) \/ CandidateSuppressed(t, c) \/ CandidateEmitted(t, c)

Next ==
  \/ \E t \in Tasks : Evaluate(t) \/ \E e \in Events : Receive(t, e)
  \/ \E v \in Venues : HistoryChanges(v)
  \/ Tick

\* Nothing is assumed of a strategy: only time passes and wait_for fires.
Spec ==
  Init /\ [][Next]_vars /\ WF_vars(Tick)
       /\ \A t \in Tasks : WF_vars(EvaluationTimesOut(t))

-----------------------------------------------------------------------------
\* The decisions that the loops in progress still owe.
Pending == {p \in Tasks \X Places : p[2] \in Awaited(task[p[1]])}
Recorded ==
  audit["not_ready"] + audit["no_signal"] + audit["emitted"] + audit["suppressed"]
    + audit["invalid"] + audit["error"] + audit["timeout"]

\* Every variable keeps its type; the memory of occurrences is bounded and
\* holds each of them once.
TypeOK ==
  /\ clock \in 1..MaxTime + Timeout * Len(Registry) /\ history \subseteq Venues
  /\ updated \in [Venues -> [Kinds -> Int]]
  /\ \A t \in Tasks : task[t].place \in {0} \cup Places /\ task[t].todo \subseteq Places
  /\ Len(seen) <= HistorySize /\ IsInjective(seen)
  /\ \A k \in Range(seen) : k \in Occurrence
  /\ last \in [Strategies \X Fingerprints -> Int]
  /\ audit \in [Outcomes -> Nat] /\ abandoned \in Nat /\ events \in 0..MaxEvents

\* A strategy that is not ready, fails, hangs or returns nonsense never costs
\* another one its evaluation: every decision an event calls for is made
\* exactly once or still pending, unless the task itself is cancelled, which
\* abandons the decisions its loop still owes and no others.
NothingSkipped == due = Recorded + Cardinality(Pending) + abandoned

SameFingerprint(x, y) == x.key[1] = y.key[1] /\ x.key[2] = y.key[2]

\* However concurrent evaluations interleave, with times read before their
\* awaits, a signal is emitted again for one strategy and fingerprint no sooner
\* than a cooldown after the time by which the one before was judged.  The times
\* by which both were judged may be closer: an evaluation whose time was read
\* later may delete the first one's entry before one whose time was read earlier
\* looks for it, which takes three evaluations.
CooldownSpaced ==
  \A i, j \in 1..Len(emitted) :
    i < j /\ SameFingerprint(emitted[i], emitted[j])
      => emitted[j].at - emitted[i].now >= Cooldown

\* An occurrence is emitted again only after the bounded memory has been
\* filled by that many other occurrences.
OccurrenceOnce ==
  \A i, j \in 1..Len(emitted) :
    i < j /\ emitted[i].key = emitted[j].key
      => emitted[j].rank - emitted[i].rank > HistorySize

\* Validity is checked at a time that lies before the awaits, so a signal may
\* be emitted too late, but never later than its limits plus one timeout for
\* every strategy evaluated before.
LatenessBounded ==
  \A i \in 1..Len(emitted) :
    LET slack == Timeout * Len(Registry)
    IN  /\ emitted[i].at - emitted[i].key[3] <= MaxAge + slack
        /\ emitted[i].expires_at # 0 => emitted[i].at < emitted[i].expires_at + slack

\* Every evaluation of an event ends.
EvaluationsEnd == \A t \in Tasks : ~Idle(t) ~> Idle(t)

\* Every strategy an event triggers is decided upon once, whatever the other
\* strategies and the evaluations of the other tasks do, unless its own task is
\* cancelled: SignalEngine catches TimeoutError and Exception only.  And a signal
\* is emitted once: not again for its occurrence while that is remembered, and
\* not again for its fingerprint within the cooldown.
DecidedOnce == TypeOK /\ NothingSkipped /\ OccurrenceOnce /\ CooldownSpaced
=============================================================================
