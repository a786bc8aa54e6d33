---------------------------- MODULE RestTransport -----------------------------
(* Public REST calls of one adapter: retry_exchange_call around a request     *)
(* that waits for the AsyncRateLimiter and uses the one session of its        *)
(* AioHttpTransport, which is closed and made anew after repeated DNS         *)
(* failures; and the open-interest poll, which calls without retrying and     *)
(* waits longer the longer it fails.                                          *)
(*                                                                            *)
(* Tasks interleave where they await: for the limiter's lock, asleep inside   *)
(* it, for the session lock, for an answer, for a session to close, and in a  *)
(* delay.  There is no clock: what is kept is how long ago a call was         *)
(* granted, up to the limiter's period, and how long a delay still lasts.     *)
EXTENDS Integers, FiniteSets, Sequences, FiniteSetsExt, SequencesExt

CONSTANTS
  Callers, Pollers,            \* tasks that call with and without retries
  MaxCalls, Period,            \* AsyncRateLimiter
  MaxAttempts, BaseDelay, MaxDelay,   \* RetryPolicy
  Threshold,                   \* dns_failure_rebuild_threshold
  PollDelay, MaxPollDelay,     \* _poll_seconds, _supplemental_max_backoff_seconds
  RetryAfters,                 \* Retry-After values venues send
  MaxPollFailures              \* bound: more failures do not make the pause longer

Tasks == Callers \cup Pollers

ASSUME RestAssumption ==
  /\ IsFiniteSet(Tasks) /\ Callers \cap Pollers = {} /\ "nobody" \notin Tasks
  /\ {MaxCalls, Period, MaxAttempts, BaseDelay, Threshold, PollDelay} \subseteq Nat \ {0}
  /\ MaxDelay \in Nat /\ BaseDelay <= MaxDelay
  /\ MaxPollDelay \in Nat /\ PollDelay <= MaxPollDelay
  /\ RetryAfters \subseteq Nat
  /\ MaxPollFailures \in Nat \ {0}
  /\ MaxPollFailures >= 6 \/ PollDelay * 2 ^ (MaxPollFailures - 1) >= MaxPollDelay

VARIABLES
  at,           \* where each task is
  attempt,      \* of the call in progress
  delay,        \* how long a task still waits
  asked,        \* history: how long the venue still wants a call not to be repeated
  calls,        \* _calls: how long ago each remembered call was granted
  granted,      \* history: the same for every grant within the last period
  limiterLock, sessionLock,    \* holders
  session,      \* _session, 0 for None
  sessions,     \* state of each session
  on,           \* the session of each request
  dnsFailures,  \* _consecutive_dns_failures
  pollFailures  \* _open_interest_poll_failures, up to its last doubling

limiter == <<calls, granted, limiterLock>>
transport == <<sessionLock, session, sessions, on, dnsFailures>>
vars == <<at, attempt, delay, asked, limiter, transport, pollFailures>>

-----------------------------------------------------------------------------
\* A closed session nobody refers to stands for the next one to be made.
Sessions == 1..Cardinality(Tasks) + 1
Places == {"idle", "limiter", "asleep", "client", "request", "reset", "closing", "delay", "cancelled"}
Attempts(c) == IF c \in Callers THEN MaxAttempts ELSE 1

Init ==
  /\ at = [c \in Tasks |-> "idle"] /\ attempt = [c \in Tasks |-> 0]
  /\ delay = [c \in Tasks |-> 0] /\ asked = [c \in Tasks |-> 0]
  /\ calls = <<>> /\ granted = <<>>
  /\ limiterLock = "nobody" /\ sessionLock = "nobody"
  /\ session = 0 /\ sessions = [s \in Sessions |-> "closed"] /\ on = [c \in Tasks |-> 0]
  /\ dnsFailures = 0 /\ pollFailures = 0

To(c, place) == at' = [at EXCEPT ![c] = place]

\* A task that waits is before one that comes: asyncio.Lock is fair.
Free(lock, place) == lock = "nobody" /\ \A c \in Tasks : at[c] # place

-----------------------------------------------------------------------------
(* The session                                                               *)

Unused == {s \in Sessions : sessions[s] = "closed" /\ \A c \in Tasks : on[c] # s}

\* _client, and the request begun with what it returns
Client(c) ==
  LET s == IF session # 0 /\ sessions[session] = "open" THEN session ELSE Min(Unused)
  IN  /\ To(c, "request")
      /\ session' = s /\ on' = [on EXCEPT ![c] = s]
      /\ sessions' = [sessions EXCEPT ![s] = "open"]

\* get_json up to its first wait
GetJson(c) ==
  \/ /\ Free(sessionLock, "client") /\ Free(sessionLock, "reset")
     /\ Client(c)
  \/ /\ ~(Free(sessionLock, "client") /\ Free(sessionLock, "reset"))
     /\ To(c, "client")
     /\ UNCHANGED <<session, sessions, on>>

AcquireClient(c) ==
  /\ at[c] = "client" /\ sessionLock = "nobody"
  /\ Client(c)
  /\ UNCHANGED <<attempt, delay, asked, limiter, sessionLock, dnsFailures, pollFailures>>

-----------------------------------------------------------------------------
(* AsyncRateLimiter.acquire                                                  *)

Recent(times) == SelectSeq(times, LAMBDA age : age < Period)

\* Mutant: a call is forgotten one moment too early.
RoomTooEarly == Len(SelectSeq(calls, LAMBDA age : age < Period - 1)) < MaxCalls

Room == Len(Recent(calls)) < MaxCalls

Grant(c) ==
  /\ calls' = Append(Recent(calls), 0) /\ granted' = Append(Recent(granted), 0)
  /\ limiterLock' = "nobody"
  /\ GetJson(c)

Acquire(c) ==
  /\ \/ Room /\ Grant(c)
     \/ /\ ~Room /\ To(c, "asleep") /\ limiterLock' = c
        /\ calls' = Recent(calls)
        /\ UNCHANGED <<granted, session, sessions, on>>

\* One attempt of a call
Attempt(c) ==
  \/ Free(limiterLock, "limiter") /\ Acquire(c)
  \/ /\ ~Free(limiterLock, "limiter") /\ To(c, "limiter")
     /\ UNCHANGED <<limiter, session, sessions, on>>

Begin(c) ==
  /\ at[c] \in {"idle", "cancelled"}
  /\ attempt' = [attempt EXCEPT ![c] = 1]
  /\ Attempt(c)
  /\ UNCHANGED <<delay, asked, sessionLock, dnsFailures, pollFailures>>

AcquireLimiter(c) ==
  /\ at[c] = "limiter" /\ limiterLock = "nobody"
  /\ Acquire(c)
  /\ UNCHANGED <<attempt, delay, asked, sessionLock, dnsFailures, pollFailures>>

\* The sleep lasts until the oldest remembered call leaves the window.
WakeInLimiter(c) ==
  /\ at[c] = "asleep" /\ Room
  /\ Grant(c)
  /\ UNCHANGED <<attempt, delay, asked, sessionLock, dnsFailures, pollFailures>>

-----------------------------------------------------------------------------
(* Outcomes                                                                  *)

Backoff(n) == Min({MaxDelay, BaseDelay * 2 ^ (n - 1)})

\* Mutant: Retry-After is not looked at.
DelaysByBackoff(n, retryAfter) == {Backoff(n)}

\* RetryPolicy.delay, with any jitter
Delays(n, retryAfter) ==
  IF retryAfter # {} THEN {Min({MaxDelay, r}) : r \in retryAfter}
  ELSE {Backoff(n), Min({MaxDelay, Backoff(n) + 1})}

PollPause(failures) ==
  IF failures = 0 THEN PollDelay ELSE Min({MaxPollDelay, PollDelay * 2 ^ Min({failures - 1, 5})})

\* Mutant: an error of the poll ends it.
OverEndsPoll(c, failed) ==
  /\ attempt' = [attempt EXCEPT ![c] = 0] /\ asked' = [asked EXCEPT ![c] = 0]
  /\ \/ (c \in Callers \/ failed) /\ To(c, "idle") /\ UNCHANGED <<delay, pollFailures>>
     \/ /\ c \in Pollers /\ ~failed /\ To(c, "delay")
        /\ pollFailures' = 0 /\ delay' = [delay EXCEPT ![c] = PollPause(0)]

\* A call is over.  The poll goes on after a pause, whatever happened.
Over(c, failed) ==
  /\ attempt' = [attempt EXCEPT ![c] = 0] /\ asked' = [asked EXCEPT ![c] = 0]
  /\ \/ c \in Callers /\ To(c, "idle") /\ UNCHANGED <<delay, pollFailures>>
     \/ LET n == IF failed THEN Min({pollFailures + 1, MaxPollFailures}) ELSE 0
        IN  /\ c \in Pollers /\ To(c, "delay")
            /\ pollFailures' = n /\ delay' = [delay EXCEPT ![c] = PollPause(n)]

\* Mutant: the last attempt is followed by a delay and another attempt.
RetryOnceMore(c, retryAfter) ==
  \E d \in Delays(attempt[c], retryAfter) :
    /\ To(c, "delay") /\ delay' = [delay EXCEPT ![c] = d]
    /\ asked' = [asked EXCEPT ![c] = IF retryAfter = {} THEN 0 ELSE Min({MaxDelay, Min(retryAfter)})]
    /\ UNCHANGED <<attempt, pollFailures>>

\* retry_exchange_call after a retryable failure
Retry(c, retryAfter) ==
  \/ attempt[c] >= Attempts(c) /\ Over(c, TRUE)
  \/ \E d \in Delays(attempt[c], retryAfter) :
       /\ attempt[c] < Attempts(c)
       /\ To(c, "delay") /\ delay' = [delay EXCEPT ![c] = d]
       /\ asked' = [asked EXCEPT ![c] = IF retryAfter = {} THEN 0 ELSE Min({MaxDelay, Min(retryAfter)})]
       /\ UNCHANGED <<attempt, pollFailures>>

Ended(c) == on' = [on EXCEPT ![c] = 0]
InFlight(c) == at[c] = "request" /\ sessions[on[c]] = "open"

Answered(c) ==
  /\ InFlight(c) /\ Ended(c)
  /\ dnsFailures' = 0 /\ Over(c, FALSE)
  /\ UNCHANGED <<limiter, sessionLock, session, sessions>>

\* An HTTP error or an error code that no retry helps
Refused(c) ==
  /\ InFlight(c) /\ Ended(c)
  /\ Over(c, TRUE)
  /\ UNCHANGED <<limiter, sessionLock, session, sessions, dnsFailures>>

\* A temporary HTTP status, or a venue's code for its own rate limit
Unavailable(c, retryAfter) ==
  /\ InFlight(c) /\ Ended(c)
  /\ Retry(c, retryAfter)
  /\ UNCHANGED <<limiter, sessionLock, session, sessions, dnsFailures>>

\* Also what happens to a request whose session another task closed.
ConnectionFails(c) ==
  /\ at[c] = "request" /\ Ended(c)
  /\ dnsFailures' = 0 /\ Retry(c, {})
  /\ UNCHANGED <<limiter, sessionLock, session, sessions>>

DnsFails(c) ==
  /\ InFlight(c) /\ Ended(c) /\ dnsFailures + 1 < Threshold
  /\ dnsFailures' = dnsFailures + 1 /\ Retry(c, {})
  /\ UNCHANGED <<limiter, sessionLock, session, sessions>>

\* Mutant: the session is replaced without being closed.
ResetForgets(c) ==
  /\ session' = 0 /\ UNCHANGED <<sessions, sessionLock>>
  /\ Retry(c, {})

\* _reset_session once it has the lock
Reset(c) ==
  \/ /\ session # 0
     /\ session' = 0 /\ sessions' = [sessions EXCEPT ![session] = "closing"]
     /\ To(c, "closing") /\ sessionLock' = c
     /\ UNCHANGED <<attempt, delay, asked, pollFailures>>
  \/ /\ session = 0
     /\ UNCHANGED <<session, sessions, sessionLock>>
     /\ Retry(c, {})

DnsFailsAgain(c) ==
  /\ InFlight(c) /\ Ended(c) /\ dnsFailures + 1 >= Threshold
  /\ dnsFailures' = 0
  /\ \/ /\ Free(sessionLock, "client") /\ Free(sessionLock, "reset") /\ Reset(c)
     \/ /\ ~(Free(sessionLock, "client") /\ Free(sessionLock, "reset")) /\ To(c, "reset")
        /\ UNCHANGED <<attempt, delay, asked, pollFailures, session, sessions, sessionLock>>
  /\ UNCHANGED limiter

AcquireToReset(c) ==
  /\ at[c] = "reset" /\ sessionLock = "nobody"
  /\ Reset(c)
  /\ UNCHANGED <<limiter, on, dnsFailures>>

SessionCloses(c) ==
  /\ at[c] = "closing"
  /\ sessions' = [s \in Sessions |-> IF sessions[s] = "closing" THEN "closed" ELSE sessions[s]]
  /\ sessionLock' = "nobody"
  /\ Retry(c, {})
  /\ UNCHANGED <<limiter, session, on, dnsFailures>>

DelayEnds(c) ==
  /\ at[c] = "delay" /\ delay[c] = 0
  /\ attempt' = [attempt EXCEPT ![c] = @ + 1]
  /\ Attempt(c)
  /\ UNCHANGED <<delay, asked, sessionLock, dnsFailures, pollFailures>>

\* Mutant: a task cancelled in its sleep keeps the limiter's lock.
CancelKeepsLock(c) ==
  /\ at[c] \notin {"idle", "cancelled"}
  /\ To(c, IF c \in Callers THEN "idle" ELSE "cancelled") /\ Ended(c)
  /\ attempt' = [attempt EXCEPT ![c] = 0] /\ delay' = [delay EXCEPT ![c] = 0]
  /\ asked' = [asked EXCEPT ![c] = 0]
  /\ sessionLock' = IF sessionLock = c THEN "nobody" ELSE sessionLock
  /\ sessions' = [s \in Sessions |->
       IF sessionLock = c /\ sessions[s] = "closing" THEN "closed" ELSE sessions[s]]
  /\ UNCHANGED <<calls, granted, limiterLock, session, dnsFailures, pollFailures>>

\* The supervisor cancels a task at any of its waits; locks are given back.
Cancel(c) ==
  /\ at[c] \notin {"idle", "cancelled"}
  /\ To(c, IF c \in Callers THEN "idle" ELSE "cancelled") /\ Ended(c)
  /\ attempt' = [attempt EXCEPT ![c] = 0] /\ delay' = [delay EXCEPT ![c] = 0]
  /\ asked' = [asked EXCEPT ![c] = 0]
  /\ limiterLock' = IF limiterLock = c THEN "nobody" ELSE limiterLock
  /\ sessionLock' = IF sessionLock = c THEN "nobody" ELSE sessionLock
  /\ sessions' = [s \in Sessions |->
       IF sessionLock = c /\ sessions[s] = "closing" THEN "closed" ELSE sessions[s]]
  /\ UNCHANGED <<calls, granted, session, dnsFailures, pollFailures>>

Older(times) == [i \in DOMAIN times |-> Min({Period, times[i] + 1})]
Less(waits) == [c \in Tasks |-> Max({0, waits[c] - 1})]

Tick ==
  /\ calls' = Older(calls) /\ granted' = Recent(Older(granted))
  /\ delay' = Less(delay) /\ asked' = Less(asked)
  /\ UNCHANGED <<at, attempt, limiterLock, transport, pollFailures>>

Next ==
  \/ Tick
  \/ \E c \in Tasks :
       \/ Begin(c) \/ AcquireLimiter(c) \/ WakeInLimiter(c) \/ AcquireClient(c)
       \/ Answered(c) \/ Refused(c) \/ ConnectionFails(c) \/ DnsFails(c) \/ DnsFailsAgain(c)
       \/ \E r \in RetryAfters : Unavailable(c, {r})
       \/ Unavailable(c, {})
       \/ AcquireToReset(c) \/ SessionCloses(c) \/ DelayEnds(c) \/ Cancel(c)

Spec == Init /\ [][Next]_vars

\* Time passes, requests are answered or time out, sessions close, and locks
\* are handed on in order.
Fairness ==
  /\ WF_vars(Tick)
  /\ \A c \in Tasks :
       /\ WF_vars(WakeInLimiter(c)) /\ WF_vars(SessionCloses(c)) /\ WF_vars(DelayEnds(c))
       /\ WF_vars(Answered(c) \/ ConnectionFails(c))
       /\ SF_vars(AcquireLimiter(c)) /\ SF_vars(AcquireClient(c) \/ AcquireToReset(c))
FairSpec == Spec /\ Fairness

-----------------------------------------------------------------------------
\* Every variable keeps its type; each lock belongs to the task that sleeps or
\* closes a session inside it, and a call makes no more attempts than allowed.
TypeOK ==
  /\ at \in [Tasks -> Places] /\ attempt \in [Tasks -> 0..MaxAttempts]
  /\ \A c \in Tasks : attempt[c] <= Attempts(c)
  /\ delay \in [Tasks -> 0..Max({MaxDelay, MaxPollDelay})] /\ asked \in [Tasks -> 0..MaxDelay]
  /\ calls \in Seq(0..Period) /\ granted \in Seq(0..Period)
  /\ \A c \in Tasks : /\ limiterLock = c <=> at[c] = "asleep"
                      /\ sessionLock = c <=> at[c] = "closing"
                      /\ on[c] # 0 <=> at[c] = "request"
  /\ session \in Sessions \cup {0} /\ sessions \in [Sessions -> {"open", "closing", "closed"}]
  /\ dnsFailures \in 0..Threshold - 1 /\ pollFailures \in 0..MaxPollFailures

\* The limiter's promise, for any interleaving of waiting, sleeping and
\* cancelled tasks: no more than MaxCalls grants in any period.
RateKept == Len(granted) <= MaxCalls

\* However rebuilds, waits and cancellations interleave, no session is left
\* open that a later close() would not find.
NoSessionLeaks == \A s \in Sessions : sessions[s] = "open" => s = session

\* A call is not repeated before the venue's Retry-After is over, as far as the
\* policy's longest delay allows.
RetryAfterKept ==
  [][\A c \in Tasks : at[c] = "delay" /\ at'[c] \notin {"delay", "idle", "cancelled"} =>
       asked[c] = 0]_vars

\* Every call ends, with an answer or an error, although tasks sleep inside the
\* limiter's lock and others close the session under them.
CallsEnd == \A c \in Callers : at[c] # "idle" ~> at[c] = "idle"

\* The poll never ends by itself: every request, failed or not, is followed by
\* the pause before the next one.
PollGoesOn == \A c \in Pollers : at[c] = "request" ~> at[c] \in {"delay", "cancelled"}

\* Limiter, Retry-After and session are respected by every interleaving.
LimitsKept == [](TypeOK /\ RateKept /\ NoSessionLeaks) /\ RetryAfterKept

\* Calls end and the poll goes on.
RequestsGoOn == CallsEnd /\ PollGoesOn
=============================================================================
