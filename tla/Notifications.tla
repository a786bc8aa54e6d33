--------------------------- MODULE Notifications ---------------------------
(* NotificationDispatcher: a bounded asyncio.Queue, one worker that paces   *)
(* and retries deliveries, and close(), which drains the queue before it    *)
(* ends the worker; and the outcomes TelegramNotifier.send tells apart.     *)
(*                                                                          *)
(* Notifications are numbered in the order in which they are published.     *)
(* Time is relative: Tick lets one unit pass for the pace and the delay.    *)
EXTENDS Integers, Sequences, FiniteSets

CONSTANTS
  QueueSize, MaxAttempts,
  RetryBase, MaxRetryDelay,   \* retry_base_seconds, max_retry_delay_seconds
  MinimumInterval,            \* minimum_interval_seconds
  RetryAfter,                 \* delays Telegram may ask for
  MaxPublished, MaxCloses     \* bounds: publications, calls of close()

ASSUME DispatcherAssumption ==
  /\ QueueSize \in Nat \ {0} /\ MaxAttempts \in Nat \ {0}
  /\ RetryBase \in Nat \ {0} /\ MaxRetryDelay \in Nat \ {0}
  /\ MinimumInterval \in Nat /\ RetryAfter \subseteq Nat
  /\ MaxPublished \in Nat /\ MaxCloses \in Nat

VARIABLES
  worker,      \* the task _run: "none" before start(), where it waits, "done"
  queue,       \* _queue; 0 is the sentinel None
  unfinished,  \* the queue's count of items without task_done()
  current,     \* the notification _deliver works on, 0 for none
  attempt,
  delay,       \* rest of the sleep between two attempts
  since,       \* time since _last_attempt_at, up to MinimumInterval
  stats,       \* NotificationStats
  closer,      \* where the caller of close() is
  published, closes,
  fate,        \* history: what became of each notification
  late,        \* history: notifications queued behind the sentinel
  received,    \* history: how often the recipient got each notification
  newest       \* history: the newest notification the recipient got

workVars == <<worker, current, attempt, delay, since>>
queueVars == <<queue, unfinished>>
historyVars == <<fate, late, received, newest>>
vars == <<workVars, queueVars, stats, closer, published, closes, historyVars>>

-----------------------------------------------------------------------------
Notes == 1..MaxPublished
Sentinel == 0
WorkerStates == {"none", "get", "pace", "send", "backoff", "done"}
CloserStates == {"idle", "joining", "joined", "awaiting", "transport"}
Fates == {"unpublished", "dropped", "queued", "sent", "failed"}

\* The last field is no counter of the code: it tells the failures of
\* notifier.close(), which stats.failed includes, from lost notifications.
Stats == [queued : Nat, sent : Nat, retried : Nat, dropped : Nat,
          failed : Nat, close_errors : Nat]

Init ==
  /\ worker = "none" /\ queue = <<>> /\ unfinished = 0
  /\ current = 0 /\ attempt = 0 /\ delay = 0 /\ since = MinimumInterval
  /\ stats = [queued |-> 0, sent |-> 0, retried |-> 0, dropped |-> 0,
              failed |-> 0, close_errors |-> 0]
  /\ closer = "idle" /\ published = 0 /\ closes = 0
  /\ fate = [n \in Notes |-> "unpublished"] /\ late = {}
  /\ received = [n \in Notes |-> 0] /\ newest = 0

\* The sentinel waits in the queue exactly while close() awaits the worker.
SentinelQueued == closer = "awaiting" /\ worker # "done"

-----------------------------------------------------------------------------
Start ==
  /\ worker = "none"
  /\ worker' = "get"
  /\ UNCHANGED <<current, attempt, delay, since, queueVars, stats, closer,
                 published, closes, historyVars>>

\* publish_notification never waits.
Refused == worker \in {"none", "done"} \/ Len(queue) >= QueueSize

Drop ==
  /\ Refused
  /\ published < MaxPublished
  /\ published' = published + 1
  /\ stats' = [stats EXCEPT !.dropped = @ + 1]
  /\ fate' = [fate EXCEPT ![published + 1] = "dropped"]
  /\ UNCHANGED <<workVars, queueVars, closer, closes, late, received, newest>>

Enqueue ==
  /\ ~Refused
  /\ published < MaxPublished
  /\ published' = published + 1
  /\ queue' = Append(queue, published + 1)
  /\ unfinished' = unfinished + 1
  /\ stats' = [stats EXCEPT !.queued = @ + 1]
  /\ fate' = [fate EXCEPT ![published + 1] = "queued"]
  /\ late' = IF SentinelQueued THEN late \cup {published + 1} ELSE late
  /\ UNCHANGED <<workVars, closer, closes, received, newest>>

-----------------------------------------------------------------------------
\* Queue.task_done(): the last one wakes the caller of join(), for good, even
\* if something is queued before it runs again.
TaskDone ==
  /\ unfinished' = unfinished - 1
  /\ closer' = IF unfinished = 1 /\ closer = "joining" THEN "joined" ELSE closer

Take ==
  /\ worker = "get" /\ queue # <<>> /\ Head(queue) # Sentinel
  /\ queue' = Tail(queue)
  /\ current' = Head(queue) /\ attempt' = 1
  /\ worker' = "pace"
  /\ UNCHANGED <<delay, since, unfinished, stats, closer, published, closes,
                 historyVars>>

TakeSentinel ==
  /\ worker = "get" /\ queue # <<>> /\ Head(queue) = Sentinel
  /\ queue' = Tail(queue)
  /\ worker' = "done"
  /\ TaskDone
  /\ UNCHANGED <<current, attempt, delay, since, stats, published, closes,
                 historyVars>>

\* _respect_rate_limit
Pace ==
  /\ worker = "pace" /\ since >= MinimumInterval
  /\ since' = 0
  /\ worker' = "send"
  /\ UNCHANGED <<current, attempt, delay, queueVars, stats, closer, published,
                 closes, historyVars>>

\* TelegramNotifier.send: how an answer, or its absence, is reported.  An
\* unreadable body counts as a rejection.
Responses == {"ok", "rate_limited", "server_error", "rejected", "timeout",
              "network_error", "exception"}
Retryable(r) == r \in {"rate_limited", "server_error", "timeout", "network_error"}

\* Answers that leave open whether the recipient got the message.
Uncertain(r) == r \in {"server_error", "rejected", "timeout", "network_error",
                       "exception"}

\* The recipient's view of one request.
Reaches(r, arrived) ==
  /\ (arrived => r = "ok" \/ Uncertain(r)) /\ (r = "ok" => arrived)
  /\ received' = IF arrived THEN [received EXCEPT ![current] = @ + 1]
                 ELSE received
  /\ newest' = IF arrived THEN current ELSE newest

RetryDelay(n, after) ==
  LET wanted == IF after # -1 THEN after ELSE RetryBase * 2 ^ (n - 1)
  IN  IF wanted < MaxRetryDelay THEN wanted ELSE MaxRetryDelay

\* Mutant: the notification is put back at the end of the queue.
RetryRequeues(r, after, arrived) ==
  /\ worker = "send" /\ Retryable(r) /\ attempt < MaxAttempts
  /\ after = -1 \/ r = "rate_limited"
  /\ Reaches(r, arrived)
  /\ stats' = [stats EXCEPT !.retried = @ + 1]
  /\ queue' = Append(queue, current)
  /\ worker' = "get" /\ current' = 0 /\ attempt' = 0
  /\ UNCHANGED <<delay, since, unfinished, closer, published, closes, fate, late>>

Retry(r, after, arrived) ==
  /\ worker = "send" /\ Retryable(r) /\ attempt < MaxAttempts
  /\ after = -1 \/ r = "rate_limited"
  /\ Reaches(r, arrived)
  /\ stats' = [stats EXCEPT !.retried = @ + 1]
  /\ delay' = RetryDelay(attempt, after)
  /\ worker' = "backoff"
  /\ UNCHANGED <<current, attempt, since, queueVars, closer, published, closes,
                 fate, late>>

\* The delivery ends and the worker asks for the next item.
Settled(end) ==
  /\ fate' = [fate EXCEPT ![current] = end]
  /\ TaskDone
  /\ worker' = "get" /\ current' = 0 /\ attempt' = 0
  /\ UNCHANGED <<delay, since, queue, published, closes, late>>

Succeed ==
  /\ worker = "send"
  /\ Reaches("ok", TRUE)
  /\ stats' = [stats EXCEPT !.sent = @ + 1]
  /\ Settled("sent")

\* Permanent rejection, unexpected exception, or no attempt left.
GivesUp(r) == ~Retryable(r) \/ attempt >= MaxAttempts

\* Mutant: exhausted retries are not counted.
FailUncounted(r, arrived) ==
  /\ worker = "send" /\ r # "ok" /\ GivesUp(r)
  /\ Reaches(r, arrived)
  /\ stats' = IF Retryable(r) THEN stats ELSE [stats EXCEPT !.failed = @ + 1]
  /\ Settled("failed")

\* Mutant: an unexpected error ends the worker instead of the delivery.
FailKillsWorker(r, arrived) ==
  /\ worker = "send" /\ r # "ok" /\ GivesUp(r)
  /\ Reaches(r, arrived)
  /\ stats' = [stats EXCEPT !.failed = @ + 1]
  /\ fate' = [fate EXCEPT ![current] = "failed"]
  /\ TaskDone
  /\ worker' = (IF r = "exception" THEN "done" ELSE "get")
  /\ current' = 0 /\ attempt' = 0
  /\ UNCHANGED <<delay, since, queue, published, closes, late>>

Fail(r, arrived) ==
  /\ worker = "send" /\ r # "ok" /\ GivesUp(r)
  /\ Reaches(r, arrived)
  /\ stats' = [stats EXCEPT !.failed = @ + 1]
  /\ Settled("failed")

TryAgain ==
  /\ worker = "backoff" /\ delay = 0
  /\ attempt' = attempt + 1
  /\ worker' = "pace"
  /\ UNCHANGED <<current, delay, since, queueVars, stats, closer, published,
                 closes, historyVars>>

Tick ==
  /\ delay > 0 \/ since < MinimumInterval
  /\ delay' = IF delay > 0 THEN delay - 1 ELSE 0
  /\ since' = IF since < MinimumInterval THEN since + 1 ELSE since
  /\ UNCHANGED <<worker, current, attempt, queueVars, stats, closer, published,
                 closes, historyVars>>

-----------------------------------------------------------------------------
(* close(): join(), put(None), await the worker, close the transport.       *)

CloseWithoutWorker ==
  /\ closer = "idle" /\ closes < MaxCloses
  /\ worker = "none"
  /\ closes' = closes + 1
  /\ closer' = "transport"
  /\ UNCHANGED <<workVars, queueVars, stats, published, historyVars>>

\* join() returns at once when nothing is unfinished.
CloseIdle ==
  /\ closer = "idle" /\ closes < MaxCloses
  /\ worker # "none" /\ unfinished = 0
  /\ closes' = closes + 1
  /\ queue' = Append(queue, Sentinel) /\ unfinished' = unfinished + 1
  /\ closer' = "awaiting"
  /\ UNCHANGED <<workVars, stats, published, historyVars>>

Join ==
  /\ closer = "idle" /\ closes < MaxCloses
  /\ worker # "none" /\ unfinished > 0
  /\ closes' = closes + 1
  /\ closer' = "joining"
  /\ UNCHANGED <<workVars, queueVars, stats, published, historyVars>>

\* Mutant: the sentinel overtakes what is queued.
PutSentinelFirst ==
  /\ closer = "joined" /\ Len(queue) < QueueSize
  /\ queue' = <<Sentinel>> \o queue
  /\ unfinished' = unfinished + 1
  /\ closer' = "awaiting"
  /\ UNCHANGED <<workVars, stats, published, closes, historyVars>>

\* put() waits while the queue is full.
PutSentinel ==
  /\ closer = "joined" /\ Len(queue) < QueueSize
  /\ queue' = Append(queue, Sentinel)
  /\ unfinished' = unfinished + 1
  /\ closer' = "awaiting"
  /\ UNCHANGED <<workVars, stats, published, closes, historyVars>>

WorkerEnded ==
  /\ closer = "awaiting" /\ worker = "done"
  /\ worker' = "none"
  /\ closer' = "transport"
  /\ UNCHANGED <<current, attempt, delay, since, queueVars, stats, published,
                 closes, historyVars>>

CloseTransport(fails) ==
  /\ closer = "transport"
  /\ closer' = "idle"
  /\ stats' = IF fails THEN [stats EXCEPT !.failed = @ + 1, !.close_errors = @ + 1]
              ELSE stats
  /\ UNCHANGED <<workVars, queueVars, published, closes, historyVars>>

-----------------------------------------------------------------------------
Respond ==
  \/ Succeed
  \/ \E r \in Responses, arrived \in BOOLEAN :
       \/ Fail(r, arrived)
       \/ \E after \in RetryAfter \cup {-1} : Retry(r, after, arrived)

Work == Take \/ TakeSentinel \/ Pace \/ Respond \/ TryAgain
Close ==
  \/ PutSentinel \/ WorkerEnded
  \/ \E fails \in BOOLEAN : CloseTransport(fails)

Next ==
  \/ Start \/ Drop \/ Enqueue \/ Work \/ Tick
  \/ CloseWithoutWorker \/ CloseIdle \/ Join \/ Close

\* The event loop runs what is ready and time passes; a request ends because
\* the client session has a total timeout.
Spec == Init /\ [][Next]_vars /\ WF_vars(Work) /\ WF_vars(Tick) /\ WF_vars(Close)

-----------------------------------------------------------------------------
InFlight == IF current = 0 THEN 0 ELSE 1
SentinelCount == IF SentinelQueued THEN 1 ELSE 0

\* Every variable keeps its type; the queue stays within its size and holds
\* only published notifications and at most the sentinel of close().
TypeOK ==
  /\ worker \in WorkerStates
  /\ queue \in Seq(0..MaxPublished) /\ Len(queue) <= QueueSize
  /\ unfinished \in Nat
  /\ current \in 0..MaxPublished /\ attempt \in 0..MaxAttempts
  /\ delay \in Int /\ delay <= MaxRetryDelay /\ since \in 0..MinimumInterval
  /\ stats \in Stats
  /\ closer \in CloserStates
  /\ published \in 0..MaxPublished /\ closes \in 0..MaxCloses
  /\ fate \in [Notes -> Fates] /\ late \subseteq Notes
  /\ received \in [Notes -> Nat] /\ newest \in 0..MaxPublished

\* The counters account for every notification at any moment, close() and
\* restarts included: what was queued was sent, has failed, is being
\* delivered or is still in the queue; and what join() waits for is exactly
\* what is in the queue or being delivered.
Accounting ==
  /\ stats.queued = stats.sent + (stats.failed - stats.close_errors)
                    + InFlight + (Len(queue) - SentinelCount)
  /\ unfinished = Len(queue) + InFlight

\* close() loses nothing that was accepted before its sentinel was queued:
\* while no worker runs, only notifications published behind the sentinel
\* are left in the queue.
OnlyLateAreStranded ==
  worker \in {"none", "done"} => \A k \in 1..Len(queue) : queue[k] \in late

\* Retries, pacing and restarts never let an older notification reach the
\* recipient after a newer one.
DeliveredInOrder ==
  [][\A n \in Notes : received'[n] > received[n] => n >= newest]_vars

\* Every notification accepted while no close() had queued its sentinel is
\* eventually sent or counted as failed.
AcceptedIsSettled ==
  \A n \in Notes : fate[n] = "queued" /\ n \notin late ~> fate[n] \in {"sent", "failed"}

\* close() returns.
CloseReturns == closer # "idle" ~> closer = "idle"

\* No accepted notification gets lost between publish, the retries of the
\* worker and close().
NothingLost == TypeOK /\ Accounting /\ OnlyLateAreStranded

\* Deliveries end, and with them close().
DeliveriesEnd == AcceptedIsSettled /\ CloseReturns
=============================================================================
