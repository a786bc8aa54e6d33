------------------------ MODULE NotificationsProofs ------------------------
(* NothingLost and DeliveredInOrder hold of every dispatcher, whatever its  *)
(* queue size, its retry policy and the number of publications and closes.  *)
(*                                                                          *)
(* They are not inductive by themselves: that a queue never overflows when  *)
(* close() finds it idle rests on the counters, what is left when the       *)
(* worker has ended rests on where the sentinel stands in the queue, and    *)
(* the order of arrivals rests on the order of the queue.                   *)
EXTENDS Notifications, TLAPS

\* Exactly while it delivers, the worker has a notification and an attempt.
WorkInv ==
  /\ current # 0 <=> worker \in {"pace", "send", "backoff"}
  /\ current # 0 => attempt >= 1
  /\ worker = "backoff" => attempt < MaxAttempts

\* The worker ends for close() only, and close() waits for a worker that is.
CloseInv ==
  /\ worker = "done" => closer = "awaiting"
  /\ closer \in {"joining", "joined", "awaiting"} => worker # "none"

\* The sentinel stands in the queue once while close() awaits the worker, and
\* only late notifications stand behind it; at other times it is not there.
SentinelAt(k) ==
  /\ queue[k] = Sentinel
  /\ \A j \in 1..Len(queue) : j < k => queue[j] # Sentinel
  /\ \A j \in 1..Len(queue) : j > k => queue[j] \in late

QueueInv ==
  /\ SentinelQueued => \E k \in 1..Len(queue) : SentinelAt(k)
  /\ ~SentinelQueued => \A k \in 1..Len(queue) : queue[k] # Sentinel

IInv == NothingLost /\ WorkInv /\ CloseInv /\ QueueInv


-----------------------------------------------------------------------------
(* Counters                                                                 *)

\* How far a step moves the counters.
Counts(queued, sent, failed, close_errors) ==
  /\ stats' \in Stats
  /\ stats'.queued = stats.queued + queued /\ stats'.sent = stats.sent + sent
  /\ stats'.failed = stats.failed + failed
  /\ stats'.close_errors = stats.close_errors + close_errors

\* A retry and a drop count nothing that Accounting is about.
LEMMA NoneCounted ==
  ASSUME stats \in Stats,
         \/ stats' = [stats EXCEPT !.retried = @ + 1]
         \/ stats' = [stats EXCEPT !.dropped = @ + 1]
         \/ stats' = stats
  PROVE  Counts(0, 0, 0, 0)
BY DEF Stats, Counts

\* A queued, a sent and a failed notification.
LEMMA QueuedCounted ==
  ASSUME stats \in Stats, stats' = [stats EXCEPT !.queued = @ + 1]
  PROVE  Counts(1, 0, 0, 0)
BY DEF Stats, Counts

LEMMA SentCounted ==
  ASSUME stats \in Stats, stats' = [stats EXCEPT !.sent = @ + 1]
  PROVE  Counts(0, 1, 0, 0)
BY DEF Stats, Counts

LEMMA FailedCounted ==
  ASSUME stats \in Stats, stats' = [stats EXCEPT !.failed = @ + 1]
  PROVE  Counts(0, 0, 1, 0)
BY DEF Stats, Counts

\* A transport that cannot be closed counts twice.
LEMMA CloseErrorCounted ==
  ASSUME stats \in Stats,
         stats' = [stats EXCEPT !.failed = @ + 1, !.close_errors = @ + 1]
  PROVE  Counts(0, 0, 1, 1)
<1>. DEFINE s == [stats EXCEPT !.failed = @ + 1]
<1>1. /\ s \in Stats /\ s.queued = stats.queued /\ s.sent = stats.sent
      /\ s.failed = stats.failed + 1 /\ s.close_errors = stats.close_errors
  BY DEF Stats
<1>2. stats' = [s EXCEPT !.close_errors = @ + 1]
  BY DEF Stats
<1>. HIDE DEF s
<1>3. stats' \in Stats
  BY <1>1, <1>2 DEF Stats
<1>. QED
  BY <1>1, <1>2, <1>3 DEF Stats, Counts

\* What Accounting adds up are numbers.
LEMMA Numbers ==
  ASSUME TypeOK
  PROVE  /\ stats.queued \in Int /\ stats.sent \in Int
         /\ stats.failed \in Int /\ stats.close_errors \in Int
         /\ Len(queue) \in Nat /\ unfinished \in Nat
BY DEF TypeOK, Stats

-----------------------------------------------------------------------------
(* Queues                                                                   *)

\* What taking the first item does to a queue.
LEMMA TailFacts ==
  ASSUME NEW S, NEW q \in Seq(S), q # <<>>
  PROVE  /\ Head(q) = q[1] /\ Head(q) \in S
         /\ Tail(q) \in Seq(S) /\ Len(Tail(q)) = Len(q) - 1 /\ Len(q) \in Nat \ {0}
         /\ \A k \in 1..Len(Tail(q)) : Tail(q)[k] = q[k + 1]
OBVIOUS

\* What adding an item does to a queue.
LEMMA AppendFacts ==
  ASSUME NEW S, NEW q \in Seq(S), NEW x \in S
  PROVE  /\ Append(q, x) \in Seq(S) /\ Len(Append(q, x)) = Len(q) + 1 /\ Len(q) \in Nat
         /\ \A k \in 1..Len(q) : Append(q, x)[k] = q[k]
         /\ Append(q, x)[Len(q) + 1] = x
OBVIOUS

\* A step that neither touches the queue nor brings or takes the sentinel.
LEMMA SameQueue ==
  ASSUME QueueInv, queue' = queue, late' = late, SentinelQueued' <=> SentinelQueued
  PROVE  QueueInv'
BY DEF QueueInv, SentinelAt, Sentinel

-----------------------------------------------------------------------------
(* Publishing                                                               *)

\* A worker is created.
LEMMA StartKeeps ==
  ASSUME IInv, Start
  PROVE  IInv'
<1>1. TypeOK'
  BY DispatcherAssumption
     DEF IInv, NothingLost, TypeOK, WorkerStates, CloserStates, WorkInv, Start,
     queueVars, historyVars
<1>2. Accounting'
  BY DispatcherAssumption
     DEF IInv, NothingLost, TypeOK, Stats, Accounting, InFlight, SentinelCount,
     SentinelQueued, WorkInv, CloseInv, Start, queueVars, historyVars
<1>3. OnlyLateAreStranded'
  BY DEF IInv, NothingLost, TypeOK, OnlyLateAreStranded, CloseInv, Start, queueVars,
     historyVars
<1>4. WorkInv'
  BY DispatcherAssumption
     DEF IInv, NothingLost, TypeOK, WorkInv, Start, queueVars, historyVars
<1>5. CloseInv'
  BY DEF IInv, NothingLost, TypeOK, CloseInv, Start, queueVars, historyVars
<1>6. QueueInv'
  BY SameQueue DEF IInv, CloseInv, SentinelQueued, Start, queueVars, historyVars
<1>. QED
  BY <1>1, <1>2, <1>3, <1>4, <1>5, <1>6 DEF IInv, NothingLost

\* A notification is refused.
LEMMA DropKeeps ==
  ASSUME IInv, Drop
  PROVE  IInv'
<1>1. Counts(0, 0, 0, 0)
  BY NoneCounted DEF IInv, NothingLost, TypeOK, Drop
<1>2. TypeOK'
  <2>1. published' \in 0..MaxPublished /\ published + 1 \in Notes
    <3>1. /\ published \in 0..MaxPublished /\ published < MaxPublished
          /\ published' = published + 1
      BY DEF IInv, NothingLost, TypeOK, Drop
    <3>. QED
      BY <3>1, DispatcherAssumption DEF Notes
  <2>2. fate' \in [Notes -> Fates]
    BY <2>1 DEF IInv, NothingLost, TypeOK, Drop, Fates
  <2>3. UNCHANGED <<workVars, queueVars, closer, closes, late, received, newest>>
    BY DEF Drop
  <2>. QED
    BY <1>1, <2>1, <2>2, <2>3 DEF IInv, NothingLost, TypeOK, workVars, queueVars, Counts
<1>3. Accounting'
  BY <1>1, DispatcherAssumption
     DEF IInv, NothingLost, TypeOK, Stats, Accounting, InFlight, SentinelCount,
     SentinelQueued, WorkInv, CloseInv, Drop, Refused, workVars, queueVars, Fates,
     Notes, Counts
<1>4. OnlyLateAreStranded'
  BY <1>1
     DEF IInv, NothingLost, TypeOK, OnlyLateAreStranded, CloseInv, Drop, Refused,
     workVars, queueVars, Fates, Notes, Counts
<1>5. WorkInv'
  BY <1>1, DispatcherAssumption
     DEF IInv, NothingLost, TypeOK, WorkInv, Drop, Refused, workVars, queueVars, Fates,
     Notes, Counts
<1>6. CloseInv'
  BY <1>1
     DEF IInv, NothingLost, TypeOK, CloseInv, Drop, Refused, workVars, queueVars, Fates,
     Notes, Counts
<1>7. QueueInv'
  BY <1>1, SameQueue
     DEF IInv, CloseInv, SentinelQueued, Drop, Refused, workVars, queueVars, Fates,
     Notes, Counts
<1>. QED
  BY <1>2, <1>3, <1>4, <1>5, <1>6, <1>7 DEF IInv, NothingLost

\* A notification is queued, behind the sentinel when there is one.
LEMMA EnqueueKeeps ==
  ASSUME IInv, Enqueue
  PROVE  IInv'
<1>1. /\ queue' \in Seq(0..MaxPublished) /\ Len(queue') = Len(queue) + 1
      /\ Len(queue) \in Nat
      /\ \A k \in 1..Len(queue) : queue'[k] = queue[k]
      /\ queue'[Len(queue) + 1] = published + 1
  <2>1. published + 1 \in 0..MaxPublished
    <3>1. published \in 0..MaxPublished /\ published < MaxPublished
      BY DEF IInv, NothingLost, TypeOK, Enqueue
    <3>. QED
      BY <3>1, DispatcherAssumption
  <2>2. queue \in Seq(0..MaxPublished) /\ queue' = Append(queue, published + 1)
    BY DEF IInv, NothingLost, TypeOK, Enqueue
  <2>. QED
    BY <2>1, <2>2, AppendFacts
<1>2. published + 1 \in Notes /\ fate' \in [Notes -> Fates]
  <2>1. published \in 0..MaxPublished /\ published < MaxPublished
    BY DEF IInv, NothingLost, TypeOK, Enqueue
  <2>2. published + 1 \in Notes
    BY <2>1, DispatcherAssumption DEF Notes
  <2>. QED
    BY <2>2 DEF IInv, NothingLost, TypeOK, Enqueue, Fates
<1>3. late \subseteq late' /\ late' \subseteq Notes
  BY <1>2 DEF IInv, NothingLost, TypeOK, Enqueue
<1>4. Counts(1, 0, 0, 0)
  BY QueuedCounted DEF IInv, NothingLost, TypeOK, Enqueue
<1>5. TypeOK'
  <2>1. /\ Len(queue') <= QueueSize /\ unfinished' \in Nat
        /\ published' \in 0..MaxPublished
    <3>1. /\ ~(Len(queue) >= QueueSize) /\ published < MaxPublished
          /\ published' = published + 1 /\ unfinished' = unfinished + 1
      BY DEF Enqueue, Refused
    <3>2. published \in 0..MaxPublished /\ unfinished \in Nat
      BY DEF IInv, NothingLost, TypeOK
    <3>. QED
      BY <1>1, <3>1, <3>2, DispatcherAssumption
  <2>2. UNCHANGED <<worker, current, attempt, delay, since, closer, closes,
                    received, newest>>
    BY DEF Enqueue, workVars
  <2>. QED
    BY <1>1, <1>2, <1>3, <1>4, <2>1, <2>2 DEF IInv, NothingLost, TypeOK, Counts
<1>6. Accounting'
  <2>1. /\ InFlight' = InFlight /\ SentinelCount' = SentinelCount
        /\ InFlight \in Int /\ SentinelCount \in Int
    BY <1>1, <1>2, <1>3, <1>4, DispatcherAssumption
       DEF IInv, NothingLost, TypeOK, WorkInv, CloseInv, InFlight, SentinelCount,
       SentinelQueued, Enqueue, Refused, workVars, historyVars, Fates, Notes, Counts
  <2>2. unfinished' = unfinished + 1
    BY DEF Enqueue
  <2>3. Accounting /\ TypeOK
    BY DEF IInv, NothingLost
  <2>4. /\ stats.queued \in Int /\ stats.sent \in Int /\ stats.failed \in Int
        /\ stats.close_errors \in Int /\ Len(queue) \in Int /\ unfinished \in Int
    BY <2>3, Numbers
  <2>5. /\ stats'.queued = stats.queued + 1 /\ stats'.sent = stats.sent
        /\ stats'.failed = stats.failed /\ stats'.close_errors = stats.close_errors
    BY <1>1, <1>2, <1>3, <1>4, <2>4 DEF Counts
  <2>6. stats'.queued = stats'.sent + (stats'.failed - stats'.close_errors)
                        + InFlight' + (Len(queue') - SentinelCount')
    <3>1. stats.queued = stats.sent + (stats.failed - stats.close_errors)
                         + InFlight + (Len(queue) - SentinelCount)
      BY <2>3 DEF Accounting
    <3>. QED
      BY <1>1, <2>1, <2>2, <2>4, <2>5, <3>1
  <2>7. unfinished' = Len(queue') + InFlight'
    BY <1>1, <2>1, <2>2, <2>3, <2>4 DEF Accounting
  <2>. QED
    BY <2>6, <2>7 DEF Accounting
<1>7. OnlyLateAreStranded'
  BY <1>1, <1>2, <1>3, <1>4
     DEF IInv, NothingLost, TypeOK, OnlyLateAreStranded, CloseInv, Enqueue, Refused,
     workVars, historyVars, Fates, Notes, Counts
<1>8. WorkInv'
  BY <1>1, <1>2, <1>3, <1>4, DispatcherAssumption
     DEF IInv, NothingLost, TypeOK, WorkInv, Enqueue, Refused, workVars, historyVars,
     Fates, Notes, Counts
<1>9. CloseInv'
  BY <1>1, <1>2, <1>3, <1>4
     DEF IInv, NothingLost, TypeOK, CloseInv, Enqueue, Refused, workVars, historyVars,
     Fates, Notes, Counts
<1>10. QueueInv'
  <2>1. CASE SentinelQueued
    <3>1. PICK k \in 1..Len(queue) : SentinelAt(k)
      BY <2>1 DEF IInv, QueueInv
    <3>2. k \in 1..Len(queue') /\ SentinelAt(k)'
      <4>1. late' = late \cup {published + 1}
        BY <2>1 DEF Enqueue
      <4>. QED
        BY <1>1, <3>1, <4>1 DEF SentinelAt, Sentinel
    <3>. QED
      BY <2>1, <3>2 DEF QueueInv, SentinelQueued, Enqueue, workVars
  <2>2. CASE ~SentinelQueued
    BY <1>1, <2>2
       DEF IInv, NothingLost, TypeOK, QueueInv, SentinelQueued, Sentinel, Enqueue,
       workVars
  <2>. QED
    BY <2>1, <2>2
<1>. QED
  BY <1>5, <1>6, <1>7, <1>8, <1>9, <1>10 DEF IInv, NothingLost

\* Whether or not a request arrives, the history of arrivals keeps its type.
LEMMA ArrivalTypes ==
  ASSUME TypeOK, current \in Notes, NEW r, NEW arrived \in BOOLEAN, Reaches(r, arrived)
  PROVE  received' \in [Notes -> Nat] /\ newest' \in 0..MaxPublished
BY DispatcherAssumption DEF TypeOK, Reaches, Notes

-----------------------------------------------------------------------------
(* The worker                                                               *)

\* The next notification is taken.
LEMMA TakeKeeps ==
  ASSUME IInv, Take
  PROVE  IInv'
<1>1. /\ Head(queue) = queue[1] /\ Head(queue) \in 0..MaxPublished
      /\ queue' \in Seq(0..MaxPublished) /\ Len(queue') = Len(queue) - 1
      /\ Len(queue) \in Nat \ {0}
      /\ \A k \in 1..Len(queue') : queue'[k] = queue[k + 1]
  BY TailFacts DEF IInv, NothingLost, TypeOK, Take
<1>2. TypeOK'
  BY <1>1, DispatcherAssumption
     DEF IInv, NothingLost, TypeOK, WorkerStates, CloserStates, WorkInv, Take,
     historyVars, Sentinel
<1>3. Accounting'
  <2>1. /\ InFlight = 0 /\ InFlight' = 1
        /\ SentinelCount' = SentinelCount /\ SentinelCount \in Int
    BY <1>1, DispatcherAssumption
       DEF IInv, NothingLost, TypeOK, WorkInv, CloseInv, InFlight, SentinelCount,
       SentinelQueued, Take, historyVars, Sentinel
  <2>2. UNCHANGED <<stats, unfinished>>
    BY DEF Take
  <2>3. Accounting /\ TypeOK
    BY DEF IInv, NothingLost
  <2>4. /\ stats.queued \in Int /\ stats.sent \in Int /\ stats.failed \in Int
        /\ stats.close_errors \in Int /\ Len(queue) \in Int /\ unfinished \in Int
    BY <2>3, Numbers
  <2>5. /\ stats'.queued = stats.queued /\ stats'.sent = stats.sent
        /\ stats'.failed = stats.failed /\ stats'.close_errors = stats.close_errors
    BY <2>4 DEF Counts, Take
  <2>. QED
    BY <1>1, <2>1, <2>2, <2>3, <2>4, <2>5 DEF Accounting
<1>4. OnlyLateAreStranded'
  BY <1>1
     DEF IInv, NothingLost, TypeOK, OnlyLateAreStranded, CloseInv, Take, historyVars,
     Sentinel
<1>5. WorkInv'
  BY <1>1, DispatcherAssumption
     DEF IInv, NothingLost, TypeOK, WorkInv, Take, historyVars, Sentinel
<1>6. CloseInv'
  BY <1>1 DEF IInv, NothingLost, TypeOK, CloseInv, Take, historyVars, Sentinel
<1>7. QueueInv'
  <2>1. CASE SentinelQueued
    <3>1. PICK k \in 1..Len(queue) : SentinelAt(k)
      BY <2>1 DEF IInv, QueueInv
    <3>2. k # 1
      BY <1>1, <3>1 DEF SentinelAt, Take
    <3>3. k - 1 \in 1..Len(queue') /\ SentinelAt(k - 1)'
      BY <1>1, <3>1, <3>2 DEF SentinelAt, Sentinel, Take, historyVars
    <3>. QED
      BY <2>1, <3>3 DEF QueueInv, SentinelQueued, Take
  <2>2. CASE ~SentinelQueued
    BY <1>1, <2>2 DEF IInv, QueueInv, SentinelQueued, Take
  <2>. QED
    BY <2>1, <2>2
<1>. QED
  BY <1>2, <1>3, <1>4, <1>5, <1>6, <1>7 DEF IInv, NothingLost

\* The worker ends at the sentinel: what is left behind it is late.
LEMMA TakeSentinelKeeps ==
  ASSUME IInv, TakeSentinel
  PROVE  IInv'
<1>1. /\ Head(queue) = queue[1] /\ Head(queue) \in 0..MaxPublished
      /\ queue' \in Seq(0..MaxPublished) /\ Len(queue') = Len(queue) - 1
      /\ Len(queue) \in Nat \ {0}
      /\ \A k \in 1..Len(queue') : queue'[k] = queue[k + 1]
  BY TailFacts DEF IInv, NothingLost, TypeOK, TakeSentinel
<1>2. SentinelQueued /\ closer = "awaiting"
  BY <1>1 DEF IInv, QueueInv, SentinelQueued, TakeSentinel
<1>3. \A k \in 1..Len(queue') : queue'[k] \in late
  <2>1. PICK k \in 1..Len(queue) : SentinelAt(k)
    BY <1>2 DEF IInv, QueueInv
  <2>2. k = 1
    BY <1>1, <2>1 DEF SentinelAt, Sentinel, TakeSentinel
  <2>. QED
    BY <1>1, <2>1, <2>2 DEF SentinelAt
<1>4. TypeOK'
  BY <1>1, <1>2, <1>3, DispatcherAssumption
     DEF IInv, NothingLost, TypeOK, WorkerStates, CloserStates, WorkInv, Accounting,
     InFlight, TakeSentinel, TaskDone, historyVars, Sentinel
<1>5. Accounting'
  BY <1>1, <1>2, <1>3, DispatcherAssumption
     DEF IInv, NothingLost, TypeOK, Stats, Accounting, InFlight, SentinelCount,
     SentinelQueued, WorkInv, CloseInv, TakeSentinel, TaskDone, historyVars, Sentinel
<1>6. OnlyLateAreStranded'
  BY <1>3 DEF OnlyLateAreStranded, TakeSentinel, historyVars
<1>7. WorkInv'
  BY <1>1, <1>2, <1>3, DispatcherAssumption
     DEF IInv, NothingLost, TypeOK, WorkInv, TakeSentinel, TaskDone, historyVars,
     Sentinel
<1>8. CloseInv'
  BY <1>1, <1>2, <1>3
     DEF IInv, NothingLost, TypeOK, CloseInv, TakeSentinel, TaskDone, historyVars,
     Sentinel
<1>9. QueueInv'
  BY <1>3
     DEF IInv, NothingLost, TypeOK, QueueInv, SentinelQueued, Sentinel, Notes,
     TakeSentinel, historyVars
<1>. QED
  BY <1>4, <1>5, <1>6, <1>7, <1>8, <1>9 DEF IInv, NothingLost

\* The worker has waited for its turn.
LEMMA PaceKeeps ==
  ASSUME IInv, Pace
  PROVE  IInv'
<1>1. TypeOK'
  BY DispatcherAssumption
     DEF IInv, NothingLost, TypeOK, WorkerStates, CloserStates, WorkInv, Pace,
     queueVars, historyVars
<1>2. Accounting'
  BY DispatcherAssumption
     DEF IInv, NothingLost, TypeOK, Stats, Accounting, InFlight, SentinelCount,
     SentinelQueued, WorkInv, CloseInv, Pace, queueVars, historyVars
<1>3. OnlyLateAreStranded'
  BY DEF IInv, NothingLost, TypeOK, OnlyLateAreStranded, CloseInv, Pace, queueVars,
     historyVars
<1>4. WorkInv'
  BY DispatcherAssumption
     DEF IInv, NothingLost, TypeOK, WorkInv, Pace, queueVars, historyVars
<1>5. CloseInv'
  BY DEF IInv, NothingLost, TypeOK, CloseInv, Pace, queueVars, historyVars
<1>6. QueueInv'
  BY SameQueue DEF IInv, CloseInv, SentinelQueued, Pace, queueVars, historyVars
<1>. QED
  BY <1>1, <1>2, <1>3, <1>4, <1>5, <1>6 DEF IInv, NothingLost

\* A worker that sends has a notification, which join() counts.
LEMMA Delivering ==
  ASSUME IInv, worker = "send"
  PROVE  current \in Notes /\ unfinished >= 1 /\ InFlight = 1
<1>1. current \in 0..MaxPublished /\ current # 0
  BY DEF IInv, NothingLost, TypeOK, WorkInv
<1>2. unfinished = Len(queue) + InFlight /\ Len(queue) \in Nat
  BY Numbers DEF IInv, NothingLost, Accounting
<1>3. InFlight = 1
  BY <1>1 DEF InFlight
<1>. QED
  BY <1>1, <1>2, <1>3 DEF Notes

\* The notification is sent.
LEMMA SucceedKeeps ==
  ASSUME IInv, Succeed
  PROVE  IInv'
<1>1. current \in Notes /\ unfinished >= 1 /\ InFlight = 1
  BY Delivering DEF Succeed
<1>2. received' \in [Notes -> Nat] /\ newest' \in 0..MaxPublished
  BY <1>1, ArrivalTypes DEF IInv, NothingLost, Succeed
<1>3. Counts(0, 1, 0, 0)
  BY SentCounted DEF IInv, NothingLost, TypeOK, Succeed
<1>4. TypeOK'
  <2>1. fate' \in [Notes -> Fates]
    BY <1>1 DEF IInv, NothingLost, TypeOK, Succeed, Settled, Fates
  <2>2. /\ worker' \in WorkerStates /\ current' \in 0..MaxPublished
        /\ attempt' \in 0..MaxAttempts
        /\ unfinished' \in Nat /\ closer' \in CloserStates
    <3>1. unfinished \in Nat /\ closer \in CloserStates
      BY DEF IInv, NothingLost, TypeOK
    <3>2. /\ worker' = "get" /\ current' = 0 /\ attempt' = 0
          /\ unfinished' = unfinished - 1 /\ closer' \in {closer, "joined"}
      BY DEF Succeed, Settled, TaskDone
    <3>. QED
      BY <1>1, <3>1, <3>2, DispatcherAssumption DEF WorkerStates, CloserStates
  <2>3. UNCHANGED <<delay, since, queue, published, closes, late>>
    BY DEF Succeed, Settled
  <2>. QED
    BY <1>2, <1>3, <2>1, <2>2, <2>3 DEF IInv, NothingLost, TypeOK, Counts
<1>5. Accounting'
  <2>1. /\ InFlight = 1 /\ InFlight' = 0
        /\ SentinelCount' = SentinelCount /\ SentinelCount \in Int
    BY <1>1, <1>2, <1>3, DispatcherAssumption
       DEF IInv, NothingLost, TypeOK, WorkInv, CloseInv, InFlight, SentinelCount,
       SentinelQueued, Succeed, Settled, TaskDone, Fates, Notes, Counts
  <2>2. unfinished' = unfinished - 1 /\ queue' = queue
    BY DEF Succeed, Settled, TaskDone
  <2>3. Accounting /\ TypeOK
    BY DEF IInv, NothingLost
  <2>4. /\ stats.queued \in Int /\ stats.sent \in Int /\ stats.failed \in Int
        /\ stats.close_errors \in Int /\ Len(queue) \in Int /\ unfinished \in Int
    BY <2>3, Numbers
  <2>5. /\ stats'.queued = stats.queued /\ stats'.sent = stats.sent + 1
        /\ stats'.failed = stats.failed /\ stats'.close_errors = stats.close_errors
    BY <1>1, <1>2, <1>3, <2>4 DEF Counts
  <2>6. stats'.queued = stats'.sent + (stats'.failed - stats'.close_errors)
                        + InFlight' + (Len(queue') - SentinelCount')
    <3>1. stats.queued = stats.sent + (stats.failed - stats.close_errors)
                         + InFlight + (Len(queue) - SentinelCount)
      BY <2>3 DEF Accounting
    <3>2. Len(queue') = Len(queue)
      BY <2>2
    <3>. QED
      BY <2>1, <2>4, <2>5, <3>1, <3>2
  <2>7. unfinished' = Len(queue') + InFlight'
    BY <2>1, <2>2, <2>3, <2>4 DEF Accounting
  <2>. QED
    BY <2>6, <2>7 DEF Accounting
<1>6. OnlyLateAreStranded'
  BY <1>1, <1>2, <1>3
     DEF IInv, NothingLost, TypeOK, OnlyLateAreStranded, CloseInv, Succeed, Settled,
     TaskDone, Fates, Notes, Counts
<1>7. WorkInv'
  BY <1>1, <1>2, <1>3, DispatcherAssumption
     DEF IInv, NothingLost, TypeOK, WorkInv, Succeed, Settled, TaskDone, Fates, Notes,
     Counts
<1>8. CloseInv'
  BY <1>1, <1>2, <1>3
     DEF IInv, NothingLost, TypeOK, CloseInv, Succeed, Settled, TaskDone, Fates, Notes,
     Counts
<1>9. QueueInv'
  BY <1>1, <1>2, <1>3, SameQueue
     DEF IInv, CloseInv, SentinelQueued, Succeed, Settled, TaskDone, Fates, Notes,
     Counts
<1>. QED
  BY <1>4, <1>5, <1>6, <1>7, <1>8, <1>9 DEF IInv, NothingLost

\* The notification has failed for good.
LEMMA FailKeeps ==
  ASSUME IInv, NEW r \in Responses, NEW arrived \in BOOLEAN, Fail(r, arrived)
  PROVE  IInv'
<1>1. current \in Notes /\ unfinished >= 1 /\ InFlight = 1
  BY Delivering DEF Fail
<1>2. received' \in [Notes -> Nat] /\ newest' \in 0..MaxPublished
  BY <1>1, ArrivalTypes DEF IInv, NothingLost, Fail
<1>3. Counts(0, 0, 1, 0)
  BY FailedCounted DEF IInv, NothingLost, TypeOK, Fail
<1>4. TypeOK'
  <2>1. fate' \in [Notes -> Fates]
    BY <1>1 DEF IInv, NothingLost, TypeOK, Fail, Settled, Fates
  <2>2. /\ worker' \in WorkerStates /\ current' \in 0..MaxPublished
        /\ attempt' \in 0..MaxAttempts
        /\ unfinished' \in Nat /\ closer' \in CloserStates
    <3>1. unfinished \in Nat /\ closer \in CloserStates
      BY DEF IInv, NothingLost, TypeOK
    <3>2. /\ worker' = "get" /\ current' = 0 /\ attempt' = 0
          /\ unfinished' = unfinished - 1 /\ closer' \in {closer, "joined"}
      BY DEF Fail, Settled, TaskDone
    <3>. QED
      BY <1>1, <3>1, <3>2, DispatcherAssumption DEF WorkerStates, CloserStates
  <2>3. UNCHANGED <<delay, since, queue, published, closes, late>>
    BY DEF Fail, Settled
  <2>. QED
    BY <1>2, <1>3, <2>1, <2>2, <2>3 DEF IInv, NothingLost, TypeOK, Counts
<1>5. Accounting'
  <2>1. /\ InFlight = 1 /\ InFlight' = 0
        /\ SentinelCount' = SentinelCount /\ SentinelCount \in Int
    BY <1>1, <1>2, <1>3, DispatcherAssumption
       DEF IInv, NothingLost, TypeOK, WorkInv, CloseInv, InFlight, SentinelCount,
       SentinelQueued, Fail, Settled, TaskDone, Fates, Notes, Counts
  <2>2. unfinished' = unfinished - 1 /\ queue' = queue
    BY DEF Fail, Settled, TaskDone
  <2>3. Accounting /\ TypeOK
    BY DEF IInv, NothingLost
  <2>4. /\ stats.queued \in Int /\ stats.sent \in Int /\ stats.failed \in Int
        /\ stats.close_errors \in Int /\ Len(queue) \in Int /\ unfinished \in Int
    BY <2>3, Numbers
  <2>5. /\ stats'.queued = stats.queued /\ stats'.sent = stats.sent
        /\ stats'.failed = stats.failed + 1 /\ stats'.close_errors = stats.close_errors
    BY <1>1, <1>2, <1>3, <2>4 DEF Counts
  <2>6. stats'.queued = stats'.sent + (stats'.failed - stats'.close_errors)
                        + InFlight' + (Len(queue') - SentinelCount')
    <3>1. stats.queued = stats.sent + (stats.failed - stats.close_errors)
                         + InFlight + (Len(queue) - SentinelCount)
      BY <2>3 DEF Accounting
    <3>2. Len(queue') = Len(queue)
      BY <2>2
    <3>. QED
      BY <2>1, <2>4, <2>5, <3>1, <3>2
  <2>7. unfinished' = Len(queue') + InFlight'
    BY <2>1, <2>2, <2>3, <2>4 DEF Accounting
  <2>. QED
    BY <2>6, <2>7 DEF Accounting
<1>6. OnlyLateAreStranded'
  BY <1>1, <1>2, <1>3
     DEF IInv, NothingLost, TypeOK, OnlyLateAreStranded, CloseInv, Fail, Settled,
     TaskDone, Fates, Notes, Counts
<1>7. WorkInv'
  BY <1>1, <1>2, <1>3, DispatcherAssumption
     DEF IInv, NothingLost, TypeOK, WorkInv, Fail, Settled, TaskDone, Fates, Notes,
     Counts
<1>8. CloseInv'
  BY <1>1, <1>2, <1>3
     DEF IInv, NothingLost, TypeOK, CloseInv, Fail, Settled, TaskDone, Fates, Notes,
     Counts
<1>9. QueueInv'
  BY <1>1, <1>2, <1>3, SameQueue
     DEF IInv, CloseInv, SentinelQueued, Fail, Settled, TaskDone, Fates, Notes, Counts
<1>. QED
  BY <1>4, <1>5, <1>6, <1>7, <1>8, <1>9 DEF IInv, NothingLost

\* The notification will be sent again after a delay, which the policy limits.
LEMMA RetryKeeps ==
  ASSUME IInv, NEW r \in Responses, NEW arrived \in BOOLEAN,
         NEW after \in RetryAfter \cup {-1}, Retry(r, after, arrived)
  PROVE  IInv'
<1>1. current \in Notes /\ unfinished >= 1 /\ InFlight = 1
  BY Delivering DEF Retry
<1>2. received' \in [Notes -> Nat] /\ newest' \in 0..MaxPublished
  BY <1>1, ArrivalTypes DEF IInv, NothingLost, Retry
<1>3. delay' \in Int /\ delay' <= MaxRetryDelay
  <2>1. RetryBase * 2 ^ (attempt - 1) \in Int
    <3>1. attempt - 1 \in Nat
      BY DispatcherAssumption DEF IInv, NothingLost, TypeOK, WorkInv, Retry
    <3>. QED
      BY <3>1, DispatcherAssumption
  <2>2. delay' = RetryDelay(attempt, after) /\ after \in Int /\ MaxRetryDelay \in Int
    BY DispatcherAssumption DEF Retry
  <2>. QED
    BY <2>1, <2>2 DEF RetryDelay
<1>4. Counts(0, 0, 0, 0)
  BY NoneCounted DEF IInv, NothingLost, TypeOK, Retry
<1>5. TypeOK'
  BY <1>1, <1>2, <1>3, <1>4, DispatcherAssumption
     DEF IInv, NothingLost, TypeOK, WorkerStates, CloserStates, WorkInv, Retry,
     queueVars, Notes, Counts
<1>6. Accounting'
  BY <1>1, <1>2, <1>3, <1>4, DispatcherAssumption
     DEF IInv, NothingLost, TypeOK, Stats, Accounting, InFlight, SentinelCount,
     SentinelQueued, WorkInv, CloseInv, Retry, queueVars, Notes, Counts
<1>7. OnlyLateAreStranded'
  BY <1>1, <1>2, <1>3, <1>4
     DEF IInv, NothingLost, TypeOK, OnlyLateAreStranded, CloseInv, Retry, queueVars,
     Notes, Counts
<1>8. WorkInv'
  BY <1>1, <1>2, <1>3, <1>4, DispatcherAssumption
     DEF IInv, NothingLost, TypeOK, WorkInv, Retry, queueVars, Notes, Counts
<1>9. CloseInv'
  BY <1>1, <1>2, <1>3, <1>4
     DEF IInv, NothingLost, TypeOK, CloseInv, Retry, queueVars, Notes, Counts
<1>10. QueueInv'
  BY <1>1, <1>2, <1>3, <1>4, SameQueue
     DEF IInv, CloseInv, SentinelQueued, Retry, queueVars, Notes, Counts
<1>. QED
  BY <1>5, <1>6, <1>7, <1>8, <1>9, <1>10 DEF IInv, NothingLost

\* The delay is over.
LEMMA TryAgainKeeps ==
  ASSUME IInv, TryAgain
  PROVE  IInv'
<1>1. TypeOK'
  BY DispatcherAssumption
     DEF IInv, NothingLost, TypeOK, WorkerStates, CloserStates, WorkInv, TryAgain,
     queueVars, historyVars
<1>2. Accounting'
  BY DispatcherAssumption
     DEF IInv, NothingLost, TypeOK, Stats, Accounting, InFlight, SentinelCount,
     SentinelQueued, WorkInv, CloseInv, TryAgain, queueVars, historyVars
<1>3. OnlyLateAreStranded'
  BY DEF IInv, NothingLost, TypeOK, OnlyLateAreStranded, CloseInv, TryAgain, queueVars,
     historyVars
<1>4. WorkInv'
  BY DispatcherAssumption
     DEF IInv, NothingLost, TypeOK, WorkInv, TryAgain, queueVars, historyVars
<1>5. CloseInv'
  BY DEF IInv, NothingLost, TypeOK, CloseInv, TryAgain, queueVars, historyVars
<1>6. QueueInv'
  BY SameQueue DEF IInv, CloseInv, SentinelQueued, TryAgain, queueVars, historyVars
<1>. QED
  BY <1>1, <1>2, <1>3, <1>4, <1>5, <1>6 DEF IInv, NothingLost

\* Time passes.
LEMMA TickKeeps ==
  ASSUME IInv, Tick
  PROVE  IInv'
<1>1. TypeOK'
  BY DispatcherAssumption
     DEF IInv, NothingLost, TypeOK, WorkerStates, CloserStates, WorkInv, Tick,
     queueVars, historyVars
<1>2. Accounting'
  BY DispatcherAssumption
     DEF IInv, NothingLost, TypeOK, Stats, Accounting, InFlight, SentinelCount,
     SentinelQueued, WorkInv, CloseInv, Tick, queueVars, historyVars
<1>3. OnlyLateAreStranded'
  BY DEF IInv, NothingLost, TypeOK, OnlyLateAreStranded, CloseInv, Tick, queueVars,
     historyVars
<1>4. WorkInv'
  BY DispatcherAssumption
     DEF IInv, NothingLost, TypeOK, WorkInv, Tick, queueVars, historyVars
<1>5. CloseInv'
  BY DEF IInv, NothingLost, TypeOK, CloseInv, Tick, queueVars, historyVars
<1>6. QueueInv'
  BY SameQueue DEF IInv, CloseInv, SentinelQueued, Tick, queueVars, historyVars
<1>. QED
  BY <1>1, <1>2, <1>3, <1>4, <1>5, <1>6 DEF IInv, NothingLost

-----------------------------------------------------------------------------
(* close()                                                                  *)

\* There is nothing to wait for.
LEMMA CloseWithoutWorkerKeeps ==
  ASSUME IInv, CloseWithoutWorker
  PROVE  IInv'
<1>1. TypeOK'
  BY DispatcherAssumption
     DEF IInv, NothingLost, TypeOK, WorkerStates, CloserStates, WorkInv,
     CloseWithoutWorker, workVars, queueVars, historyVars
<1>2. Accounting'
  BY DispatcherAssumption
     DEF IInv, NothingLost, TypeOK, Stats, Accounting, InFlight, SentinelCount,
     SentinelQueued, WorkInv, CloseInv, CloseWithoutWorker, workVars, queueVars,
     historyVars, CloserStates
<1>3. OnlyLateAreStranded'
  BY DEF IInv, NothingLost, TypeOK, OnlyLateAreStranded, CloseInv, CloseWithoutWorker,
     workVars, queueVars, historyVars, CloserStates
<1>4. WorkInv'
  BY DispatcherAssumption
     DEF IInv, NothingLost, TypeOK, WorkInv, CloseWithoutWorker, workVars, queueVars,
     historyVars, CloserStates
<1>5. CloseInv'
  BY DEF IInv, NothingLost, TypeOK, CloseInv, CloseWithoutWorker, workVars, queueVars,
     historyVars, CloserStates
<1>6. QueueInv'
  BY SameQueue
     DEF IInv, CloseInv, SentinelQueued, CloseWithoutWorker, workVars, queueVars,
     historyVars, CloserStates
<1>. QED
  BY <1>1, <1>2, <1>3, <1>4, <1>5, <1>6 DEF IInv, NothingLost

\* close() waits for the queue.
LEMMA JoinKeeps ==
  ASSUME IInv, Join
  PROVE  IInv'
<1>1. TypeOK'
  BY DispatcherAssumption
     DEF IInv, NothingLost, TypeOK, WorkerStates, CloserStates, WorkInv, Join, workVars,
     queueVars, historyVars
<1>2. Accounting'
  BY DispatcherAssumption
     DEF IInv, NothingLost, TypeOK, Stats, Accounting, InFlight, SentinelCount,
     SentinelQueued, WorkInv, CloseInv, Join, workVars, queueVars, historyVars,
     CloserStates
<1>3. OnlyLateAreStranded'
  BY DEF IInv, NothingLost, TypeOK, OnlyLateAreStranded, CloseInv, Join, workVars,
     queueVars, historyVars, CloserStates
<1>4. WorkInv'
  BY DispatcherAssumption
     DEF IInv, NothingLost, TypeOK, WorkInv, Join, workVars, queueVars, historyVars,
     CloserStates
<1>5. CloseInv'
  BY DEF IInv, NothingLost, TypeOK, CloseInv, Join, workVars, queueVars, historyVars,
     CloserStates
<1>6. QueueInv'
  BY SameQueue
     DEF IInv, CloseInv, SentinelQueued, Join, workVars, queueVars, historyVars,
     CloserStates
<1>. QED
  BY <1>1, <1>2, <1>3, <1>4, <1>5, <1>6 DEF IInv, NothingLost

\* An empty queue gets the sentinel: nothing unfinished means nothing queued.
LEMMA CloseIdleKeeps ==
  ASSUME IInv, CloseIdle
  PROVE  IInv'
<1>1. /\ queue' \in Seq(0..MaxPublished) /\ Len(queue') = Len(queue) + 1
      /\ Len(queue) \in Nat
      /\ \A k \in 1..Len(queue) : queue'[k] = queue[k]
      /\ queue'[Len(queue) + 1] = Sentinel
  BY AppendFacts, DispatcherAssumption
     DEF IInv, NothingLost, TypeOK, CloseIdle, Sentinel
<1>2. TypeOK'
  BY <1>1, DispatcherAssumption
     DEF IInv, NothingLost, TypeOK, WorkerStates, CloserStates, WorkInv, Accounting,
     InFlight, CloseIdle, workVars, historyVars
<1>3. Accounting'
  BY <1>1, DispatcherAssumption
     DEF IInv, NothingLost, TypeOK, Stats, Accounting, InFlight, SentinelCount,
     SentinelQueued, WorkInv, CloseInv, CloseIdle, workVars, historyVars, CloserStates
<1>4. OnlyLateAreStranded'
  BY <1>1
     DEF IInv, NothingLost, TypeOK, OnlyLateAreStranded, CloseInv, CloseIdle, workVars,
     historyVars, CloserStates
<1>5. WorkInv'
  BY <1>1, DispatcherAssumption
     DEF IInv, NothingLost, TypeOK, WorkInv, CloseIdle, workVars, historyVars,
     CloserStates
<1>6. CloseInv'
  BY <1>1
     DEF IInv, NothingLost, TypeOK, CloseInv, CloseIdle, workVars, historyVars,
     CloserStates
<1>7. QueueInv'
  <2>1. SentinelQueued'
    BY DEF IInv, CloseInv, SentinelQueued, CloseIdle, workVars
  <2>2. ~SentinelQueued
    BY DEF SentinelQueued, CloseIdle
  <2>3. Len(queue') \in 1..Len(queue') /\ SentinelAt(Len(queue))'
    BY <1>1, <2>2 DEF IInv, QueueInv, SentinelAt, Sentinel, CloseIdle
  <2>. QED
    BY <2>1, <2>3 DEF QueueInv
<1>. QED
  BY <1>2, <1>3, <1>4, <1>5, <1>6, <1>7 DEF IInv, NothingLost

\* The sentinel is queued behind what was accepted before.
LEMMA PutSentinelKeeps ==
  ASSUME IInv, PutSentinel
  PROVE  IInv'
<1>1. /\ queue' \in Seq(0..MaxPublished) /\ Len(queue') = Len(queue) + 1
      /\ Len(queue) \in Nat
      /\ \A k \in 1..Len(queue) : queue'[k] = queue[k]
      /\ queue'[Len(queue) + 1] = Sentinel
  BY AppendFacts, DispatcherAssumption
     DEF IInv, NothingLost, TypeOK, PutSentinel, Sentinel
<1>2. TypeOK'
  BY <1>1, DispatcherAssumption
     DEF IInv, NothingLost, TypeOK, WorkerStates, CloserStates, WorkInv, PutSentinel,
     workVars, historyVars
<1>3. Accounting'
  <2>1. /\ InFlight' = InFlight /\ InFlight \in Int
        /\ SentinelCount = 0 /\ SentinelCount' = 1
    BY DEF IInv, CloseInv, InFlight, SentinelCount, SentinelQueued, PutSentinel,
       workVars
  <2>2. stats' = stats /\ unfinished' = unfinished + 1
    BY DEF PutSentinel
  <2>3. Accounting /\ TypeOK
    BY DEF IInv, NothingLost
  <2>4. /\ stats.queued \in Int /\ stats.sent \in Int /\ stats.failed \in Int
        /\ stats.close_errors \in Int /\ Len(queue) \in Int /\ unfinished \in Int
    BY <2>3, Numbers
  <2>. QED
    BY <1>1, <2>1, <2>2, <2>3, <2>4 DEF Accounting
<1>4. OnlyLateAreStranded'
  BY <1>1
     DEF IInv, NothingLost, TypeOK, OnlyLateAreStranded, CloseInv, PutSentinel,
     workVars, historyVars, CloserStates
<1>5. WorkInv'
  BY <1>1, DispatcherAssumption
     DEF IInv, NothingLost, TypeOK, WorkInv, PutSentinel, workVars, historyVars,
     CloserStates
<1>6. CloseInv'
  BY <1>1
     DEF IInv, NothingLost, TypeOK, CloseInv, PutSentinel, workVars, historyVars,
     CloserStates
<1>7. QueueInv'
  <2>1. SentinelQueued'
    BY DEF IInv, CloseInv, SentinelQueued, PutSentinel, workVars
  <2>2. ~SentinelQueued
    BY DEF SentinelQueued, PutSentinel
  <2>3. Len(queue') \in 1..Len(queue') /\ SentinelAt(Len(queue))'
    BY <1>1, <2>2 DEF IInv, QueueInv, SentinelAt, Sentinel, PutSentinel
  <2>. QED
    BY <2>1, <2>3 DEF QueueInv
<1>. QED
  BY <1>2, <1>3, <1>4, <1>5, <1>6, <1>7 DEF IInv, NothingLost

\* close() learns that the worker ended.
LEMMA WorkerEndedKeeps ==
  ASSUME IInv, WorkerEnded
  PROVE  IInv'
<1>1. TypeOK'
  BY DispatcherAssumption
     DEF IInv, NothingLost, TypeOK, WorkerStates, CloserStates, WorkInv, WorkerEnded,
     queueVars, historyVars
<1>2. Accounting'
  BY DispatcherAssumption
     DEF IInv, NothingLost, TypeOK, Stats, Accounting, InFlight, SentinelCount,
     SentinelQueued, WorkInv, CloseInv, WorkerEnded, queueVars, historyVars,
     CloserStates, WorkerStates
<1>3. OnlyLateAreStranded'
  BY DEF IInv, NothingLost, TypeOK, OnlyLateAreStranded, CloseInv, WorkerEnded,
     queueVars, historyVars, CloserStates, WorkerStates
<1>4. WorkInv'
  BY DispatcherAssumption
     DEF IInv, NothingLost, TypeOK, WorkInv, WorkerEnded, queueVars, historyVars,
     CloserStates, WorkerStates
<1>5. CloseInv'
  BY DEF IInv, NothingLost, TypeOK, CloseInv, WorkerEnded, queueVars, historyVars,
     CloserStates, WorkerStates
<1>6. QueueInv'
  BY SameQueue
     DEF IInv, CloseInv, SentinelQueued, WorkerEnded, queueVars, historyVars,
     CloserStates, WorkerStates
<1>. QED
  BY <1>1, <1>2, <1>3, <1>4, <1>5, <1>6 DEF IInv, NothingLost

\* close() returns.
LEMMA CloseTransportKeeps ==
  ASSUME IInv, NEW fails \in BOOLEAN, CloseTransport(fails)
  PROVE  IInv'
<1>1. IF fails THEN Counts(0, 0, 1, 1) ELSE Counts(0, 0, 0, 0)
  BY NoneCounted, CloseErrorCounted DEF IInv, NothingLost, TypeOK, CloseTransport
<1>2. TypeOK'
  BY <1>1, DispatcherAssumption
     DEF IInv, NothingLost, TypeOK, WorkerStates, CloserStates, WorkInv, CloseTransport,
     workVars, queueVars, historyVars, Counts
<1>3. Accounting'
  <2>1. /\ InFlight' = InFlight /\ SentinelCount' = SentinelCount
        /\ InFlight \in Int /\ SentinelCount \in Int
    BY DEF InFlight, SentinelCount, SentinelQueued, CloseTransport, workVars
  <2>2. UNCHANGED <<queue, unfinished>> /\ Accounting /\ TypeOK
    BY DEF CloseTransport, queueVars, IInv, NothingLost
  <2>3. /\ stats.queued \in Int /\ stats.sent \in Int /\ stats.failed \in Int
        /\ stats.close_errors \in Int /\ Len(queue) \in Int /\ unfinished \in Int
    BY <2>2, Numbers
  <2>4. CASE fails
    <3>1. /\ stats'.queued = stats.queued /\ stats'.sent = stats.sent
          /\ stats'.failed = stats.failed + 1
          /\ stats'.close_errors = stats.close_errors + 1
      BY <1>1, <2>3, <2>4 DEF Counts
    <3>2. stats'.failed - stats'.close_errors = stats.failed - stats.close_errors
      BY <2>3, <3>1
    <3>3. stats'.queued = stats'.sent + (stats'.failed - stats'.close_errors)
                          + InFlight' + (Len(queue') - SentinelCount')
      <4>1. stats.queued = stats.sent + (stats.failed - stats.close_errors)
                           + InFlight + (Len(queue) - SentinelCount)
        BY <2>2 DEF Accounting
      <4>. QED
        BY <2>1, <2>2, <3>1, <3>2, <4>1
    <3>4. unfinished' = Len(queue') + InFlight'
      BY <2>1, <2>2 DEF Accounting
    <3>. QED
      BY <3>3, <3>4 DEF Accounting
  <2>5. CASE ~fails
    <3>1. /\ stats'.queued = stats.queued /\ stats'.sent = stats.sent
          /\ stats'.failed = stats.failed /\ stats'.close_errors = stats.close_errors
      BY <1>1, <2>3, <2>5 DEF Counts
    <3>. QED
      BY <2>1, <2>2, <2>3, <3>1 DEF Accounting
  <2>. QED
    BY <2>4, <2>5
<1>4. OnlyLateAreStranded'
  BY <1>1
     DEF IInv, NothingLost, TypeOK, OnlyLateAreStranded, CloseInv, CloseTransport,
     workVars, queueVars, historyVars, CloserStates, Counts
<1>5. WorkInv'
  BY <1>1, DispatcherAssumption
     DEF IInv, NothingLost, TypeOK, WorkInv, CloseTransport, workVars, queueVars,
     historyVars, CloserStates, Counts
<1>6. CloseInv'
  BY <1>1
     DEF IInv, NothingLost, TypeOK, CloseInv, CloseTransport, workVars, queueVars,
     historyVars, CloserStates, Counts
<1>7. QueueInv'
  BY <1>1, SameQueue
     DEF IInv, CloseInv, SentinelQueued, CloseTransport, workVars, queueVars,
     historyVars, CloserStates, Counts
<1>. QED
  BY <1>2, <1>3, <1>4, <1>5, <1>6, <1>7 DEF IInv, NothingLost

-----------------------------------------------------------------------------
\* The invariant holds in the beginning.
LEMMA InitEstablishes == Init => IInv
<1>. SUFFICES ASSUME Init PROVE IInv
  OBVIOUS
<1>1. TypeOK
  BY DispatcherAssumption
     DEF Init, TypeOK, WorkerStates, CloserStates, Stats, Notes, Fates
<1>2. Accounting /\ OnlyLateAreStranded
  BY DEF Init, Accounting, InFlight, SentinelCount, SentinelQueued, OnlyLateAreStranded
<1>3. WorkInv /\ CloseInv /\ QueueInv
  BY DEF Init, WorkInv, CloseInv, QueueInv, SentinelQueued
<1>. QED
  BY <1>1, <1>2, <1>3 DEF IInv, NothingLost

\* Every step keeps the invariant.
LEMMA NextKeeps == IInv /\ [Next]_vars => IInv'
<1>. SUFFICES ASSUME IInv, [Next]_vars PROVE IInv'
  OBVIOUS
<1>1. CASE Start \/ Drop \/ Enqueue
  BY <1>1, StartKeeps, DropKeeps, EnqueueKeeps
<1>2. CASE Work
  <2>1. CASE Respond
    BY <2>1, SucceedKeeps, FailKeeps, RetryKeeps DEF Respond
  <2>. QED
    BY <1>2, <2>1, TakeKeeps, TakeSentinelKeeps, PaceKeeps, TryAgainKeeps DEF Work
<1>3. CASE Tick
  BY <1>3, TickKeeps
<1>4. CASE CloseWithoutWorker \/ CloseIdle \/ Join
  BY <1>4, CloseWithoutWorkerKeeps, CloseIdleKeeps, JoinKeeps
<1>5. CASE Close
  BY <1>5, PutSentinelKeeps, WorkerEndedKeeps, CloseTransportKeeps DEF Close
<1>6. CASE UNCHANGED vars
  BY <1>6
     DEF vars, workVars, queueVars, historyVars, IInv, NothingLost, TypeOK, Accounting,
     OnlyLateAreStranded, InFlight, SentinelCount, SentinelQueued, WorkInv, CloseInv,
     QueueInv, SentinelAt
<1>. QED
  BY <1>1, <1>2, <1>3, <1>4, <1>5, <1>6 DEF Next

\* Whatever the sizes, delays and numbers of calls: the counters account for
\* every notification, what join() counts is what is queued or delivered, the
\* queue keeps its bound, and a worker that ended for close() leaves only
\* notifications behind that were published after the sentinel.
THEOREM NothingLostHolds == Spec => []NothingLost
<1>1. IInv => NothingLost
  BY DEF IInv
<1>. QED
  BY InitEstablishes, NextKeeps, <1>1, PTL DEF Spec

-----------------------------------------------------------------------------
(* Order                                                                    *)

\* The queue holds notifications in the order of their publication, and all of
\* them are newer than the one being delivered and than all the recipient got.
OrderInv ==
  /\ \A i, j \in 1..Len(queue) :
       i < j /\ queue[i] # Sentinel /\ queue[j] # Sentinel => queue[i] < queue[j]
  /\ \A k \in 1..Len(queue) :
       /\ queue[k] <= published
       /\ queue[k] # Sentinel => newest < queue[k] /\ current < queue[k]
  /\ newest <= published /\ current <= published
  /\ current # 0 => newest <= current

\* The items of a queue are numbers.
LEMMA ItemTypes ==
  ASSUME TypeOK
  PROVE  \A k \in 1..Len(queue) : queue[k] \in Nat
<1>1. ASSUME NEW S, NEW q \in Seq(S)
      PROVE  \A k \in 1..Len(q) : q[k] \in S
  OBVIOUS
<1>2. \A k \in 1..Len(queue) : queue[k] \in 0..MaxPublished
  BY <1>1 DEF TypeOK
<1>. QED
  BY <1>2, DispatcherAssumption

\* What is published is newer than all that is queued.
LEMMA OrderEnqueue ==
  ASSUME IInv, OrderInv, Enqueue
  PROVE  OrderInv'
<1>1. /\ queue \in Seq(0..MaxPublished) /\ published \in Nat
      /\ published + 1 \in 0..MaxPublished
      /\ newest \in Nat /\ current \in Nat /\ Len(queue) \in Nat
  <2>1. /\ queue \in Seq(0..MaxPublished) /\ newest \in Nat /\ current \in Nat
        /\ published \in 0..MaxPublished /\ MaxPublished \in Nat
    BY DispatcherAssumption DEF IInv, NothingLost, TypeOK
  <2>2. published < MaxPublished
    BY DEF Enqueue
  <2>3. Len(queue) \in Nat
    BY <2>1
  <2>. QED
    BY <2>1, <2>2, <2>3
<1>2. /\ queue' = Append(queue, published + 1) /\ published' = published + 1
      /\ newest' = newest /\ current' = current
  BY DEF Enqueue, workVars
<1>3. /\ Len(queue') = Len(queue) + 1 /\ queue'[Len(queue) + 1] = published + 1
      /\ \A k \in 1..Len(queue) : queue'[k] = queue[k]
  BY <1>1, <1>2, AppendFacts
<1>4. \A k \in 1..Len(queue) : queue[k] \in Nat
  BY ItemTypes DEF IInv, NothingLost
<1>. QED
  BY <1>1, <1>2, <1>3, <1>4 DEF OrderInv, Sentinel

\* The sentinel has no place in the order.
LEMMA OrderPutSentinel ==
  ASSUME IInv, OrderInv, CloseIdle \/ PutSentinel
  PROVE  OrderInv'
<1>1. /\ queue \in Seq(0..MaxPublished) /\ published \in Nat
      /\ newest \in Nat /\ current \in Nat /\ Len(queue) \in Nat
      /\ Sentinel \in 0..MaxPublished
  BY DispatcherAssumption DEF IInv, NothingLost, TypeOK, Sentinel
<1>2. /\ queue' = Append(queue, Sentinel) /\ published' = published
      /\ newest' = newest /\ current' = current
  BY DEF CloseIdle, PutSentinel, workVars, historyVars
<1>3. /\ Len(queue') = Len(queue) + 1 /\ queue'[Len(queue) + 1] = Sentinel
      /\ \A k \in 1..Len(queue) : queue'[k] = queue[k]
  BY <1>1, <1>2, AppendFacts
<1>4. \A k \in 1..Len(queue) : queue[k] \in Nat
  BY ItemTypes DEF IInv, NothingLost
<1>. QED
  BY <1>1, <1>2, <1>3, <1>4 DEF OrderInv, Sentinel

\* The worker takes the oldest notification, or the sentinel.
LEMMA OrderTake ==
  ASSUME IInv, OrderInv, Take \/ TakeSentinel
  PROVE  OrderInv'
<1>1. /\ queue \in Seq(0..MaxPublished) /\ published \in Nat /\ queue # <<>>
      /\ newest \in Nat /\ current \in Nat /\ Len(queue) \in Nat
  BY DispatcherAssumption DEF IInv, NothingLost, TypeOK, Take, TakeSentinel
<1>2. /\ Len(queue) >= 1 /\ Head(queue) = queue[1] /\ Len(Tail(queue)) = Len(queue) - 1
      /\ \A k \in 1..Len(queue) - 1 : Tail(queue)[k] = queue[k + 1]
  <2>1. /\ Head(queue) = queue[1] /\ Len(queue) \in Nat \ {0}
        /\ Len(Tail(queue)) = Len(queue) - 1
        /\ \A k \in 1..Len(Tail(queue)) : Tail(queue)[k] = queue[k + 1]
    BY <1>1, TailFacts
  <2>. QED
    BY <2>1
<1>3. /\ queue' = Tail(queue) /\ published' = published /\ newest' = newest
      /\ \/ current' = queue[1] /\ queue[1] # Sentinel
         \/ current' = current
  BY <1>1, <1>2 DEF Take, TakeSentinel, historyVars
<1>4. \A k \in 1..Len(queue) : queue[k] \in Nat
  BY ItemTypes DEF IInv, NothingLost
<1>. QED
  BY <1>1, <1>2, <1>3, <1>4 DEF OrderInv, Sentinel

\* A request ends: only the notification being delivered may arrive.
LEMMA OrderRespond ==
  ASSUME IInv, OrderInv, Respond
  PROVE  /\ OrderInv'
         /\ \A n \in Notes : received'[n] > received[n] => n >= newest
<1>1. /\ queue \in Seq(0..MaxPublished) /\ published \in Nat /\ Len(queue) \in Nat
      /\ newest \in Nat /\ received \in [Notes -> Nat]
      /\ \A k \in 1..Len(queue) : queue[k] \in Nat
  BY ItemTypes, DispatcherAssumption DEF IInv, NothingLost, TypeOK
<1>2. worker = "send"
  BY DEF Respond, Succeed, Fail, Retry
<1>3. current \in Notes /\ current \in Nat /\ current # 0
  BY <1>2, DispatcherAssumption DEF IInv, NothingLost, TypeOK, WorkInv, Notes
<1>4. queue' = queue /\ published' = published /\ (current' = 0 \/ current' = current)
  BY DEF Respond, Succeed, Fail, Retry, Settled, queueVars
<1>5. /\ newest' = current \/ newest' = newest
      /\ received' = [received EXCEPT ![current] = @ + 1] \/ received' = received
  BY DEF Respond, Succeed, Fail, Retry, Reaches
<1>6. OrderInv'
  BY <1>1, <1>3, <1>4, <1>5 DEF OrderInv, Sentinel
<1>7. ASSUME NEW n \in Notes, received'[n] > received[n]
      PROVE  n >= newest
  <2>1. n = current
    BY <1>1, <1>3, <1>5, <1>7
  <2>. QED
    BY <1>1, <1>3, <2>1 DEF OrderInv
<1>. QED
  BY <1>6, <1>7

\* Every step keeps the order, and none lets an older notification arrive.
LEMMA NextInOrder ==
  ASSUME IInv, OrderInv, [Next]_vars
  PROVE  /\ OrderInv'
         /\ \A n \in Notes : received'[n] > received[n] => n >= newest
<1>1. CASE Respond
  BY <1>1, OrderRespond
<1>2. CASE ~Respond
  <2>1. received' = received
    BY <1>2
       DEF Next, Start, Drop, Enqueue, Work, Take, TakeSentinel, Pace, TryAgain, Tick,
       CloseWithoutWorker, CloseIdle, Join, Close, PutSentinel, WorkerEnded,
       CloseTransport, historyVars, vars
  <2>2. OrderInv'
    <3>1. CASE Enqueue
      BY <3>1, OrderEnqueue
    <3>2. CASE CloseIdle \/ PutSentinel
      BY <3>2, OrderPutSentinel
    <3>3. CASE Take \/ TakeSentinel
      BY <3>3, OrderTake
    <3>4. CASE Drop
      <4>1. /\ published' = published + 1 /\ queue' = queue
            /\ newest' = newest /\ current' = current
        BY <3>4 DEF Drop, workVars, queueVars
      <4>2. published \in Nat /\ newest \in Nat /\ current \in Nat
        BY DispatcherAssumption DEF IInv, NothingLost, TypeOK
      <4>3. \A m \in 1..Len(queue) : queue[m] \in Nat
        BY ItemTypes DEF IInv, NothingLost
      <4>. QED
        BY <4>1, <4>2, <4>3 DEF OrderInv, Sentinel
    <3>5. CASE UNCHANGED <<queue, published, newest, current>>
      BY <3>5 DEF OrderInv
    <3>. QED
      BY <1>2, <3>1, <3>2, <3>3, <3>4, <3>5
         DEF Next, Start, Work, Pace, TryAgain, Tick, CloseWithoutWorker, Join, Close,
         WorkerEnded, CloseTransport, workVars, queueVars, historyVars, vars
  <2>3. IInv => received \in [Notes -> Nat]
    BY DEF IInv, NothingLost, TypeOK
  <2>. QED
    BY <2>1, <2>2, <2>3
<1>. QED
  BY <1>1, <1>2

\* Whatever the retries, delays and numbers of calls, close() and restarts
\* included: an older notification never reaches the recipient after a newer one.
THEOREM DeliveredInOrderHolds == Spec => DeliveredInOrder
<1>1. Init => OrderInv
  BY DEF Init, OrderInv
<1>2. IInv /\ OrderInv /\ [Next]_vars
        => /\ OrderInv'
           /\ [\A n \in Notes : received'[n] > received[n] => n >= newest]_vars
  BY NextInOrder
<1>. QED
  BY InitEstablishes, NextKeeps, <1>1, <1>2, PTL DEF Spec, DeliveredInOrder
=============================================================================
