--------------------------- MODULE CandidatesProofs ---------------------------
(***************************************************************************)
(* Proofs about Candidates, for any number of symbols and adapters and any *)
(* capacity, residency, refresh interval and retry delays: one membership  *)
(* everywhere, and one that changes no faster than it may.                 *)
(***************************************************************************)
EXTENDS Candidates, FiniteSetTheorems, TLAPS

Message == [method : {"SUBSCRIBE", "UNSUBSCRIBE"}, params : SUBSET Symbols]
Queues == Seq(Message) \cup {NoQueue}
Pool == {s \in Symbols : admitted[s] # 0}

TypeInv ==
  /\ now \in 1..MaxTime /\ stop \in BOOLEAN /\ phase \in Phases
  /\ emitted \in 0..MaxTime /\ refreshed \in 0..MaxTime /\ started \in 0..MaxTime
  /\ failures \in 0..MaxFailures /\ attempt \in 0..failures
  /\ retryAt \in 0..MaxTime + RetryMax
  /\ symbols \in SUBSET Symbols /\ target \in SUBSET Symbols
  /\ candidates \in SUBSET Symbols

\* Who is admitted was so when it last entered, and who no longer is has stayed
\* for its residency.
PoolInv ==
  /\ admitted \in [Symbols -> 0..MaxTime] /\ enteredAt \in [Symbols -> 0..MaxTime]
  /\ \A s \in Symbols : admitted[s] # 0 => admitted[s] = enteredAt[s]
  /\ \A s \in Symbols :
       admitted[s] = 0 /\ enteredAt[s] # 0 => now - enteredAt[s] >= Residency
  /\ Cardinality(Pool) <= Capacity

\* A reconcile() in progress is about the pool as it is, and was due when it
\* started; otherwise runtime and supervisor have the same candidates.
RunInv ==
  /\ phase = "preparing" =>
       target = Pool /\ (candidates = {} \/ started - refreshed >= Refresh)
  /\ phase # "preparing" => symbols = candidates
  /\ \A s \in candidates : enteredAt[s] # 0

MonitorInv ==
  /\ warmed \in [Adapters -> SUBSET Symbols]
  /\ \A a \in Adapters : candidates \subseteq warmed[a]
  /\ instruments = [a \in Adapters |-> candidates]
  /\ active = [a \in Adapters |-> candidates]

Warm(queue, warm) ==
  \A i \in DOMAIN queue : queue[i].method = "SUBSCRIBE" => queue[i].params \subseteq warm

\* A connection with its queue, what the venue has, the membership and what has
\* been warmed up.
StreamOK(st, queue, have, members, warm) ==
  /\ have \subseteq warm
  /\ st = "down" => queue = NoQueue
  /\ st # "down" => /\ queue \in Seq(Message) /\ Warm(queue, warm)
                    /\ Reached(have, queue) = members

StreamInv ==
  /\ stream \in [Adapters -> Streams] /\ updates \in [Adapters -> Queues]
  /\ subscribed \in [Adapters -> SUBSET Symbols]
  /\ \A a \in Adapters :
       StreamOK(stream[a], updates[a], subscribed[a], candidates, warmed[a])

IInv == TypeInv /\ PoolInv /\ RunInv /\ MonitorInv /\ StreamInv

-----------------------------------------------------------------------------
(* Numbers                                                                 *)

LEMMA Constants ==
  /\ IsFiniteSet(Symbols) /\ Capacity \in Nat /\ Residency \in Nat \ {0}
  /\ Refresh \in Nat /\ RetryBase \in Nat /\ RetryMax \in Nat
  /\ MaxTime \in Nat \ {0} /\ MaxFailures \in Nat
BY CandidateAssumption

LEMMA MinOfTwo ==
  ASSUME NEW x \in Int, NEW y \in Int
  PROVE  Min({x, y}) \in {x, y} /\ Min({x, y}) <= x /\ Min({x, y}) <= y
<1>1. \E m \in {x, y} : \A z \in {x, y} : m <= z
  <2>1. CASE x <= y
    BY <2>1
  <2>2. CASE y <= x
    BY <2>2
  <2>. QED
    BY <2>1, <2>2
<1>. QED
  BY <1>1 DEF Min

LEMMA RetryDelayType ==
  ASSUME NEW n \in Nat \ {0}
  PROVE  RetryDelay(n) \in 0..RetryMax
<1>. DEFINE k == Min({n - 1, 10})
            x == RetryBase * 2 ^ k
<1>1. k \in {n - 1, 10} /\ k <= 10
  BY MinOfTwo
<1>2. k \in 0..10
  BY <1>1
<1>. HIDE DEF k
<1>3. 2 ^ k \in Nat
  BY <1>2, PowersAssumption
<1>4. x \in Nat
  BY <1>3, Constants
<1>. HIDE DEF x
<1>5. Min({RetryMax, x}) \in {RetryMax, x} /\ Min({RetryMax, x}) <= RetryMax
  BY <1>4, Constants, MinOfTwo
<1>6. RetryDelay(n) = Min({RetryMax, x})
  BY DEF RetryDelay, x, k
<1>. QED
  BY <1>4, <1>5, <1>6, Constants

-----------------------------------------------------------------------------
(* Queues                                                                  *)

LEMMA QueueIsNot ==
  ASSUME NEW q \in Seq(Message)
  PROVE  q # NoQueue
<1>. SUFFICES ASSUME q = NoQueue
              PROVE  FALSE
  OBVIOUS
<1>1. NoQueue[1] = [method |-> "NONE", params |-> {}] /\ Len(NoQueue) = 1
  BY DEF NoQueue
<1>2. q[1] \in Message
  <2>. HIDE DEF NoQueue
  <2>1. Len(q) = 1
    BY <1>1
  <2>2. \A i \in 1..Len(q) : q[i] \in Message
    OBVIOUS
  <2>. QED
    BY <2>1, <2>2
<1>3. q[1].method = "NONE"
  BY <1>1
<1>. QED
  BY <1>2, <1>3 DEF Message

\* Whether a symbol is there after the whole queue.
After(s, have, queue) ==
  \/ s \in have /\ \A i \in DOMAIN queue : s \notin queue[i].params
  \/ \E i \in DOMAIN queue :
       /\ queue[i].method = "SUBSCRIBE" /\ s \in queue[i].params
       /\ \A j \in i + 1..Len(queue) : s \notin queue[j].params

LEMMA ReachedNothing ==
  ASSUME NEW have \in SUBSET Symbols
  PROVE  Reached(have, <<>>) = have
BY DEF Reached

\* Sending the head of the queue changes nothing about where it leads.
LEMMA ReachedHead ==
  ASSUME NEW have \in SUBSET Symbols, NEW q \in Seq(Message), q # <<>>
  PROVE  /\ Tail(q) \in Seq(Message)
         /\ Reached(Applied(have, Head(q)), Tail(q)) = Reached(have, q)
<1>. DEFINE n == Len(q)
            u == q[1]
            r == Tail(q)
            got == Applied(have, u)
<1>1. /\ n \in Nat \ {0} /\ Head(q) = u /\ u \in Message /\ DOMAIN q = 1..n
      /\ r \in Seq(Message) /\ Len(r) = n - 1 /\ DOMAIN r = 1..n - 1
      /\ \A i \in 1..n - 1 : r[i] = q[i + 1]
  OBVIOUS
<1>2. ASSUME NEW s \in Symbols
      PROVE  After(s, got, r) <=> After(s, have, q)
  <2>. DEFINE Named(i) == s \in q[i].params
              Settles(i) == q[i].method = "SUBSCRIBE" /\ Named(i)
                           /\ \A j \in i + 1..n : ~Named(j)
              Rest(i) == r[i].method = "SUBSCRIBE" /\ s \in r[i].params
                           /\ \A j \in i + 1..n - 1 : s \notin r[j].params
  <2>1. After(s, have, q) <=> \/ s \in have /\ \A i \in 1..n : ~Named(i)
                              \/ \E i \in 1..n : Settles(i)
    BY <1>1 DEF After
  <2>2. (\A i \in 1..n - 1 : s \notin r[i].params) <=> \A i \in 2..n : ~Named(i)
    <3>1. ASSUME \A i \in 1..n - 1 : s \notin r[i].params, NEW i \in 2..n
          PROVE  ~Named(i)
      <4>1. i - 1 \in 1..n - 1 /\ i - 1 + 1 = i
        BY <1>1
      <4>. QED
        BY <1>1, <3>1, <4>1
    <3>2. ASSUME \A i \in 2..n : ~Named(i), NEW i \in 1..n - 1
          PROVE  s \notin r[i].params
      <4>1. i + 1 \in 2..n
        BY <1>1
      <4>. QED
        BY <1>1, <3>2, <4>1
    <3>. QED
      BY <3>1, <3>2
  <2>3. ASSUME NEW i \in 1..n - 1
        PROVE  Rest(i) <=> Settles(i + 1)
    <3>1. r[i] = q[i + 1]
      BY <1>1
    <3>2. ASSUME \A j \in i + 1..n - 1 : s \notin r[j].params, NEW j \in i + 1 + 1..n
          PROVE  ~Named(j)
      <4>1. j - 1 \in i + 1..n - 1 /\ j - 1 \in 1..n - 1 /\ j - 1 + 1 = j
        BY <1>1
      <4>. QED
        BY <1>1, <3>2, <4>1
    <3>3. ASSUME \A j \in i + 1 + 1..n : ~Named(j), NEW j \in i + 1..n - 1
          PROVE  s \notin r[j].params
      <4>1. j + 1 \in i + 1 + 1..n /\ j \in 1..n - 1
        BY <1>1
      <4>. QED
        BY <1>1, <3>3, <4>1
    <3>. QED
      BY <3>1, <3>2, <3>3
  <2>4. (\E i \in 1..n - 1 : Rest(i)) <=> \E i \in 2..n : Settles(i)
    <3>1. \A i \in 1..n - 1 : i + 1 \in 2..n
      BY <1>1
    <3>2. \A i \in 2..n : i - 1 \in 1..n - 1 /\ i - 1 + 1 = i
      BY <1>1
    <3>. HIDE DEF Settles, Rest
    <3>3. ASSUME NEW i \in 2..n, Settles(i)
          PROVE  \E h \in 1..n - 1 : Rest(h)
      <4>1. PICK h \in 1..n - 1 : h + 1 = i
        BY <3>2
      <4>2. Settles(h + 1)
        BY <3>3, <4>1
      <4>. QED
        BY <2>3, <4>2
    <3>4. ASSUME NEW i \in 1..n - 1, Rest(i)
          PROVE  \E h \in 2..n : Settles(h)
      BY <2>3, <3>1, <3>4
    <3>. QED
      BY <3>3, <3>4
  <2>5. After(s, got, r) <=> \/ s \in got /\ \A i \in 2..n : ~Named(i)
                             \/ \E i \in 2..n : Settles(i)
    BY <1>1, <2>2, <2>4 DEF After
  <2>6. s \in got <=> (q[1].method = "SUBSCRIBE" /\ Named(1)) \/ (s \in have /\ ~Named(1))
    BY <1>1 DEF Applied, Message
  <2>7. Settles(1) <=> q[1].method = "SUBSCRIBE" /\ Named(1) /\ \A i \in 2..n : ~Named(i)
    OBVIOUS
  <2>8. \A i \in 1..n : i = 1 \/ i \in 2..n
    BY <1>1
  <2>9. 1 \in 1..n /\ \A i \in 2..n : i \in 1..n
    BY <1>1
  <2>. HIDE DEF Named, Settles, got
  <2>. QED
    BY <2>1, <2>5, <2>6, <2>7, <2>8, <2>9
<1>3. Reached(got, r) = Reached(have, q)
  BY <1>2 DEF Reached, After
<1>. QED
  BY <1>1, <1>3

LEMMA ReachedMore ==
  ASSUME NEW have \in SUBSET Symbols, NEW q \in Seq(Message), NEW u \in Message
  PROVE  /\ q \o <<u>> \in Seq(Message)
         /\ Reached(have, q \o <<u>>) = Applied(Reached(have, q), u)
<1>. DEFINE n == Len(q)
            r == q \o <<u>>
<1>1. /\ n \in Nat /\ DOMAIN q = 1..n /\ r \in Seq(Message) /\ Len(r) = n + 1
      /\ DOMAIN r = 1..n + 1 /\ r[n + 1] = u /\ \A i \in 1..n : r[i] = q[i]
  OBVIOUS
<1>. HIDE DEF r
<1>2. ASSUME NEW s \in Symbols
      PROVE  After(s, have, r) <=> \/ u.method = "SUBSCRIBE" /\ s \in u.params
                                   \/ s \notin u.params /\ After(s, have, q)
  <2>. DEFINE Named(i) == s \in q[i].params
              Settles(i) == q[i].method = "SUBSCRIBE" /\ Named(i)
                              /\ \A j \in i + 1..n : ~Named(j)
              More(i) == r[i].method = "SUBSCRIBE" /\ s \in r[i].params
                           /\ \A j \in i + 1..n + 1 : s \notin r[j].params
  <2>1. After(s, have, q) <=> \/ s \in have /\ \A i \in 1..n : ~Named(i)
                              \/ \E i \in 1..n : Settles(i)
    BY <1>1 DEF After
  <2>2. \A i \in 1..n + 1 : i \in 1..n \/ i = n + 1
    BY <1>1
  <2>3. n + 1 \in 1..n + 1 /\ \A i \in 1..n : i \in 1..n + 1
    BY <1>1
  <2>4. (\A i \in 1..n + 1 : s \notin r[i].params)
          <=> s \notin u.params /\ \A i \in 1..n : ~Named(i)
    BY <1>1, <2>2, <2>3
  <2>5. ASSUME NEW i \in 1..n
        PROVE  More(i) <=> Settles(i) /\ s \notin u.params
    <3>1. \A j \in i + 1..n + 1 : j \in i + 1..n \/ j = n + 1
      BY <1>1
    <3>2. n + 1 \in i + 1..n + 1 /\ \A j \in i + 1..n : j \in i + 1..n + 1 /\ j \in 1..n
      BY <1>1
    <3>3. (\A j \in i + 1..n + 1 : s \notin r[j].params)
            <=> s \notin u.params /\ \A j \in i + 1..n : ~Named(j)
      BY <1>1, <3>1, <3>2
    <3>. QED
      BY <1>1, <3>3
  <2>6. More(n + 1) <=> u.method = "SUBSCRIBE" /\ s \in u.params
    <3>1. n + 1 + 1..n + 1 = {}
      BY <1>1
    <3>. QED
      BY <1>1, <3>1
  <2>7. After(s, have, r) <=> \/ s \in have /\ \A i \in 1..n + 1 : s \notin r[i].params
                              \/ \E i \in 1..n + 1 : More(i)
    BY <1>1 DEF After
  <2>. HIDE DEF Named, Settles, More
  <2>8. (\E i \in 1..n + 1 : More(i))
          <=> More(n + 1) \/ \E i \in 1..n : Settles(i) /\ s \notin u.params
    BY <2>2, <2>3, <2>5
  <2>. QED
    BY <2>1, <2>4, <2>6, <2>7, <2>8
<1>3. Reached(have, r) = Applied(Reached(have, q), u)
  <2>1. Reached(have, r) = {s \in Symbols : After(s, have, r)}
    BY DEF Reached, After
  <2>2. Reached(have, q) = {s \in Symbols : After(s, have, q)}
    BY DEF Reached, After
  <2>3. u.params \in SUBSET Symbols /\ u.method \in {"SUBSCRIBE", "UNSUBSCRIBE"}
    BY DEF Message
  <2>4. CASE u.method = "SUBSCRIBE"
    BY <1>2, <2>1, <2>2, <2>3, <2>4 DEF Applied
  <2>5. CASE u.method # "SUBSCRIBE"
    BY <1>2, <2>1, <2>2, <2>3, <2>5 DEF Applied
  <2>. QED
    BY <2>4, <2>5
<1>. QED
  BY <1>1, <1>3 DEF r

Said(method, params) == [method |-> method, params |-> params]
With(q, method, params) == q \o Update(method, params)

\* One message more, if there is anything to say.
LEMMA UpdateFacts ==
  ASSUME NEW have \in SUBSET Symbols, NEW q \in Seq(Message),
         NEW method \in {"SUBSCRIBE", "UNSUBSCRIBE"}, NEW params \in SUBSET Symbols,
         NEW warm, Warm(q, warm), method = "SUBSCRIBE" => params \subseteq warm
  PROVE  LET r == With(q, method, params) IN
         /\ r \in Seq(Message) /\ Warm(r, warm)
         /\ Reached(have, r) = Applied(Reached(have, q), Said(method, params))
<1>. DEFINE r == With(q, method, params)
            u == Said(method, params)
<1>1. u \in Message /\ u.method = method /\ u.params = params
  BY DEF Message, Said
<1>2. CASE params = {}
  <2>1. r = q
    BY <1>2 DEF Update, With
  <2>. HIDE DEF u
  <2>2. Applied(Reached(have, q), u) = Reached(have, q)
    BY <1>1, <1>2 DEF Applied
  <2>. QED
    BY <2>1, <2>2 DEF u
<1>3. CASE params # {}
  <2>1. r = q \o <<u>>
    BY <1>3 DEF Update, With, Said
  <2>. HIDE DEF r, u
  <2>2. r \in Seq(Message) /\ Reached(have, r) = Applied(Reached(have, q), u)
    BY <1>1, <2>1, ReachedMore
  <2>3. /\ Len(r) = Len(q) + 1 /\ r[Len(q) + 1] = u /\ \A i \in 1..Len(q) : r[i] = q[i]
        /\ Len(q) \in Nat
    BY <1>1, <2>1
  <2>4. DOMAIN r = 1..Len(q) + 1 /\ DOMAIN q = 1..Len(q)
    BY <2>2, <2>3
  <2>5. \A i \in 1..Len(q) + 1 : i \in 1..Len(q) \/ i = Len(q) + 1
    BY <2>3
  <2>6. Warm(r, warm)
    BY <1>1, <2>3, <2>4, <2>5 DEF Warm
  <2>. QED
    BY <2>2, <2>6 DEF r, u
<1>. QED
  BY <1>2, <1>3

\* reconcile_instruments brings the queue of a stream, if there is one, from one
\* membership to the next.
LEMMA StreamQueued ==
  ASSUME NEW st, NEW q, NEW have \in SUBSET Symbols, NEW from \in SUBSET Symbols,
         NEW to \in SUBSET Symbols, NEW warm, to \subseteq warm,
         StreamOK(st, q, have, from, warm)
  PROVE  Queued(q, from, to) \in Queues /\ StreamOK(st, Queued(q, from, to), have, to, warm)
<1>. DEFINE r == Queued(q, from, to)
<1>1. have \subseteq warm
  BY DEF StreamOK
<1>2. CASE st = "down"
  <2>1. q = NoQueue
    BY <1>2 DEF StreamOK
  <2>2. r = NoQueue
    BY <2>1 DEF Queued
  <2>. QED
    BY <1>1, <1>2, <2>2 DEF StreamOK, Queues
<1>3. CASE st # "down"
  <2>1. q \in Seq(Message) /\ Warm(q, warm) /\ Reached(have, q) = from
    BY <1>3 DEF StreamOK
  <2>2. r \in Seq(Message) /\ Warm(r, warm) /\ Reached(have, r) = to
    <3>. DEFINE added == to \ from
                removed == from \ to
                m == With(q, "SUBSCRIBE", added)
                p == With(m, "UNSUBSCRIBE", removed)
                sub == Said("SUBSCRIBE", added)
                uns == Said("UNSUBSCRIBE", removed)
    <3>1. r = p
      BY <2>1, QueueIsNot DEF Queued, With
    <3>2. added \in SUBSET Symbols /\ removed \in SUBSET Symbols /\ added \subseteq warm
      OBVIOUS
    <3>3. Applied(Applied(from, sub), uns) = to
      BY DEF Applied, Said
    <3>. HIDE DEF added, removed
    <3>4. m \in Seq(Message) /\ Warm(m, warm) /\ Reached(have, m) = Applied(from, sub)
      <4>1. m \in Seq(Message) /\ Warm(m, warm)
        BY <2>1, <3>2, UpdateFacts
      <4>2. Reached(have, m) = Applied(Reached(have, q), sub)
        BY <2>1, <3>2, UpdateFacts
      <4>. QED
        BY <2>1, <4>1, <4>2
    <3>. HIDE DEF m, sub
    <3>5. p \in Seq(Message) /\ Warm(p, warm) /\ Reached(have, p) = Applied(Applied(from, sub), uns)
      <4>1. "UNSUBSCRIBE" = "SUBSCRIBE" => removed \subseteq warm
        OBVIOUS
      <4>2. p \in Seq(Message) /\ Warm(p, warm) /\ Reached(have, p) = Applied(Reached(have, m), uns)
        BY <3>2, <3>4, <4>1, UpdateFacts
      <4>. QED
        BY <3>4, <4>2
    <3>. QED
      BY <3>1, <3>3, <3>5
  <2>. HIDE DEF r
  <2>3. r \in Queues /\ StreamOK(st, r, have, to, warm)
    BY <1>1, <1>3, <2>2 DEF StreamOK, Queues
  <2>. QED
    BY <2>3 DEF r
<1>. QED
  BY <1>2, <1>3

-----------------------------------------------------------------------------
(* The pool                                                                *)

\* Newcomers fill the pool up to its capacity at most.
LEMMA AdmissionsFit ==
  ASSUME PoolInv, NEW ranked \in Rankings, NEW new \in Admissions(ranked)
  PROVE  /\ Retained(ranked) \subseteq Symbols /\ new \subseteq Symbols
         /\ new \cap Retained(ranked) = {} /\ new \subseteq ranked
         /\ Cardinality(Retained(ranked) \cup new) <= Capacity
<1>. DEFINE kept == Retained(ranked)
            fresh == ranked \ kept
            room == Capacity - Cardinality(kept)
            k == Min({Cardinality(fresh), room})
<1>1. /\ kept \in SUBSET Symbols /\ fresh \in SUBSET Symbols /\ kept \in SUBSET Pool
      /\ Pool \in SUBSET Symbols
  BY DEF Retained, Rankings, Pool
<1>2. new \in SUBSET fresh /\ Cardinality(new) = k
  BY DEF Admissions, kSubset
<1>3. new \subseteq Symbols /\ new \cap kept = {} /\ new \subseteq ranked
  BY <1>1, <1>2
<1>. HIDE DEF kept
<1>4. /\ IsFiniteSet(Pool) /\ IsFiniteSet(kept) /\ IsFiniteSet(fresh)
      /\ Cardinality(kept) <= Cardinality(Pool)
  BY <1>1, FS_Subset, Constants
<1>5. IsFiniteSet(new)
  BY <1>2, <1>4, FS_Subset
<1>6. /\ Cardinality(kept) \in Nat /\ Cardinality(fresh) \in Nat /\ Cardinality(new) \in Nat
      /\ Cardinality(Pool) \in Nat /\ Capacity \in Nat
  BY <1>4, <1>5, FS_CardinalityType, Constants
<1>7. Cardinality(new) <= room
  <2>. HIDE DEF fresh
  <2>. QED
    BY <1>2, <1>6, MinOfTwo
<1>8. Cardinality(kept \cup new) <= Cardinality(kept) + Cardinality(new)
  <2>1. Cardinality(kept \cup new)
          = Cardinality(kept) + Cardinality(new) - Cardinality(kept \cap new)
    BY <1>4, <1>5, FS_Union
  <2>2. Cardinality(kept \cap new) \in Nat
    <3>1. IsFiniteSet(kept \cap new)
      BY <1>4, FS_Intersection
    <3>. QED
      BY <3>1, FS_CardinalityType
  <2>. QED
    BY <1>6, <2>1, <2>2
<1>9. Cardinality(kept \cup new) \in Nat
  BY <1>4, <1>5, FS_Union, FS_CardinalityType
<1>10. Cardinality(kept \cup new) <= Capacity
  BY <1>6, <1>7, <1>8, <1>9
<1>. QED
  BY <1>1, <1>3, <1>10 DEF kept

LEMMA UpdatePoolKeeps ==
  ASSUME TypeInv, PoolInv, NEW ranked \in Rankings, NEW new \in Admissions(ranked),
         UpdatePool(ranked, new), now' = now
  PROVE  /\ PoolInv' /\ Pool' = Retained(ranked) \cup new
         /\ \A s \in Symbols : enteredAt[s] # 0 => enteredAt'[s] # 0
         /\ \A s \in Pool' : enteredAt'[s] # 0
<1>. DEFINE kept == Retained(ranked)
<1>1. /\ kept \subseteq Symbols /\ new \subseteq Symbols /\ new \cap kept = {}
      /\ new \subseteq ranked /\ Cardinality(kept \cup new) <= Capacity
  BY AdmissionsFit
<1>2. /\ admitted' = [s \in Symbols |-> IF s \in kept THEN admitted[s]
                                       ELSE IF s \in new THEN now ELSE 0]
      /\ enteredAt' = [s \in Symbols |-> IF s \in new THEN now ELSE enteredAt[s]]
  BY DEF UpdatePool
<1>3. /\ admitted \in [Symbols -> 0..MaxTime] /\ enteredAt \in [Symbols -> 0..MaxTime]
      /\ now \in 1..MaxTime /\ MaxTime \in Nat /\ Residency \in Nat \ {0}
  BY Constants DEF TypeInv, PoolInv
<1>4. \A s \in Symbols : s \in kept <=>
        admitted[s] # 0 /\ (admitted[s] > now - Residency \/ s \in ranked)
  BY DEF Retained
<1>. HIDE DEF kept
<1>5. /\ admitted' \in [Symbols -> 0..MaxTime] /\ enteredAt' \in [Symbols -> 0..MaxTime]
  BY <1>2, <1>3
<1>6. ASSUME NEW s \in Symbols
      PROVE  /\ admitted'[s] # 0 <=> s \in kept \cup new
             /\ admitted'[s] # 0 => admitted'[s] = enteredAt'[s]
             /\ admitted'[s] = 0 /\ enteredAt'[s] # 0 => now' - enteredAt'[s] >= Residency
             /\ enteredAt[s] # 0 => enteredAt'[s] # 0
  <2>1. /\ admitted'[s] = IF s \in kept THEN admitted[s] ELSE IF s \in new THEN now ELSE 0
        /\ enteredAt'[s] = IF s \in new THEN now ELSE enteredAt[s]
    BY <1>2
  <2>2. /\ admitted[s] \in 0..MaxTime /\ enteredAt[s] \in 0..MaxTime
        /\ admitted[s] # 0 => admitted[s] = enteredAt[s]
        /\ admitted[s] = 0 /\ enteredAt[s] # 0 => now - enteredAt[s] >= Residency
    BY <1>3 DEF PoolInv
  <2>3. CASE s \in kept
    BY <1>1, <1>4, <2>1, <2>2, <2>3
  <2>4. CASE s \in new
    BY <1>1, <1>3, <2>1, <2>4
  <2>5. CASE s \notin kept /\ s \notin new
    BY <1>3, <1>4, <2>1, <2>2, <2>5
  <2>. QED
    BY <2>3, <2>4, <2>5
<1>7. Pool' = kept \cup new
  BY <1>1, <1>6 DEF Pool
<1>8. PoolInv'
  BY <1>1, <1>5, <1>6, <1>7 DEF PoolInv
<1>9. \A s \in Pool' : enteredAt'[s] # 0
  <2>1. \A s \in Pool' : s \in Symbols /\ admitted'[s] # 0
    BY DEF Pool
  <2>. QED
    BY <1>6, <2>1
<1>. QED
  BY <1>6, <1>7, <1>8, <1>9 DEF kept

\* The pool as time passes.
LEMMA PoolKept ==
  ASSUME TypeInv, PoolInv, UNCHANGED <<admitted, enteredAt>>, now' \in Nat, now' >= now
  PROVE  PoolInv' /\ Pool' = Pool
<1>1. Pool' = Pool
  BY DEF Pool
<1>2. now \in Nat /\ Residency \in Nat
  BY Constants DEF TypeInv
<1>3. ASSUME NEW s \in Symbols, admitted[s] = 0, enteredAt[s] # 0
      PROVE  now' - enteredAt[s] >= Residency
  <2>1. enteredAt[s] \in Nat /\ now - enteredAt[s] >= Residency
    BY <1>3, Constants DEF PoolInv
  <2>. QED
    BY <1>2, <2>1
<1>. QED
  BY <1>1, <1>3 DEF PoolInv

-----------------------------------------------------------------------------
(* The steps                                                               *)

LEMMA InitHolds == Init => IInv
<1>. SUFFICES ASSUME Init
              PROVE  IInv
  OBVIOUS
<1>1. TypeInv
  <2>1. 0 \in 0..MaxTime + RetryMax /\ 1 \in 1..MaxTime /\ 0 \in 0..MaxTime
    BY Constants
  <2>2. 0 \in 0..MaxFailures /\ 0 \in 0..0 /\ "scanning" \in Phases
    BY Constants DEF Phases
  <2>3. /\ now = 1 /\ stop = FALSE /\ phase = "scanning" /\ emitted = 0 /\ refreshed = 0
        /\ started = 0 /\ failures = 0 /\ attempt = 0 /\ retryAt = 0
        /\ symbols = {} /\ target = {} /\ candidates = {}
    BY DEF Init
  <2>. QED
    BY <2>1, <2>2, <2>3 DEF TypeInv
<1>2. PoolInv
  <2>1. admitted = [s \in Symbols |-> 0] /\ enteredAt = [s \in Symbols |-> 0]
    BY DEF Init
  <2>2. Pool = {}
    BY <2>1 DEF Pool
  <2>3. Cardinality(Pool) <= Capacity
    BY <2>2, FS_EmptySet, Constants
  <2>. QED
    BY <2>1, <2>3, Constants DEF PoolInv
<1>3. RunInv
  BY DEF Init, RunInv
<1>4. MonitorInv
  BY DEF Init, MonitorInv
<1>5. StreamInv
  <2>1. NoQueue \in Queues /\ "down" \in Streams
    BY DEF Queues, Streams
  <2>2. /\ stream = [a \in Adapters |-> "down"] /\ updates = [a \in Adapters |-> NoQueue]
        /\ subscribed = [a \in Adapters |-> {}]
    BY DEF Init
  <2>. HIDE DEF NoQueue
  <2>. QED
    BY <2>1, <2>2 DEF StreamInv, StreamOK
<1>. QED
  BY <1>1, <1>2, <1>3, <1>4, <1>5 DEF IInv

\* What does not touch the monitor leaves its memberships alone.
LEMMA MonitorKept ==
  ASSUME IInv, UNCHANGED <<candidates, instruments, warmed, active, updates, stream, subscribed>>
  PROVE  MonitorInv' /\ StreamInv'
BY DEF IInv, MonitorInv, StreamInv, StreamOK, Reached, Warm

LEMMA SnapshotKeeps ==
  ASSUME IInv, NEW ranked \in Rankings, NEW new \in Admissions(ranked),
         SnapshotChangesNothing(ranked, new) \/ SnapshotReconciles(ranked, new)
  PROVE  IInv'
<1>. DEFINE pool == Retained(ranked) \cup new
<1>1. TypeInv /\ PoolInv /\ RunInv /\ MonitorInv
  BY DEF IInv
<1>2. /\ phase = "scanning" /\ emitted' = now /\ attempt' = 0 /\ UpdatePool(ranked, new)
      /\ now' = now
      /\ UNCHANGED <<stop, retryAt, symbols, refreshed, failures>>
      /\ UNCHANGED <<candidates, instruments, warmed, active, updates, stream, subscribed>>
  BY DEF SnapshotChangesNothing, SnapshotReconciles, Emits, supervisor, adapter
<1>3. /\ PoolInv' /\ Pool' = pool
      /\ \A s \in Symbols : enteredAt[s] # 0 => enteredAt'[s] # 0
  BY <1>1, <1>2, UpdatePoolKeeps
<1>4. pool \in SUBSET Symbols
  BY <1>1, AdmissionsFit
<1>. HIDE DEF pool
<1>5. candidates \subseteq Symbols /\ symbols = candidates
  BY <1>1, <1>2 DEF TypeInv, RunInv
<1>6. \A s \in candidates' : enteredAt'[s] # 0
  BY <1>1, <1>2, <1>3, <1>5 DEF RunInv
<1>7. CASE SnapshotChangesNothing(ranked, new)
  <2>1. UNCHANGED <<phase, target, started>>
    BY <1>7 DEF SnapshotChangesNothing
  <2>2. TypeInv'
    BY <1>1, <1>2, <2>1, Constants DEF TypeInv
  <2>3. RunInv'
    BY <1>2, <1>5, <1>6, <2>1 DEF RunInv
  <2>. QED
    BY <1>2, <1>3, <2>2, <2>3, MonitorKept DEF IInv
<1>8. CASE SnapshotReconciles(ranked, new)
  <2>1. phase' = "preparing" /\ target' = pool /\ started' = now /\ Due(pool)
    BY <1>8 DEF SnapshotReconciles, pool
  <2>2. TypeInv'
    BY <1>1, <1>2, <1>4, <2>1, Constants DEF TypeInv, Phases
  <2>3. candidates = {} \/ now - refreshed >= Refresh
    BY <1>5, <2>1 DEF Due
  <2>4. RunInv'
    BY <1>2, <1>3, <1>6, <2>1, <2>3 DEF RunInv
  <2>. QED
    BY <1>2, <1>3, <2>2, <2>4, MonitorKept DEF IInv
<1>. QED
  BY <1>7, <1>8

\* The runtime between two snapshots: the scanner fails and is started again, a
\* stop is requested and carried out.
LEMMA RuntimeKeeps ==
  ASSUME IInv, ScannerFails \/ ScannerRetries \/ RequestStop \/ Closed \/ PrepareFails
  PROVE  IInv'
<1>1. TypeInv /\ PoolInv /\ RunInv
  BY DEF IInv
<1>2. /\ UNCHANGED <<now, admitted, enteredAt, refreshed>>
      /\ UNCHANGED <<candidates, instruments, warmed, active, updates, stream, subscribed>>
  BY DEF ScannerFails, ScannerRetries, RequestStop, Closed, PrepareFails, supervisor,
     adapter
<1>3. PoolInv' /\ Pool' = Pool
  <2>1. now \in Nat /\ now' >= now
    BY <1>1, <1>2, Constants DEF TypeInv
  <2>. QED
    BY <1>1, <1>2, <2>1, PoolKept
<1>4. /\ failures \in 0..MaxFailures /\ attempt \in 0..failures /\ MaxFailures \in Nat
      /\ now \in 1..MaxTime /\ MaxTime \in Nat /\ RetryMax \in Nat
  BY <1>1, Constants DEF TypeInv
<1>5. 0 \in 0..MaxTime /\ 0 \in 0..MaxTime + RetryMax
  BY <1>4
<1>6. \A s \in candidates' : enteredAt'[s] # 0
  BY <1>1, <1>2 DEF RunInv
<1>7. CASE ScannerFails
  <2>1. /\ phase' = "waiting" /\ attempt' = attempt + 1 /\ failures' = failures + 1
        /\ failures < MaxFailures /\ retryAt' = now + RetryDelay(attempt + 1)
        /\ phase = "scanning" /\ UNCHANGED <<stop, emitted, symbols, target, started>>
    BY <1>7 DEF ScannerFails
  <2>2. failures' \in 0..MaxFailures /\ attempt' \in 0..failures'
    BY <1>4, <2>1
  <2>3. retryAt' \in 0..MaxTime + RetryMax
    <3>1. attempt + 1 \in Nat \ {0}
      BY <1>4
    <3>2. RetryDelay(attempt + 1) \in 0..RetryMax
      BY <3>1, RetryDelayType
    <3>. QED
      BY <1>4, <2>1, <3>2
  <2>4. TypeInv'
    BY <1>1, <1>2, <2>1, <2>2, <2>3 DEF TypeInv, Phases
  <2>5. RunInv'
    BY <1>1, <1>2, <1>6, <2>1 DEF RunInv
  <2>. QED
    BY <1>2, <1>3, <2>4, <2>5, MonitorKept DEF IInv
<1>8. CASE ScannerRetries
  <2>1. /\ phase' = "scanning" /\ emitted' = 0 /\ retryAt' = 0 /\ phase = "waiting"
        /\ UNCHANGED <<stop, attempt, symbols, target, started, failures>>
    BY <1>8 DEF ScannerRetries
  <2>2. TypeInv'
    BY <1>1, <1>2, <1>5, <2>1 DEF TypeInv, Phases
  <2>3. RunInv'
    BY <1>1, <1>2, <1>6, <2>1 DEF RunInv
  <2>. QED
    BY <1>2, <1>3, <2>2, <2>3, MonitorKept DEF IInv
<1>9. CASE RequestStop
  <2>1. /\ phase' = PhaseAfter(phase, TRUE) /\ emitted' = 0 /\ retryAt' = 0 /\ stop' = TRUE
        /\ UNCHANGED <<attempt, symbols, target, started, failures>>
    BY <1>9 DEF RequestStop
  <2>2. phase' \in Phases /\ (phase' = "preparing" <=> phase = "preparing")
    BY <1>1, <2>1 DEF PhaseAfter, TypeInv, Phases
  <2>3. TypeInv'
    BY <1>1, <1>2, <1>5, <2>1, <2>2 DEF TypeInv
  <2>4. RunInv'
    BY <1>1, <1>2, <1>3, <1>6, <2>1, <2>2 DEF RunInv
  <2>. QED
    BY <1>2, <1>3, <2>3, <2>4, MonitorKept DEF IInv
<1>10. CASE Closed
  <2>1. /\ phase' = "closed" /\ phase = "closing"
        /\ UNCHANGED <<stop, emitted, attempt, retryAt, symbols, target, started, failures>>
    BY <1>10 DEF Closed
  <2>2. TypeInv'
    BY <1>1, <1>2, <2>1 DEF TypeInv, Phases
  <2>3. RunInv'
    BY <1>1, <1>2, <1>6, <2>1 DEF RunInv
  <2>. QED
    BY <1>2, <1>3, <2>2, <2>3, MonitorKept DEF IInv
<1>11. CASE PrepareFails
  <2>1. /\ phase' = PhaseAfter("scanning", stop) /\ symbols' = candidates
        /\ failures' = failures + 1 /\ failures < MaxFailures /\ target' = {} /\ started' = 0
        /\ UNCHANGED <<stop, emitted, attempt, retryAt>>
    BY <1>11 DEF PrepareFails
  <2>2. phase' \in Phases /\ phase' # "preparing"
    BY <2>1 DEF PhaseAfter, Phases
  <2>3. failures' \in 0..MaxFailures /\ attempt' \in 0..failures'
    BY <1>4, <2>1
  <2>4. TypeInv'
    BY <1>1, <1>2, <1>5, <2>1, <2>2, <2>3 DEF TypeInv
  <2>5. RunInv'
    BY <1>2, <1>6, <2>1, <2>2 DEF RunInv
  <2>. QED
    BY <1>2, <1>3, <2>4, <2>5, MonitorKept DEF IInv
<1>. QED
  BY <1>7, <1>8, <1>9, <1>10, <1>11

LEMMA TickKeeps ==
  ASSUME IInv, Tick
  PROVE  IInv'
<1>1. /\ now < MaxTime /\ now' = now + 1
      /\ UNCHANGED <<admitted, enteredAt, stop, failures>>
      /\ UNCHANGED <<phase, emitted, attempt, retryAt, symbols, refreshed, target, started>>
      /\ UNCHANGED <<candidates, instruments, warmed, active, updates, stream, subscribed>>
  BY DEF Tick, runtime, supervisor, adapter
<1>2. TypeInv /\ PoolInv /\ RunInv
  BY DEF IInv
<1>3. now \in Nat /\ now' \in 1..MaxTime /\ now' \in Nat /\ now' >= now
  BY <1>1, <1>2, Constants DEF TypeInv
<1>4. PoolInv' /\ Pool' = Pool
  BY <1>1, <1>2, <1>3, PoolKept
<1>5. TypeInv'
  BY <1>1, <1>2, <1>3 DEF TypeInv
<1>6. RunInv'
  BY <1>1, <1>2, <1>4 DEF RunInv
<1>. QED
  BY <1>1, <1>4, <1>5, <1>6, MonitorKept DEF IInv

\* The new membership reaches the supervisor, every adapter and every queue.
LEMMA PrepareSucceedsKeeps ==
  ASSUME IInv, PrepareSucceeds
  PROVE  IInv'
<1>. DEFINE added == target \ candidates
            both == candidates \cup added
<1>1. /\ phase = "preparing" /\ Reconciled /\ symbols' = target /\ refreshed' = started
      /\ phase' = PhaseAfter("scanning", stop) /\ target' = {} /\ started' = 0
      /\ UNCHANGED <<now, admitted, stop, emitted, attempt, retryAt, failures>>
      /\ UNCHANGED <<stream, subscribed, enteredAt>>
  BY DEF PrepareSucceeds
<1>2. TypeInv /\ PoolInv /\ RunInv /\ MonitorInv /\ StreamInv
  BY DEF IInv
<1>3. /\ candidates \in SUBSET Symbols /\ target \in SUBSET Symbols /\ target = Pool
      /\ instruments = [a \in Adapters |-> candidates]
      /\ active = [a \in Adapters |-> candidates]
  BY <1>1, <1>2 DEF TypeInv, RunInv, MonitorInv
<1>4. /\ candidates' = target
      /\ warmed' = [a \in Adapters |-> warmed[a] \cup added]
      /\ instruments' = [a \in Adapters |-> target]
      /\ active' = instruments'
  <2>1. instruments' = [a \in Adapters |->
                          (instruments[a] \ (candidates \ target)) \cup (target \ candidates)]
    BY <1>1 DEF Reconciled
  <2>2. \A a \in Adapters :
          (instruments[a] \ (candidates \ target)) \cup (target \ candidates) = target
    BY <1>3
  <2>. QED
    BY <1>1, <2>1, <2>2 DEF Reconciled
<1>5. updates' = [a \in Adapters |->
                    Queued(Queued(updates[a], candidates, both), both, target)]
  <2>1. updates' = [a \in Adapters |->
           Queued(Queued(updates[a], active[a], instruments[a] \cup added),
                  instruments[a] \cup added, instruments'[a])]
    BY <1>1 DEF Reconciled
  <2>2. \A a \in Adapters : /\ active[a] = candidates /\ instruments'[a] = target
                            /\ instruments[a] \cup added = both
    BY <1>3, <1>4
  <2>. HIDE DEF added, both
  <2>. QED
    BY <2>1, <2>2
<1>6. ASSUME NEW a \in Adapters
      PROVE  /\ updates'[a] \in Queues
             /\ StreamOK(stream[a], updates'[a], subscribed[a], target, warmed'[a])
  <2>. DEFINE q == updates[a]
              m == Queued(q, candidates, both)
              r == Queued(m, both, target)
              have == subscribed[a]
              warm == warmed[a] \cup added
  <2>1. StreamOK(stream[a], q, have, candidates, warmed[a]) /\ have \in SUBSET Symbols
    BY <1>2 DEF StreamInv
  <2>2. updates'[a] = r /\ warmed'[a] = warm
    BY <1>4, <1>5
  <2>3. /\ both \in SUBSET Symbols /\ both \subseteq warm /\ target \subseteq warm
    BY <1>2, <1>3 DEF MonitorInv
  <2>4. StreamOK(stream[a], q, have, candidates, warm)
    <3>1. have \subseteq warm
      BY <2>1 DEF StreamOK
    <3>2. Warm(q, warmed[a]) => Warm(q, warm)
      BY DEF Warm
    <3>. QED
      BY <2>1, <3>1, <3>2 DEF StreamOK
  <2>. HIDE DEF q, have, warm, both
  <2>5. StreamOK(stream[a], m, have, both, warm)
    BY <1>3, <2>1, <2>3, <2>4, StreamQueued
  <2>. HIDE DEF m
  <2>6. r \in Queues /\ StreamOK(stream[a], r, have, target, warm)
    BY <1>3, <2>1, <2>3, <2>5, StreamQueued
  <2>. QED
    BY <2>2, <2>6 DEF have
<1>7. StreamInv'
  <2>1. updates' \in [Adapters -> Queues]
    BY <1>5, <1>6
  <2>2. \A a \in Adapters :
          StreamOK(stream'[a], updates'[a], subscribed'[a], candidates', warmed'[a])
    BY <1>1, <1>4, <1>6
  <2>3. stream' \in [Adapters -> Streams] /\ subscribed' \in [Adapters -> SUBSET Symbols]
    BY <1>1, <1>2 DEF StreamInv
  <2>. QED
    BY <2>1, <2>2, <2>3 DEF StreamInv, StreamOK, Warm, Reached
<1>8. MonitorInv'
  BY <1>2, <1>3, <1>4 DEF MonitorInv
<1>9. PoolInv' /\ Pool' = Pool
  <2>1. now \in Nat /\ now' >= now
    BY <1>1, <1>2, Constants DEF TypeInv
  <2>. QED
    BY <1>1, <1>2, <2>1, PoolKept
<1>10. phase' \in Phases /\ phase' # "preparing"
  BY <1>1 DEF PhaseAfter, Phases
<1>11. TypeInv'
  <2>1. 0 \in 0..MaxTime
    BY Constants
  <2>. QED
    BY <1>1, <1>2, <1>3, <1>4, <1>10, <2>1 DEF TypeInv
<1>12. RunInv'
  <2>1. \A s \in target : enteredAt[s] # 0
    BY <1>2, <1>3 DEF PoolInv, Pool
  <2>. QED
    BY <1>1, <1>4, <1>10, <2>1 DEF RunInv
<1>. QED
  BY <1>7, <1>8, <1>9, <1>11, <1>12 DEF IInv

\* One step of a connection: the invariant of that connection is enough.
LEMMA ConnectionKeeps ==
  ASSUME IInv, NEW a \in Adapters, NEW st \in Streams, NEW q \in Queues,
         NEW have \in SUBSET Symbols, StreamOK(st, q, have, candidates, warmed[a]),
         stream' = [stream EXCEPT ![a] = st], updates' = [updates EXCEPT ![a] = q],
         subscribed' = [subscribed EXCEPT ![a] = have],
         UNCHANGED <<now, admitted, stop, runtime, supervisor, active, enteredAt, failures>>
  PROVE  IInv'
<1>1. TypeInv /\ PoolInv /\ RunInv /\ MonitorInv /\ StreamInv
  BY DEF IInv
<1>2. /\ UNCHANGED <<now, admitted, stop, enteredAt, failures, active>>
      /\ UNCHANGED <<phase, emitted, attempt, retryAt, symbols, refreshed, target, started>>
      /\ UNCHANGED <<candidates, instruments, warmed>>
  BY DEF runtime, supervisor
<1>3. TypeInv' /\ MonitorInv'
  BY <1>1, <1>2 DEF TypeInv, MonitorInv
<1>4. PoolInv' /\ Pool' = Pool
  <2>1. now \in Nat /\ now' >= now
    BY <1>1, <1>2, Constants DEF TypeInv
  <2>. QED
    BY <1>1, <1>2, <2>1, PoolKept
<1>5. RunInv'
  BY <1>1, <1>2, <1>4 DEF RunInv
<1>6. /\ stream' \in [Adapters -> Streams] /\ updates' \in [Adapters -> Queues]
      /\ subscribed' \in [Adapters -> SUBSET Symbols]
  BY <1>1 DEF StreamInv
<1>7. ASSUME NEW b \in Adapters
      PROVE  StreamOK(stream'[b], updates'[b], subscribed'[b], candidates, warmed[b])
  <2>1. CASE b = a
    <3>1. stream'[b] = st /\ updates'[b] = q /\ subscribed'[b] = have
      BY <1>1, <2>1 DEF StreamInv
    <3>. QED
      BY <2>1, <3>1
  <2>2. CASE b # a
    <3>1. stream'[b] = stream[b] /\ updates'[b] = updates[b] /\ subscribed'[b] = subscribed[b]
      BY <1>1, <2>2 DEF StreamInv
    <3>2. StreamOK(stream[b], updates[b], subscribed[b], candidates, warmed[b])
      BY <1>1 DEF StreamInv
    <3>. QED
      BY <3>1, <3>2
  <2>. QED
    BY <2>1, <2>2
<1>8. StreamInv'
  BY <1>2, <1>6, <1>7 DEF StreamInv, StreamOK, Warm, Reached
<1>. QED
  BY <1>3, <1>4, <1>5, <1>8 DEF IInv

\* A stream starts with the membership of the moment and an empty queue, sends
\* its queue in order, and takes both with it when it ends.
LEMMA StreamKeeps ==
  ASSUME IInv, NEW a \in Adapters,
         \/ Connect(a) \/ Opened(a) \/ SendUpdate(a) \/ Drop(a) \/ CancelConsumer(a)
  PROVE  IInv'
<1>1. MonitorInv /\ StreamInv /\ candidates \in SUBSET Symbols
  BY DEF IInv, TypeInv
<1>2. /\ StreamOK(stream[a], updates[a], subscribed[a], candidates, warmed[a])
      /\ stream[a] \in Streams /\ updates[a] \in Queues /\ subscribed[a] \in SUBSET Symbols
      /\ active[a] = candidates /\ candidates \subseteq warmed[a]
  BY <1>1 DEF StreamInv, MonitorInv
<1>3. /\ stream = [stream EXCEPT ![a] = stream[a]]
      /\ updates = [updates EXCEPT ![a] = updates[a]]
      /\ subscribed = [subscribed EXCEPT ![a] = subscribed[a]]
  BY <1>1 DEF StreamInv
<1>4. "down" \in Streams /\ "connecting" \in Streams /\ "open" \in Streams
  BY DEF Streams
<1>5. UNCHANGED <<now, admitted, stop, runtime, supervisor, active, enteredAt, failures>>
  BY DEF Connect, Opened, SendUpdate, Drop, CancelConsumer
<1>6. CASE Connect(a)
  <2>1. /\ stream' = [stream EXCEPT ![a] = "connecting"]
        /\ updates' = [updates EXCEPT ![a] = <<>>]
        /\ subscribed' = [subscribed EXCEPT ![a] = candidates]
    BY <1>2, <1>6 DEF Connect
  <2>2. <<>> \in Queues /\ <<>> \in Seq(Message) /\ Warm(<<>>, warmed[a])
    BY DEF Queues, Warm
  <2>3. StreamOK("connecting", <<>>, candidates, candidates, warmed[a])
    BY <1>1, <1>2, <2>2, ReachedNothing DEF StreamOK
  <2>. QED
    BY <1>1, <1>4, <1>5, <2>1, <2>2, <2>3, ConnectionKeeps
<1>7. CASE Opened(a)
  <2>1. /\ stream' = [stream EXCEPT ![a] = "open"] /\ stream[a] = "connecting"
        /\ updates' = updates /\ subscribed' = subscribed
    BY <1>7 DEF Opened
  <2>2. StreamOK("open", updates[a], subscribed[a], candidates, warmed[a])
    BY <1>2, <2>1 DEF StreamOK
  <2>. QED
    BY <1>2, <1>3, <1>4, <1>5, <2>1, <2>2, ConnectionKeeps
<1>8. CASE SendUpdate(a)
  <2>. DEFINE q == updates[a]
              have == subscribed[a]
              got == Applied(have, Head(q))
  <2>1. /\ stream[a] = "open" /\ q # <<>> /\ stream' = stream
        /\ subscribed' = [subscribed EXCEPT ![a] = got]
        /\ updates' = [updates EXCEPT ![a] = Tail(q)]
    BY <1>8 DEF SendUpdate
  <2>2. q \in Seq(Message) /\ Warm(q, warmed[a]) /\ Reached(have, q) = candidates
    BY <1>2, <2>1 DEF StreamOK
  <2>3. have \in SUBSET Symbols /\ have \subseteq warmed[a]
    BY <1>2 DEF StreamOK
  <2>. HIDE DEF q, have
  <2>4. Tail(q) \in Seq(Message) /\ Reached(got, Tail(q)) = Reached(have, q)
    BY <2>1, <2>2, <2>3, ReachedHead
  <2>5. /\ Head(q) = q[1] /\ 1 \in DOMAIN q /\ Head(q) \in Message
        /\ \A i \in DOMAIN Tail(q) : i + 1 \in DOMAIN q /\ Tail(q)[i] = q[i + 1]
    BY <2>1, <2>2
  <2>6. Warm(Tail(q), warmed[a])
    BY <2>2, <2>5 DEF Warm
  <2>7. got \in SUBSET Symbols /\ got \subseteq warmed[a]
    <3>1. Head(q).params \in SUBSET Symbols
      BY <2>5 DEF Message
    <3>2. Head(q).method = "SUBSCRIBE" => Head(q).params \subseteq warmed[a]
      BY <2>2, <2>5 DEF Warm
    <3>. QED
      BY <2>3, <3>1, <3>2 DEF Applied
  <2>. HIDE DEF got
  <2>8. StreamOK(stream[a], Tail(q), got, candidates, warmed[a]) /\ Tail(q) \in Queues
    BY <2>1, <2>2, <2>4, <2>6, <2>7 DEF StreamOK, Queues
  <2>. QED
    BY <1>2, <1>3, <1>5, <2>1, <2>7, <2>8, ConnectionKeeps
<1>9. CASE Drop(a) \/ CancelConsumer(a)
  <2>1. /\ stream' = [stream EXCEPT ![a] = "down"]
        /\ updates' = [updates EXCEPT ![a] = NoQueue]
        /\ subscribed' = [subscribed EXCEPT ![a] = {}]
    BY <1>9 DEF Drop, CancelConsumer, Ends
  <2>2. NoQueue \in Queues /\ {} \in SUBSET Symbols
    BY DEF Queues
  <2>. HIDE DEF NoQueue
  <2>3. StreamOK("down", NoQueue, {}, candidates, warmed[a])
    BY DEF StreamOK
  <2>. QED
    BY <1>4, <1>5, <2>1, <2>2, <2>3, ConnectionKeeps
<1>. QED
  BY <1>6, <1>7, <1>8, <1>9

LEMMA NextHolds == IInv /\ [Next]_vars => IInv'
<1>. SUFFICES ASSUME IInv, [Next]_vars
              PROVE  IInv'
  OBVIOUS
<1>1. ASSUME NEW ranked \in Rankings, NEW new \in Admissions(ranked),
             SnapshotChangesNothing(ranked, new) \/ SnapshotReconciles(ranked, new)
      PROVE  IInv'
  BY <1>1, SnapshotKeeps
<1>2. CASE ScannerFails \/ ScannerRetries \/ RequestStop \/ Closed \/ PrepareFails
  BY <1>2, RuntimeKeeps
<1>3. CASE PrepareSucceeds
  BY <1>3, PrepareSucceedsKeeps
<1>4. CASE Tick
  BY <1>4, TickKeeps
<1>5. ASSUME NEW a \in Adapters,
             Connect(a) \/ Opened(a) \/ SendUpdate(a) \/ Drop(a) \/ CancelConsumer(a)
      PROVE  IInv'
  BY <1>5, StreamKeeps
<1>6. CASE UNCHANGED vars
  <2>1. /\ UNCHANGED <<now, admitted, enteredAt, stop, failures>>
        /\ UNCHANGED <<phase, emitted, attempt, retryAt, symbols, refreshed, target, started>>
        /\ UNCHANGED <<candidates, instruments, warmed, active, updates, stream, subscribed>>
    BY <1>6 DEF vars, runtime, supervisor, adapter
  <2>2. TypeInv /\ PoolInv /\ RunInv
    BY DEF IInv
  <2>3. now \in Nat /\ now' >= now
    BY <2>1, <2>2, Constants DEF TypeInv
  <2>4. PoolInv' /\ Pool' = Pool
    BY <2>1, <2>2, <2>3, PoolKept
  <2>5. TypeInv' /\ RunInv'
    BY <2>1, <2>2, <2>4 DEF TypeInv, RunInv
  <2>. QED
    BY <2>1, <2>4, <2>5, MonitorKept DEF IInv
<1>. QED
  BY <1>1, <1>2, <1>3, <1>4, <1>5, <1>6 DEF Next

LEMMA AlwaysIInv == Spec => []IInv
BY InitHolds, NextHolds, PTL DEF Spec

-----------------------------------------------------------------------------
(* The theorems                                                            *)

\* Runtime, supervisor, adapters and streams have one membership within the
\* pool's capacity; the updates a stream has not sent yet lead to it whenever the
\* connection opened or broke, and nothing is subscribed to before its history
\* is there (AltcoinCandidateRuntime, MarketDataSupervisor.reconcile, the dynamic
\* adapters' reconcile_instruments and _stream_endpoint).
THEOREM MembershipAgreesHolds == Spec => []MembershipAgrees
<1>1. IInv => MembershipAgrees
  <2>. SUFFICES ASSUME IInv
                PROVE  MembershipAgrees
    OBVIOUS
  <2>1. TypeInv /\ PoolInv /\ RunInv /\ MonitorInv /\ StreamInv
    BY DEF IInv
  <2>2. ASSUME NEW a \in Adapters
        PROVE  /\ updates[a] = NoQueue <=> stream[a] = "down"
               /\ stream[a] # "down" => Reached(subscribed[a], updates[a]) = active[a]
               /\ subscribed[a] \subseteq warmed[a]
               /\ updates[a] # NoQueue => Warm(updates[a], warmed[a])
               /\ instruments[a] = candidates /\ active[a] = candidates
    <3>1. StreamOK(stream[a], updates[a], subscribed[a], candidates, warmed[a])
      BY <2>1 DEF StreamInv
    <3>2. instruments[a] = candidates /\ active[a] = candidates
      BY <2>1 DEF MonitorInv
    <3>3. stream[a] # "down" => updates[a] # NoQueue
      BY <3>1, QueueIsNot DEF StreamOK
    <3>. QED
      BY <3>1, <3>2, <3>3 DEF StreamOK
  <2>3. TypeOK
    <3>1. attempt \in 0..MaxFailures
      BY <2>1, Constants DEF TypeInv
    <3>2. /\ candidates \in SUBSET Symbols /\ instruments \in [Adapters -> SUBSET Symbols]
          /\ active \in [Adapters -> SUBSET Symbols]
      BY <2>1 DEF TypeInv, MonitorInv
    <3>3. Cardinality({s \in Symbols : admitted[s] # 0}) <= Capacity
      BY <2>1 DEF PoolInv, Pool
    <3>. HIDE DEF NoQueue
    <3>. QED
      BY <2>1, <2>2, <3>1, <3>2, <3>3
         DEF TypeOK, TypeInv, PoolInv, MonitorInv, StreamInv
  <2>4. MonitorsAgree
    BY <2>1, <2>2 DEF MonitorsAgree, RunInv
  <2>5. UpdatesReachMembership
    BY <2>2 DEF UpdatesReachMembership
  <2>6. WarmedBeforeSubscribed
    BY <2>2 DEF WarmedBeforeSubscribed, Warm
  <2>. QED
    BY <2>3, <2>4, <2>5, <2>6 DEF MembershipAgrees
<1>. QED
  BY <1>1, AlwaysIInv, PTL

\* A candidate leaves the monitored membership no sooner than its residency in
\* the pool allows, and two changes of the membership were decided at least a
\* refresh interval apart (CandidatePool.update, _accept_snapshot).
THEOREM MembershipIsSteadyHolds == Spec => MembershipIsSteady
<1>. DEFINE Stays == \A s \in candidates \ candidates' : now - enteredAt[s] >= Residency
            Spaced == candidates # {} /\ candidates' # candidates
                        => refreshed' - refreshed >= Refresh
<1>1. IInv /\ [Next]_vars => [Stays]_vars /\ [Spaced]_vars
  <2>. SUFFICES ASSUME IInv, [Next]_vars
                PROVE  Stays /\ Spaced
    OBVIOUS
  <2>1. CASE PrepareSucceeds
    <3>1. /\ phase = "preparing" /\ candidates' = target /\ refreshed' = started
      BY <2>1 DEF PrepareSucceeds, Reconciled
    <3>2. /\ target = Pool /\ (candidates = {} \/ started - refreshed >= Refresh)
          /\ \A s \in candidates : enteredAt[s] # 0
      BY <3>1 DEF IInv, RunInv
    <3>3. ASSUME NEW s \in candidates \ candidates'
          PROVE  now - enteredAt[s] >= Residency
      <4>1. s \in Symbols /\ s \notin Pool
        BY <3>1, <3>2, <3>3 DEF IInv, TypeInv
      <4>2. admitted[s] = 0 /\ enteredAt[s] # 0
        BY <3>2, <3>3, <4>1 DEF Pool
      <4>. QED
        BY <4>1, <4>2 DEF IInv, PoolInv
    <3>. QED
      BY <3>1, <3>2, <3>3
  <2>2. CASE ~PrepareSucceeds
    <3>1. candidates' = candidates
      BY <2>2
         DEF Next, vars, supervisor, SnapshotChangesNothing, SnapshotReconciles,
         ScannerFails, ScannerRetries, PrepareFails, RequestStop, Closed, Tick, Connect,
         Opened, SendUpdate, Drop, CancelConsumer
    <3>. QED
      BY <3>1
  <2>. QED
    BY <2>1, <2>2
<1>2. Spec => [][Stays]_vars /\ [][Spaced]_vars
  BY <1>1, AlwaysIInv, PTL DEF Spec
<1>. QED
  BY <1>2 DEF MembershipIsSteady, ResidencyRespected, RefreshSpaced
=============================================================================
