------------------------- MODULE SignalEngineProofs -------------------------
(***************************************************************************)
(* Proofs about SignalEngine and its deduplicator, for any number of       *)
(* consumer tasks, strategies, venues, fingerprints and events and any     *)
(* policy.  That no decision is skipped is shown by counting: the loop     *)
(* over the strategies splits what an event calls for into what it records *)
(* and what a task still owes, and the tasks owe disjoint sets.            *)
(***************************************************************************)
EXTENDS SignalEngine, FiniteSetTheorems, WellFoundedInduction, TLAPS

Slack(k) == Timeout * k

Entry == [place : Places, todo : SUBSET Places, now : 1..MaxTime, started : Nat,
          event : Events]

\* An evaluation in progress: each strategy before it has cost one timeout at most.
InTime(r, time) ==
  /\ r.now <= r.started /\ r.started <= time /\ time <= r.started + Timeout
  /\ r.started <= r.now + Slack(r.place - 1)
  /\ \A k \in r.todo : k > r.place

EngineInv ==
  /\ clock \in Nat \ {0} /\ clock <= MaxTime + Slack(Len(Registry))
  /\ updated \in [Venues -> [Kinds -> Int]] /\ history \subseteq Venues
  /\ events \in 0..MaxEvents /\ audit \in [Outcomes -> Nat]
  /\ task \in [Tasks -> {NoTask} \cup Entry]
  /\ \A t \in Tasks : task[t] # NoTask => InTime(task[t], clock)

Emission == [key : Occurrence, now : Nat, at : Nat, expires_at : Int, rank : Nat]
CoolKey(x) == <<x.key[1], x.key[2]>>

\* The last occurrences that were recorded are the ones that are remembered, so
\* the rank of an emission says where it is in the memory.
RankInv(x) ==
  /\ x.rank \in 1..recorded
  /\ recorded - x.rank < Len(seen) => seen[Len(seen) - (recorded - x.rank)] = x.key

\* The cooldown of an emission is remembered until it is over.
CoolInv(x) ==
  /\ x.now <= clock
  /\ last[CoolKey(x)] >= x.now \/ clock - x.now >= Cooldown

LateInv(x) ==
  /\ x.at - x.key[3] <= MaxAge + Slack(Len(Registry))
  /\ x.expires_at # 0 => x.at < x.expires_at + Slack(Len(Registry))

MemoryInv ==
  /\ seen \in Seq(Occurrence) /\ Len(seen) <= HistorySize /\ IsInjective(seen)
  /\ recorded \in Nat /\ (Len(seen) = HistorySize \/ Len(seen) = recorded)
  /\ last \in [Strategies \X Fingerprints -> Int]
  /\ emitted \in Seq(Emission)

EmissionsInv ==
  /\ \A i \in 1..Len(emitted) :
       RankInv(emitted[i]) /\ CoolInv(emitted[i]) /\ LateInv(emitted[i])
  /\ OccurrenceOnce /\ CooldownSpaced

IInv == EngineInv /\ MemoryInv /\ EmissionsInv

-----------------------------------------------------------------------------
(* Arithmetic and sets                                                     *)

LEMMA SlackFacts ==
  /\ \A k \in Nat : Slack(k) \in Nat
  /\ \A j, k \in Nat : j < k => Slack(j) + Timeout <= Slack(k)
<1>1. Timeout \in Nat
  BY EngineAssumption
<1>2. \A k \in Nat : Slack(k) \in Nat
  BY <1>1 DEF Slack
<1>3. ASSUME NEW j \in Nat, NEW k \in Nat, j < k
      PROVE  Slack(j) + Timeout <= Slack(k)
  <2>. DEFINE d == k - (j + 1)
  <2>1. d \in Nat /\ k = j + 1 + d
    BY <1>3
  <2>. HIDE DEF d
  <2>2. Timeout * (j + 1 + d) = Timeout * j + Timeout + Timeout * d
    BY <1>1, <2>1
  <2>3. Timeout * d \in Nat /\ Timeout * j \in Nat
    BY <1>1, <2>1
  <2>. QED
    BY <1>1, <2>1, <2>2, <2>3 DEF Slack
<1>. QED
  BY <1>2, <1>3

\* The strategy to evaluate next is the first of those that are ready.
LEMMA MinOfPlaces ==
  ASSUME NEW S \in SUBSET Nat, S # {}
  PROVE  Min(S) \in S
<1>. DEFINE R == OpToRel(<, Nat)
<1>1. \E x \in S : \A y \in S : ~ (<<y, x>> \in R)
  <2>1. IsWellFoundedOn(R, Nat)
    BY NatLessThanWellFounded
  <2>. HIDE DEF R
  <2>. QED
    BY <2>1, WFMin
<1>2. \A x, y \in Nat : <<y, x>> \in R <=> y < x
  BY DEF OpToRel
<1>. HIDE DEF R
<1>3. PICK x \in S : \A y \in S : ~ (y < x)
  BY <1>1, <1>2
<1>4. \A y \in S : x <= y
  BY <1>3
<1>. QED
  BY <1>4 DEF Min

LEMMA PlacesFinite ==
  ASSUME NEW S \in SUBSET Places
  PROVE  Cardinality(S) \in Nat /\ S \subseteq Nat
<1>1. IsFiniteSet(Places)
  BY FS_Interval, EngineAssumption DEF Places
<1>2. IsFiniteSet(S)
  BY <1>1, FS_Subset
<1>. QED
  BY <1>2, FS_CardinalityType DEF Places

-----------------------------------------------------------------------------
(* The loop over the strategies                                            *)

LEMMA ContinuedFacts ==
  ASSUME NEW todo \in SUBSET Places, NEW e \in Events, NEW upd, NEW now \in 1..MaxTime,
         clock \in Nat
  PROVE  LET c == Continued(todo, e, upd, now) IN
         /\ c.skipped \in Nat
         /\ \/ c.entry = NoTask
            \/ /\ c.entry \in Entry /\ c.entry.place \in todo /\ c.entry.now = now
               /\ c.entry.started = clock /\ \A k \in c.entry.todo : k > c.entry.place
<1>. DEFINE ready == Ready(todo, e, upd, now)
            c == Continued(todo, e, upd, now)
<1>1. ready \subseteq todo
  BY DEF Ready
<1>2. CASE ready = {}
  <2>1. c = [entry |-> NoTask, skipped |-> Cardinality(todo)]
    BY <1>2 DEF Continued
  <2>. QED
    BY <2>1, PlacesFinite
<1>3. CASE ready # {}
  <2>. DEFINE k == Min(ready)
              r == [place |-> k, todo |-> {j \in todo : j > k}, now |-> now,
                    started |-> clock, event |-> e]
              before == {j \in todo : j < k}
  <2>1. k \in todo /\ k \in Places
    <3>1. ready \in SUBSET Nat
      BY <1>1, PlacesFinite
    <3>. HIDE DEF ready
    <3>2. k \in ready
      BY <1>3, <3>1, MinOfPlaces
    <3>. QED
      BY <1>1, <3>2
  <2>2. c = [entry |-> r, skipped |-> Cardinality(before)]
    BY <1>3 DEF Continued
  <2>. HIDE DEF k, ready, c
  <2>3. r \in Entry
    BY <2>1 DEF Entry
  <2>4. Cardinality(before) \in Nat
    BY PlacesFinite
  <2>5. r.place = k /\ r.now = now /\ r.started = clock /\ \A j \in r.todo : j > r.place
    OBVIOUS
  <2>. QED
    BY <2>1, <2>2, <2>3, <2>4, <2>5 DEF c
<1>. QED
  BY <1>2, <1>3

\* What is read of a task in an evaluation.
LEMMA BusyFacts ==
  ASSUME EngineInv, NEW t \in Tasks, ~Idle(t)
  PROVE  /\ task[t] # NoTask /\ task[t] \in Entry /\ InTime(task[t], clock)
         /\ task[t].place \in Places /\ task[t].place \in Nat \ {0}
         /\ task[t].todo \in SUBSET Places
         /\ task[t].now \in 1..MaxTime /\ task[t].now \in Nat /\ task[t].started \in Nat
         /\ task[t].event \in Events
         /\ task[t].now <= clock /\ clock <= task[t].now + Slack(task[t].place)
         /\ Slack(task[t].place) <= Slack(Len(Registry))
         /\ Registry[task[t].place] \in Strategies
<1>1. task[t] # NoTask
  BY DEF Idle, NoTask
<1>2. task[t] \in Entry /\ InTime(task[t], clock)
  BY <1>1 DEF EngineInv
<1>3. /\ task[t].place \in Places /\ task[t].todo \in SUBSET Places
      /\ task[t].now \in 1..MaxTime /\ task[t].started \in Nat /\ task[t].event \in Events
  BY <1>2 DEF Entry
<1>4. task[t].place \in Nat \ {0} /\ task[t].place <= Len(Registry) /\ Len(Registry) \in Nat
  BY <1>3, EngineAssumption DEF Places
<1>5. Slack(task[t].place) <= Slack(Len(Registry))
  <2>1. Slack(task[t].place) \in Nat /\ Slack(Len(Registry)) \in Nat /\ Timeout \in Nat
    BY <1>4, SlackFacts, EngineAssumption
  <2>2. CASE task[t].place = Len(Registry)
    BY <2>1, <2>2
  <2>3. CASE task[t].place < Len(Registry)
    <3>1. Slack(task[t].place) + Timeout <= Slack(Len(Registry))
      BY <1>4, <2>3, SlackFacts
    <3>. QED
      BY <2>1, <3>1
  <2>. QED
    BY <1>4, <2>2, <2>3
<1>6. Slack(task[t].place - 1) + Timeout <= Slack(task[t].place)
  <2>1. task[t].place - 1 \in Nat /\ task[t].place - 1 < task[t].place
    BY <1>4
  <2>. QED
    BY <1>4, <2>1, SlackFacts
<1>7. clock <= task[t].now + Slack(task[t].place) /\ task[t].now <= clock
  <2>1. clock \in Nat /\ Timeout \in Nat /\ task[t].place - 1 \in Nat
    BY <1>4, EngineAssumption DEF EngineInv
  <2>2. Slack(task[t].place - 1) \in Nat /\ Slack(task[t].place) \in Nat
    BY <1>4, <2>1, SlackFacts
  <2>. QED
    BY <1>2, <1>3, <1>6, <2>1, <2>2 DEF InTime
<1>8. Registry[task[t].place] \in Strategies
  BY <1>3 DEF Strategies
<1>. QED
  BY <1>1, <1>2, <1>3, <1>4, <1>5, <1>7, <1>8

\* The next strategy starts when the one at hand is decided.
LEMMA DecideKeeps ==
  ASSUME EngineInv, NEW t \in Tasks, ~Idle(t), NEW outcome \in Outcomes, Decide(t, outcome)
  PROVE  EngineInv' /\ clock' = clock
<1>. DEFINE r == task[t]
            c == Continued(r.todo, r.event, updated, r.now)
<1>1. /\ task' = [task EXCEPT ![t] = c.entry]
      /\ audit' = [o \in Outcomes |-> audit[o] + (IF o = outcome THEN 1 ELSE 0)
                                        + (IF o = "not_ready" THEN c.skipped ELSE 0)]
      /\ UNCHANGED <<clock, updated, history, due, abandoned, events>>
  BY DEF Decide
<1>2. /\ clock \in Nat \ {0} /\ audit \in [Outcomes -> Nat]
      /\ task \in [Tasks -> {NoTask} \cup Entry]
  BY DEF EngineInv
<1>3. /\ r.todo \in SUBSET Places /\ r.event \in Events /\ r.now \in 1..MaxTime
      /\ InTime(r, clock) /\ r.place \in Nat \ {0} /\ r.now <= clock
      /\ clock <= r.now + Slack(r.place)
  BY BusyFacts
<1>4. /\ c.skipped \in Nat
      /\ \/ c.entry = NoTask
         \/ /\ c.entry \in Entry /\ c.entry.place \in r.todo /\ c.entry.now = r.now
            /\ c.entry.started = clock /\ \A k \in c.entry.todo : k > c.entry.place
  BY <1>2, <1>3, ContinuedFacts
<1>. HIDE DEF c
<1>5. audit' \in [Outcomes -> Nat]
  BY <1>1, <1>2, <1>4
<1>6. task' \in [Tasks -> {NoTask} \cup Entry]
  BY <1>1, <1>2, <1>4
<1>7. ASSUME NEW u \in Tasks, task'[u] # NoTask
      PROVE  InTime(task'[u], clock')
  <2>1. CASE u # t
    <3>1. task'[u] = task[u]
      BY <1>1, <1>2, <2>1
    <3>. QED
      BY <1>1, <1>7, <3>1 DEF EngineInv, InTime
  <2>2. CASE u = t
    <3>1. task'[u] = c.entry
      BY <1>1, <1>2, <2>2
    <3>2. c.entry \in Entry
      BY <1>4, <1>7, <3>1
    <3>3. /\ c.entry.place \in r.todo /\ c.entry.now = r.now /\ c.entry.started = clock
          /\ \A k \in c.entry.todo : k > c.entry.place
      BY <1>4, <1>7, <3>1
    <3>4. c.entry.place > r.place /\ c.entry.place \in Nat
      BY <1>3, <3>3, PlacesFinite DEF InTime
    <3>5. Slack(r.place) <= Slack(c.entry.place - 1) /\ Slack(c.entry.place - 1) \in Nat
      <4>1. c.entry.place - 1 \in Nat /\ r.place <= c.entry.place - 1 /\ Timeout \in Nat
        BY <1>3, <3>4, EngineAssumption
      <4>2. Slack(r.place) \in Nat /\ Slack(c.entry.place - 1) \in Nat
        BY <1>3, <4>1, SlackFacts
      <4>3. CASE r.place = c.entry.place - 1
        BY <4>2, <4>3
      <4>4. CASE r.place < c.entry.place - 1
        <5>1. Slack(r.place) + Timeout <= Slack(c.entry.place - 1)
          BY <1>3, <4>1, <4>4, SlackFacts
        <5>. QED
          BY <4>1, <4>2, <5>1
      <4>. QED
        BY <1>3, <4>1, <4>2, <4>3, <4>4
    <3>6. /\ r.now <= clock /\ clock <= clock + Timeout
          /\ clock <= r.now + Slack(c.entry.place - 1)
      <4>1. Timeout \in Nat /\ r.now \in Nat /\ Slack(r.place) \in Nat
        <5>1. Timeout \in Nat /\ MaxTime \in Nat
          BY EngineAssumption
        <5>. QED
          BY <1>3, <5>1, SlackFacts
      <4>. QED
        BY <1>2, <1>3, <3>5, <4>1
    <3>7. InTime(c.entry, clock)
      BY <1>2, <3>3, <3>6 DEF InTime
    <3>. QED
      BY <1>1, <3>1, <3>7 DEF InTime
  <2>. QED
    BY <2>1, <2>2
<1>. QED
  BY <1>1, <1>5, <1>6, <1>7 DEF EngineInv

-----------------------------------------------------------------------------
(* The deduplicator                                                        *)

\* The new occurrence is the last one remembered, and the others move up.
LEMMA RememberedFacts ==
  ASSUME MemoryInv, NEW k \in Occurrence, ~Contains(seen, k)
  PROVE  LET n == Remembered(k) IN
         /\ n \in Seq(Occurrence) /\ Len(n) \in 1..HistorySize /\ IsInjective(n)
         /\ n[Len(n)] = k
         /\ Len(n) = HistorySize \/ Len(n) = recorded + 1
         /\ \A d \in 0..Len(n) - 2 : /\ d < Len(seen)
                                     /\ n[Len(n) - 1 - d] = seen[Len(seen) - d]
<1>. DEFINE all == Append(seen, k)
            over == IF Len(all) > HistorySize THEN Len(all) - HistorySize ELSE 0
            n == Remembered(k)
<1>1. /\ seen \in Seq(Occurrence) /\ Len(seen) <= HistorySize /\ IsInjective(seen)
      /\ Len(seen) = HistorySize \/ Len(seen) = recorded
      /\ HistorySize \in Nat \ {0} /\ Len(seen) \in Nat /\ recorded \in Nat
  BY EngineAssumption DEF MemoryInv
<1>2. /\ all \in Seq(Occurrence) /\ Len(all) = Len(seen) + 1 /\ all[Len(all)] = k
      /\ \A i \in 1..Len(seen) : all[i] = seen[i]
  BY <1>1
<1>3. \A i \in 1..Len(seen) : all[i] # k
  BY <1>2 DEF Contains
<1>4. \A i, j \in 1..Len(all) : all[i] = all[j] => i = j
  <2>1. \A i, j \in 1..Len(seen) : seen[i] = seen[j] => i = j
    BY <1>1 DEF IsInjective
  <2>. HIDE DEF all
  <2>. QED
    BY <1>1, <1>2, <1>3, <2>1
<1>. HIDE DEF all
<1>5. over \in {0, 1} /\ (over = 1 <=> Len(seen) = HistorySize)
  BY <1>1, <1>2
<1>6. n = SubSeq(all, 1 + over, Len(all))
  BY DEF Remembered, all
<1>. HIDE DEF over, n
<1>7. /\ n \in Seq(Occurrence) /\ Len(n) = Len(all) - over
      /\ \A i \in 1..Len(n) : n[i] = all[i + over]
  BY <1>1, <1>2, <1>5, <1>6
<1>8. Len(n) \in 1..HistorySize /\ (Len(n) = HistorySize \/ Len(n) = recorded + 1)
  BY <1>1, <1>2, <1>5, <1>7
<1>9. n[Len(n)] = k
  BY <1>1, <1>2, <1>5, <1>7, <1>8
<1>10. \A d \in 0..Len(n) - 2 : d < Len(seen) /\ n[Len(n) - 1 - d] = seen[Len(seen) - d]
  <2>. SUFFICES ASSUME NEW d \in 0..Len(n) - 2
                PROVE  d < Len(seen) /\ n[Len(n) - 1 - d] = seen[Len(seen) - d]
    OBVIOUS
  <2>1. /\ Len(n) - 1 - d \in 1..Len(n) /\ d < Len(seen) /\ Len(seen) - d \in 1..Len(seen)
        /\ Len(n) - 1 - d + over = Len(seen) - d
    BY <1>1, <1>2, <1>5, <1>7, <1>8
  <2>. QED
    BY <1>2, <1>7, <2>1
<1>11. IsInjective(n)
  <2>1. \A i, j \in 1..Len(n) : n[i] = n[j] => i = j
    <3>. SUFFICES ASSUME NEW i \in 1..Len(n), NEW j \in 1..Len(n), n[i] = n[j]
                  PROVE  i = j
      OBVIOUS
    <3>1. i + over \in 1..Len(all) /\ j + over \in 1..Len(all)
      BY <1>1, <1>2, <1>5, <1>7, <1>8
    <3>2. i + over = j + over
      BY <1>4, <1>7, <3>1
    <3>. QED
      BY <1>5, <3>2
  <2>2. DOMAIN n = 1..Len(n)
    BY <1>7
  <2>. QED
    BY <2>1, <2>2 DEF IsInjective
<1>. QED
  BY <1>7, <1>8, <1>9, <1>10, <1>11 DEF n

\* What was emitted keeps its place in the memory until it is forgotten.
LEMMA RanksKept ==
  ASSUME MemoryInv, NEW k \in Occurrence, ~Contains(seen, k),
         seen' = Remembered(k), recorded' = recorded + 1, NEW x \in Emission, RankInv(x)
  PROVE  /\ x.rank \in 1..recorded'
         /\ recorded' - x.rank < Len(seen') =>
              seen'[Len(seen') - (recorded' - x.rank)] = x.key
<1>. DEFINE n == Remembered(k)
            d == recorded - x.rank
<1>1. /\ n \in Seq(Occurrence) /\ Len(n) \in 1..HistorySize
      /\ \A c \in 0..Len(n) - 2 : /\ c < Len(seen)
                                  /\ n[Len(n) - 1 - c] = seen[Len(seen) - c]
  BY RememberedFacts
<1>. HIDE DEF n
<1>2. recorded \in Nat /\ x.rank \in 1..recorded /\ HistorySize \in Nat
  BY EngineAssumption DEF MemoryInv, RankInv
<1>3. ASSUME recorded + 1 - x.rank < Len(n)
      PROVE  n[Len(n) - (recorded + 1 - x.rank)] = x.key
  <2>1. d \in 0..Len(n) - 2 /\ Len(n) - (recorded + 1 - x.rank) = Len(n) - 1 - d
    BY <1>1, <1>2, <1>3
  <2>2. d < Len(seen) /\ n[Len(n) - 1 - d] = seen[Len(seen) - d]
    BY <1>1, <2>1
  <2>. QED
    BY <2>1, <2>2 DEF RankInv
<1>. QED
  BY <1>2, <1>3 DEF n

\* An occurrence that is not remembered has been pushed out by others.
LEMMA ForgottenFacts ==
  ASSUME MemoryInv, NEW x \in Emission, RankInv(x), ~Contains(seen, x.key)
  PROVE  recorded + 1 - x.rank > HistorySize
<1>1. /\ recorded \in Nat /\ Len(seen) \in Nat /\ x.rank \in 1..recorded
      /\ HistorySize \in Nat /\ (Len(seen) = HistorySize \/ Len(seen) = recorded)
  BY EngineAssumption DEF MemoryInv, RankInv
<1>2. ~(recorded - x.rank < Len(seen))
  <2>. SUFFICES ASSUME recorded - x.rank < Len(seen)
                PROVE  FALSE
    OBVIOUS
  <2>1. Len(seen) - (recorded - x.rank) \in 1..Len(seen)
    BY <1>1
  <2>2. seen[Len(seen) - (recorded - x.rank)] = x.key
    BY DEF RankInv
  <2>. QED
    BY <2>1, <2>2 DEF Contains
<1>. QED
  BY <1>1, <1>2

\* An entry is deleted, or found to be over, only when the cooldown of the
\* emission it stands for is over by the time of any task.
LEMMA UnexpiredFacts ==
  ASSUME EngineInv, MemoryInv, NEW now \in Nat, now <= clock,
         NEW x \in Emission, CoolInv(x)
  PROVE  /\ Unexpired(now) \in [Strategies \X Fingerprints -> Int]
         /\ Unexpired(now)[CoolKey(x)] >= x.now \/ clock - x.now >= Cooldown
         /\ ~Cooling(CoolKey(x), now) => clock - x.now >= Cooldown
<1>. DEFINE key == CoolKey(x)
            U == Unexpired(now)
<1>1. key \in Strategies \X Fingerprints /\ x.now \in Nat
  <2>1. x.key \in Strategies \X Fingerprints \X Int /\ x.now \in Nat
    BY DEF Emission, Occurrence
  <2>. QED
    BY <2>1 DEF CoolKey
<1>2. /\ last \in [Strategies \X Fingerprints -> Int] /\ clock \in Nat /\ Cooldown \in Nat
  BY EngineAssumption DEF MemoryInv, EngineInv
<1>3. U \in [Strategies \X Fingerprints -> Int]
  BY <1>2 DEF Unexpired
<1>4. U[key] = IF last[key] >= 0 /\ now - last[key] >= Cooldown THEN -1 ELSE last[key]
  BY <1>1, <1>2 DEF Unexpired
<1>5. last[key] \in Int /\ (last[key] >= x.now \/ clock - x.now >= Cooldown)
  BY <1>1, <1>2 DEF CoolInv
<1>6. Cooling(key, now) <=> U[key] >= 0 /\ now - U[key] < Cooldown
  BY DEF Cooling
<1>. HIDE DEF key, U
<1>7. U[key] >= x.now \/ clock - x.now >= Cooldown
  BY <1>1, <1>2, <1>4, <1>5
<1>8. ~Cooling(key, now) => clock - x.now >= Cooldown
  BY <1>1, <1>2, <1>4, <1>5, <1>6
<1>. QED
  BY <1>3, <1>7, <1>8 DEF key, U

-----------------------------------------------------------------------------
(* The steps                                                               *)

LEMMA InitHolds == Init => IInv
<1>. SUFFICES ASSUME Init
              PROVE  IInv
  OBVIOUS
<1>1. EngineInv
  <2>1. Len(Registry) \in Nat /\ MaxTime \in Nat \ {0} /\ MaxEvents \in Nat
    BY EngineAssumption
  <2>2. Slack(Len(Registry)) \in Nat
    BY <2>1, SlackFacts
  <2>3. clock = 1 /\ clock <= MaxTime + Slack(Len(Registry))
    BY <2>1, <2>2 DEF Init
  <2>4. updated \in [Venues -> [Kinds -> Int]] /\ history \subseteq Venues
    BY <2>3 DEF Init
  <2>5. events \in 0..MaxEvents /\ audit \in [Outcomes -> Nat]
    BY <2>1 DEF Init
  <2>6. task = [t \in Tasks |-> NoTask]
    BY DEF Init
  <2>. QED
    BY <2>3, <2>4, <2>5, <2>6 DEF EngineInv
<1>2. MemoryInv /\ emitted = <<>>
  <2>1. seen = <<>> /\ emitted = <<>> /\ recorded = 0
    BY DEF Init
  <2>2. last \in [Strategies \X Fingerprints -> Int]
    BY DEF Init
  <2>3. IsInjective(seen)
    BY <2>1 DEF IsInjective
  <2>. QED
    BY <2>1, <2>2, <2>3, EngineAssumption DEF MemoryInv
<1>3. EmissionsInv
  BY <1>2 DEF EmissionsInv, OccurrenceOnce, CooldownSpaced
<1>. QED
  BY <1>1, <1>2, <1>3 DEF IInv

\* Nothing about the deduplicator changes: what was emitted stays as it was, and
\* time only makes cooldowns end.
LEMMA MemoryKept ==
  ASSUME IInv, UNCHANGED <<seen, last, emitted, recorded>>, clock' \in Nat, clock' >= clock
  PROVE  MemoryInv' /\ EmissionsInv'
<1>1. MemoryInv /\ EmissionsInv
  BY DEF IInv
<1>2. MemoryInv'
  BY <1>1 DEF MemoryInv
<1>3. OccurrenceOnce' /\ CooldownSpaced'
  BY <1>1 DEF EmissionsInv, OccurrenceOnce, CooldownSpaced
<1>4. ASSUME NEW i \in 1..Len(emitted)
      PROVE  (RankInv(emitted[i]) /\ CoolInv(emitted[i]) /\ LateInv(emitted[i]))'
  <2>1. RankInv(emitted[i]) /\ CoolInv(emitted[i]) /\ LateInv(emitted[i])
    BY <1>1 DEF EmissionsInv
  <2>2. emitted[i] \in Emission
    BY <1>1 DEF MemoryInv
  <2>6. emitted[i].now \in Nat
    BY <2>2 DEF Emission
  <2>3. clock \in Nat /\ Cooldown \in Nat
    BY EngineAssumption DEF IInv, EngineInv
  <2>4. RankInv(emitted[i])' /\ LateInv(emitted[i])'
    BY <2>1 DEF RankInv, LateInv
  <2>5. CoolInv(emitted[i])'
    BY <2>1, <2>3, <2>6 DEF CoolInv, CoolKey
  <2>. QED
    BY <2>4, <2>5
<1>. QED
  BY <1>2, <1>3, <1>4 DEF EmissionsInv

LEMMA ReceiveKeeps ==
  ASSUME IInv, NEW t \in Tasks, NEW e \in Events, Receive(t, e)
  PROVE  IInv'
<1>. DEFINE c == Continued(Triggered(e), e, updated', clock)
<1>1. /\ events < MaxEvents /\ clock <= MaxTime /\ events' = events + 1
      /\ updated' = [updated EXCEPT ![e.venue][e.kind] = clock]
      /\ task' = [task EXCEPT ![t] = c.entry]
      /\ audit' = [audit EXCEPT !["not_ready"] = @ + c.skipped]
      /\ UNCHANGED <<clock, history, seen, last, emitted, recorded>>
  BY DEF Receive
<1>2. /\ clock \in Nat \ {0} /\ audit \in [Outcomes -> Nat] /\ EngineInv
      /\ task \in [Tasks -> {NoTask} \cup Entry]
      /\ updated \in [Venues -> [Kinds -> Int]] /\ events \in 0..MaxEvents
  BY DEF IInv, EngineInv
<1>3. clock \in 1..MaxTime /\ MaxTime \in Nat /\ MaxEvents \in Nat /\ Timeout \in Nat
  BY <1>1, <1>2, EngineAssumption
<1>4. Triggered(e) \in SUBSET Places
  BY DEF Triggered
<1>5. /\ c.skipped \in Nat
      /\ \/ c.entry = NoTask
         \/ /\ c.entry \in Entry /\ c.entry.place \in Triggered(e) /\ c.entry.now = clock
            /\ c.entry.started = clock /\ \A k \in c.entry.todo : k > c.entry.place
  BY <1>2, <1>3, <1>4, ContinuedFacts
<1>. HIDE DEF c
<1>6. audit' \in [Outcomes -> Nat]
  <2>1. "not_ready" \in Outcomes
    BY DEF Outcomes
  <2>2. audit["not_ready"] + c.skipped \in Nat
    BY <1>2, <1>5, <2>1
  <2>. QED
    BY <1>1, <1>2, <2>2
<1>7. task' \in [Tasks -> {NoTask} \cup Entry]
  BY <1>1, <1>2, <1>5
<1>8. updated' \in [Venues -> [Kinds -> Int]] /\ events' \in 0..MaxEvents
  <2>1. clock \in Int
    BY <1>2
  <2>2. updated' = [updated EXCEPT ![e.venue] = [updated[e.venue] EXCEPT ![e.kind] = clock]]
    BY <1>1
  <2>3. ASSUME e.venue \in Venues
        PROVE  [updated[e.venue] EXCEPT ![e.kind] = clock] \in [Kinds -> Int]
    BY <1>2, <2>1, <2>3
  <2>4. updated' \in [Venues -> [Kinds -> Int]]
    BY <1>2, <2>2, <2>3
  <2>. QED
    BY <1>1, <1>2, <1>3, <2>4
<1>9. ASSUME NEW u \in Tasks, task'[u] # NoTask
      PROVE  InTime(task'[u], clock')
  <2>1. CASE u # t
    <3>1. task'[u] = task[u]
      BY <1>1, <1>2, <2>1
    <3>. QED
      BY <1>1, <1>2, <1>9, <3>1 DEF EngineInv, InTime
  <2>2. CASE u = t
    <3>1. task'[u] = c.entry
      BY <1>1, <1>2, <2>2
    <3>2. /\ c.entry.place \in Places /\ c.entry.now = clock /\ c.entry.started = clock
          /\ \A k \in c.entry.todo : k > c.entry.place
      BY <1>4, <1>5, <1>9, <3>1
    <3>3. c.entry.place - 1 \in Nat
      BY <3>2, EngineAssumption DEF Places
    <3>4. Slack(c.entry.place - 1) \in Nat
      BY <3>3, SlackFacts
    <3>5. InTime(c.entry, clock)
      BY <1>2, <1>3, <3>2, <3>4 DEF InTime
    <3>. QED
      BY <1>1, <3>1, <3>5 DEF InTime
  <2>. QED
    BY <2>1, <2>2
<1>10. EngineInv'
  BY <1>1, <1>2, <1>6, <1>7, <1>8, <1>9 DEF EngineInv
<1>11. MemoryInv' /\ EmissionsInv'
  BY <1>1, <1>2, MemoryKept
<1>. QED
  BY <1>10, <1>11 DEF IInv

LEMMA HistoryKeeps ==
  ASSUME IInv, NEW v \in Venues, HistoryChanges(v)
  PROVE  IInv'
<1>1. /\ events < MaxEvents /\ events' = events + 1
      /\ history' = IF v \in history THEN history \ {v} ELSE history \cup {v}
      /\ UNCHANGED <<clock, updated, task, seen, last, audit, emitted, recorded>>
  BY DEF HistoryChanges
<1>2. EngineInv /\ MaxEvents \in Nat /\ clock \in Nat
  BY EngineAssumption DEF IInv, EngineInv
<1>3. events' \in 0..MaxEvents /\ history' \subseteq Venues
  BY <1>1, <1>2 DEF EngineInv
<1>4. EngineInv'
  BY <1>1, <1>2, <1>3 DEF EngineInv, InTime
<1>5. MemoryInv' /\ EmissionsInv'
  BY <1>1, <1>2, MemoryKept
<1>. QED
  BY <1>4, <1>5 DEF IInv

\* Time does not pass the end of an evaluation in progress, and without one it
\* stays within its bound.
LEMMA TickKeeps ==
  ASSUME IInv, Tick
  PROVE  IInv'
<1>1. /\ clock < MaxTime \/ \E t \in Tasks : ~Idle(t)
      /\ \A t \in Tasks : ~Idle(t) => clock < task[t].started + Timeout
      /\ clock' = clock + 1
      /\ UNCHANGED <<updated, history, task, seen, last, audit, emitted, recorded, events>>
  BY DEF Tick
<1>2. EngineInv /\ clock \in Nat \ {0} /\ Timeout \in Nat /\ MaxTime \in Nat
  BY EngineAssumption DEF IInv, EngineInv
<1>3. Slack(Len(Registry)) \in Nat
  BY SlackFacts, EngineAssumption
<1>4. ASSUME NEW t \in Tasks, ~Idle(t)
      PROVE  /\ InTime(task[t], clock + 1)
             /\ clock + 1 <= MaxTime + Slack(Len(Registry))
  <2>1. /\ InTime(task[t], clock) /\ task[t].place \in Nat \ {0}
        /\ task[t].now \in 1..MaxTime /\ task[t].started \in Nat
        /\ Slack(task[t].place) <= Slack(Len(Registry))
    BY <1>2, <1>4, BusyFacts
  <2>2. clock < task[t].started + Timeout
    BY <1>1, <1>4
  <2>3. InTime(task[t], clock + 1)
    BY <1>2, <2>1, <2>2 DEF InTime
  <2>4. task[t].place - 1 \in Nat /\ Slack(task[t].place - 1) + Timeout <= Slack(task[t].place)
    <3>1. task[t].place - 1 \in Nat /\ task[t].place - 1 < task[t].place
      BY <2>1
    <3>. QED
      BY <2>1, <3>1, SlackFacts
  <2>5. Slack(task[t].place - 1) \in Nat /\ Slack(task[t].place) \in Nat
    BY <2>1, <2>4, SlackFacts
  <2>6. task[t].started <= task[t].now + Slack(task[t].place - 1)
    BY <2>1 DEF InTime
  <2>7. clock + 1 <= MaxTime + Slack(Len(Registry))
    <3>. DEFINE before == Slack(task[t].place - 1)
                upTo == Slack(task[t].place)
                all == Slack(Len(Registry))
                begun == task[t].started
    <3>1. /\ before \in Nat /\ upTo \in Nat /\ all \in Nat /\ begun \in Nat
          /\ before + Timeout <= upTo /\ upTo <= all
      BY <1>3, <2>1, <2>4, <2>5
    <3>2. begun <= MaxTime + before
      BY <1>2, <2>1, <2>5, <2>6
    <3>3. clock < begun + Timeout
      BY <2>2
    <3>. HIDE DEF before, upTo, all, begun
    <3>4. clock + 1 <= MaxTime + all
      BY <1>2, <3>1, <3>2, <3>3
    <3>. QED
      BY <3>4 DEF all
  <2>. QED
    BY <2>3, <2>7
<1>5. clock + 1 <= MaxTime + Slack(Len(Registry))
  BY <1>1, <1>2, <1>3, <1>4
<1>6. ASSUME NEW t \in Tasks, task[t] # NoTask
      PROVE  InTime(task[t], clock + 1)
  <2>1. ~Idle(t)
    <3>1. task[t] \in Entry
      BY <1>2, <1>6 DEF EngineInv
    <3>2. task[t].place \in Places
      BY <3>1 DEF Entry
    <3>. QED
      BY <3>2, EngineAssumption DEF Places, Idle
  <2>. QED
    BY <1>4, <2>1
<1>7. EngineInv'
  BY <1>1, <1>2, <1>5, <1>6 DEF EngineInv, InTime
<1>8. MemoryInv' /\ EmissionsInv'
  BY <1>1, <1>2, MemoryKept
<1>. QED
  BY <1>7, <1>8 DEF IInv

\* A strategy that returns nothing worth emitting leaves the deduplicator alone.
LEMMA NothingEmittedKeeps ==
  ASSUME IInv, NEW t \in Tasks, ~Idle(t), NEW outcome \in Outcomes, Decide(t, outcome),
         UNCHANGED <<seen, last, emitted, recorded>>
  PROVE  IInv'
<1>1. EngineInv' /\ clock' = clock /\ clock \in Nat
  BY DecideKeeps DEF IInv, EngineInv
<1>2. MemoryInv' /\ EmissionsInv'
  BY <1>1, MemoryKept
<1>. QED
  BY <1>1, <1>2 DEF IInv

\* A cancelled task leaves its loop; nothing else changes that is not counted.
LEMMA CancelKeeps ==
  ASSUME IInv, NEW t \in Tasks, EvaluationCancelled(t)
  PROVE  IInv'
<1>1. /\ task' = [task EXCEPT ![t] = NoTask]
      /\ UNCHANGED <<clock, updated, history, audit, events>>
      /\ UNCHANGED <<seen, last, emitted, recorded>>
  BY DEF EvaluationCancelled
<1>2. EngineInv /\ clock \in Nat
  BY DEF IInv, EngineInv
<1>3. /\ task' \in [Tasks -> {NoTask} \cup Entry]
      /\ \A u \in Tasks : task'[u] # NoTask => task'[u] = task[u]
  BY <1>1, <1>2 DEF EngineInv
<1>4. EngineInv'
  BY <1>1, <1>2, <1>3 DEF EngineInv, InTime
<1>5. MemoryInv' /\ EmissionsInv'
  BY <1>1, <1>2, MemoryKept
<1>. QED
  BY <1>4, <1>5 DEF IInv

\* What the invariant says of an emission, and of a new occurrence.
LEMMA EmissionFacts ==
  ASSUME IInv, NEW i \in 1..Len(emitted)
  PROVE  /\ emitted[i] \in Emission /\ emitted[i].now \in Nat /\ emitted[i].rank \in Nat
         /\ RankInv(emitted[i]) /\ CoolInv(emitted[i]) /\ LateInv(emitted[i])
<1>1. MemoryInv /\ EmissionsInv
  BY DEF IInv
<1>2. emitted[i] \in Emission
  BY <1>1 DEF MemoryInv
<1>3. emitted[i].now \in Nat /\ emitted[i].rank \in Nat
  BY <1>2 DEF Emission
<1>. QED
  BY <1>1, <1>2, <1>3 DEF EmissionsInv

LEMMA CandidateFacts ==
  ASSUME IInv, NEW t \in Tasks, ~Idle(t), NEW c \in Candidates(task[t].now)
  PROVE  LET s == Registry[task[t].place] IN
         /\ OccurrenceKey(s, c) \in Occurrence
         /\ <<s, c.fingerprint>> \in Strategies \X Fingerprints
         /\ c.occurred_at \in Int /\ c.expires_at \in Int
<1>1. Registry[task[t].place] \in Strategies /\ task[t].now \in Nat
  BY BusyFacts DEF IInv
<1>2. FutureSkew \in Nat /\ Ttl \in Nat
  BY EngineAssumption
<1>. DEFINE m == task[t].now
<1>3. c \in [fingerprint : Fingerprints, occurred_at : 0..m + FutureSkew + 1,
             expires_at : {0} \cup Ttl..m + FutureSkew + 1 + Ttl, alien : BOOLEAN]
  BY DEF Candidates
<1>. HIDE DEF m
<1>4. c.fingerprint \in Fingerprints /\ c.occurred_at \in Int /\ c.expires_at \in Int
  BY <1>2, <1>3
<1>. QED
  BY <1>1, <1>4 DEF OccurrenceKey, Occurrence

\* The occurrence is remembered and the cooldown of another one holds.
LEMMA SuppressedKeeps ==
  ASSUME IInv, NEW t \in Tasks, NEW c \in Candidates(task[t].now), CandidateSuppressed(t, c)
  PROVE  IInv'
<1>. DEFINE s == Registry[task[t].place]
            k == OccurrenceKey(s, c)
            now == task[t].now
<1>1. /\ ~Idle(t) /\ Decide(t, "suppressed") /\ UNCHANGED emitted
      /\ \/ UNCHANGED <<seen, last, recorded>>
         \/ /\ ~Contains(seen, k) /\ seen' = Remembered(k) /\ recorded' = recorded + 1
            /\ last' = Unexpired(now)
  BY DEF CandidateSuppressed
<1>2. "suppressed" \in Outcomes
  BY DEF Outcomes
<1>3. EngineInv /\ MemoryInv /\ EmissionsInv
  BY DEF IInv
<1>4. CASE UNCHANGED <<seen, last, recorded>>
  BY <1>1, <1>2, <1>4, NothingEmittedKeeps
<1>5. CASE ~Contains(seen, k) /\ seen' = Remembered(k) /\ recorded' = recorded + 1
             /\ last' = Unexpired(now)
  <2>1. EngineInv' /\ clock' = clock
    BY <1>1, <1>2, <1>3, DecideKeeps
  <2>2. k \in Occurrence
    BY <1>1, CandidateFacts
  <2>3. now \in Nat /\ now <= clock
    BY <1>1, <1>3, BusyFacts
  <2>. HIDE DEF k, now
  <2>4. last' \in [Strategies \X Fingerprints -> Int]
    BY <1>3, <1>5, <2>3, EngineAssumption DEF MemoryInv, EngineInv, Unexpired
  <2>5. MemoryInv'
    <3>1. /\ seen' \in Seq(Occurrence) /\ Len(seen') \in 1..HistorySize /\ IsInjective(seen')
          /\ Len(seen') = HistorySize \/ Len(seen') = recorded + 1
      BY <1>3, <1>5, <2>2, RememberedFacts
    <3>2. HistorySize \in Nat /\ recorded \in Nat
      BY <1>3, EngineAssumption DEF MemoryInv
    <3>3. IsInjective(seen)'
      BY <3>1 DEF IsInjective
    <3>. QED
      BY <1>1, <1>3, <1>5, <2>4, <3>1, <3>2, <3>3 DEF MemoryInv
  <2>6. OccurrenceOnce' /\ CooldownSpaced'
    BY <1>1, <1>3 DEF EmissionsInv, OccurrenceOnce, CooldownSpaced
  <2>7. ASSUME NEW i \in 1..Len(emitted)
        PROVE  (RankInv(emitted[i]) /\ CoolInv(emitted[i]) /\ LateInv(emitted[i]))'
    <3>. DEFINE x == emitted[i]
    <3>1. x \in Emission /\ RankInv(x) /\ CoolInv(x) /\ LateInv(x)
      BY EmissionFacts
    <3>2. emitted'[i] = x
      BY <1>1
    <3>. HIDE DEF x
    <3>3. /\ x.rank \in 1..recorded'
          /\ recorded' - x.rank < Len(seen') =>
               seen'[Len(seen') - (recorded' - x.rank)] = x.key
      BY <1>3, <1>5, <2>2, <3>1, RanksKept
    <3>4. Unexpired(now)[CoolKey(x)] >= x.now \/ clock - x.now >= Cooldown
      BY <1>3, <2>3, <3>1, UnexpiredFacts
    <3>5. RankInv(emitted[i])'
      BY <3>2, <3>3 DEF RankInv
    <3>6. CoolInv(emitted[i])'
      BY <1>5, <2>1, <3>1, <3>2, <3>4 DEF CoolInv, CoolKey
    <3>7. LateInv(emitted[i])'
      BY <3>1, <3>2 DEF LateInv
    <3>. QED
      BY <3>5, <3>6, <3>7
  <2>8. EmissionsInv'
    BY <1>1, <2>6, <2>7 DEF EmissionsInv
  <2>. QED
    BY <2>1, <2>5, <2>8 DEF IInv
<1>. QED
  BY <1>1, <1>4, <1>5

\* The emission is recorded as the latest occurrence; the ones before it were
\* forgotten if they are of the same occurrence, and are over a cooldown old if
\* they are of the same fingerprint.
LEMMA EmittedKeeps ==
  ASSUME IInv, NEW t \in Tasks, NEW c \in Candidates(task[t].now), CandidateEmitted(t, c)
  PROVE  IInv'
<1>. DEFINE s == Registry[task[t].place]
            k == OccurrenceKey(s, c)
            now == task[t].now
            key == <<s, c.fingerprint>>
            e == [key |-> k, now |-> now, at |-> clock, expires_at |-> c.expires_at,
                  rank |-> recorded + 1]
            n == Len(emitted)
<1>1. /\ ~Idle(t) /\ Valid(c, now) /\ ~Contains(seen, k)
      /\ Cooldown > 0 => ~Cooling(key, now)
      /\ seen' = Remembered(k) /\ recorded' = recorded + 1
      /\ last' = IF Cooldown = 0 THEN last ELSE [Unexpired(now) EXCEPT ![key] = now]
      /\ emitted' = Append(emitted, e) /\ Decide(t, "emitted")
  BY DEF CandidateEmitted
<1>2. EngineInv /\ MemoryInv /\ EmissionsInv
  BY DEF IInv
<1>3. EngineInv' /\ clock' = clock
  <2>1. "emitted" \in Outcomes
    BY DEF Outcomes
  <2>. QED
    BY <1>1, <1>2, <2>1, DecideKeeps
<1>4. /\ k \in Occurrence /\ key \in Strategies \X Fingerprints
      /\ c.occurred_at \in Int /\ c.expires_at \in Int
  BY <1>1, CandidateFacts
<1>5. now \in Nat /\ now <= clock /\ clock <= now + Slack(Len(Registry))
  <2>1. /\ now \in Nat /\ now <= clock /\ clock <= now + Slack(task[t].place)
        /\ Slack(task[t].place) <= Slack(Len(Registry)) /\ task[t].place \in Nat
    BY <1>1, <1>2, BusyFacts
  <2>2. clock \in Nat /\ Slack(task[t].place) \in Nat /\ Slack(Len(Registry)) \in Nat
    BY <1>2, <2>1, SlackFacts, EngineAssumption DEF EngineInv
  <2>. HIDE DEF now
  <2>. QED
    BY <2>1, <2>2
<1>6. /\ recorded \in Nat /\ Cooldown \in Nat /\ clock \in Nat /\ MaxAge \in Nat
      /\ Slack(Len(Registry)) \in Nat /\ HistorySize \in Nat
  BY <1>2, SlackFacts, EngineAssumption DEF MemoryInv, EngineInv
<1>7. k[3] = c.occurred_at /\ k[1] = key[1] /\ k[2] = key[2]
  BY DEF OccurrenceKey
<1>8. now - c.occurred_at <= MaxAge /\ (c.expires_at # 0 => c.expires_at > now)
  BY <1>1 DEF Valid
<1>. HIDE DEF s, k, now, key
<1>9. e \in Emission
  BY <1>4, <1>5, <1>6 DEF Emission
<1>10. /\ e.key = k /\ e.now = now /\ e.at = clock /\ e.expires_at = c.expires_at
       /\ e.rank = recorded + 1
  OBVIOUS
<1>. HIDE DEF e
<1>11. emitted \in Seq(Emission) /\ n \in Nat
  BY <1>2 DEF MemoryInv
<1>12. /\ emitted' \in Seq(Emission) /\ Len(emitted') = n + 1 /\ emitted'[n + 1] = e
       /\ \A i \in 1..n : emitted'[i] = emitted[i]
  BY <1>1, <1>9, <1>11
<1>13. \A i \in 1..Len(emitted') : i \in 1..n \/ i = n + 1
  BY <1>11, <1>12
<1>14. ASSUME NEW i \in 1..n
       PROVE  /\ emitted[i] \in Emission /\ emitted[i].now \in Nat /\ emitted[i].rank \in Nat
              /\ RankInv(emitted[i]) /\ CoolInv(emitted[i]) /\ LateInv(emitted[i])
  BY EmissionFacts
<1>15. last \in [Strategies \X Fingerprints -> Int]
  BY <1>2 DEF MemoryInv
<1>16. Unexpired(now) \in [Strategies \X Fingerprints -> Int]
  BY <1>15 DEF Unexpired
<1>17. last' \in [Strategies \X Fingerprints -> Int] /\ (Cooldown # 0 => last'[key] = now)
  BY <1>1, <1>4, <1>5, <1>15, <1>16
<1>18. /\ seen' \in Seq(Occurrence) /\ Len(seen') \in 1..HistorySize /\ IsInjective(seen')
       /\ Len(seen') = HistorySize \/ Len(seen') = recorded + 1
       /\ seen'[Len(seen')] = k
  BY <1>1, <1>2, <1>4, RememberedFacts
<1>19. MemoryInv'
  <2>1. IsInjective(seen)'
    BY <1>18 DEF IsInjective
  <2>. QED
    BY <1>1, <1>6, <1>12, <1>17, <1>18, <2>1 DEF MemoryInv
\* an emission of the same fingerprint is over a cooldown old
<1>20. ASSUME NEW i \in 1..n, CoolKey(emitted[i]) = key
       PROVE  clock - emitted[i].now >= Cooldown
  <2>1. CASE Cooldown = 0
    BY <1>6, <1>14, <2>1 DEF CoolInv
  <2>2. CASE Cooldown # 0
    <3>1. ~Cooling(CoolKey(emitted[i]), now)
      BY <1>1, <1>6, <1>20, <2>2
    <3>. QED
      BY <1>2, <1>5, <1>14, <3>1, UnexpiredFacts
  <2>. QED
    BY <2>1, <2>2
<1>21. ASSUME NEW i \in 1..n
       PROVE  (RankInv(emitted[i]) /\ CoolInv(emitted[i]) /\ LateInv(emitted[i]))'
  <2>. DEFINE x == emitted[i]
  <2>1. x \in Emission /\ x.now \in Nat /\ RankInv(x) /\ CoolInv(x) /\ LateInv(x)
    BY <1>14
  <2>2. emitted'[i] = x
    BY <1>12
  <2>3. CoolKey(x) = key => clock - x.now >= Cooldown
    BY <1>20
  <2>. HIDE DEF x
  <2>4. /\ x.rank \in 1..recorded'
        /\ recorded' - x.rank < Len(seen') =>
             seen'[Len(seen') - (recorded' - x.rank)] = x.key
    BY <1>1, <1>2, <1>4, <2>1, RanksKept
  <2>5. last'[CoolKey(x)] >= x.now \/ clock - x.now >= Cooldown
    <3>1. CASE CoolKey(x) = key
      BY <2>3, <3>1
    <3>2. CASE CoolKey(x) # key /\ Cooldown # 0
      <4>1. last'[CoolKey(x)] = Unexpired(now)[CoolKey(x)]
        <5>1. CoolKey(x) \in Strategies \X Fingerprints
          BY <2>1 DEF CoolKey, Emission, Occurrence
        <5>. QED
          BY <1>1, <1>16, <3>2, <5>1
      <4>. QED
        BY <1>2, <1>5, <2>1, <4>1, UnexpiredFacts
    <3>3. CASE Cooldown = 0
      BY <1>6, <2>1, <3>3 DEF CoolInv
    <3>. QED
      BY <3>1, <3>2, <3>3
  <2>6. RankInv(emitted[i])'
    BY <2>2, <2>4 DEF RankInv
  <2>7. CoolInv(emitted[i])'
    BY <1>3, <2>1, <2>2, <2>5 DEF CoolInv, CoolKey
  <2>8. LateInv(emitted[i])'
    BY <2>1, <2>2 DEF LateInv
  <2>. QED
    BY <2>6, <2>7, <2>8
<1>22. ASSUME NEW i \in 1..Len(emitted'), i = n + 1
       PROVE  (RankInv(emitted[i]) /\ CoolInv(emitted[i]) /\ LateInv(emitted[i]))'
  <2>1. emitted'[i] = e
    BY <1>12, <1>22
  <2>2. /\ e.rank \in 1..recorded' /\ recorded' - e.rank = 0
        /\ Len(seen') - 0 = Len(seen')
    BY <1>1, <1>6, <1>10, <1>18
  <2>3. RankInv(emitted[i])'
    BY <1>10, <1>18, <2>1, <2>2 DEF RankInv
  <2>4. CoolKey(e) = key
    <3>1. key = <<key[1], key[2]>>
      BY DEF key
    <3>. QED
      BY <1>7, <1>10, <3>1 DEF CoolKey
  <2>5. CoolInv(emitted[i])'
    <3>1. e.now <= clock' /\ (last'[CoolKey(e)] >= e.now \/ clock' - e.now >= Cooldown)
      BY <1>3, <1>5, <1>6, <1>10, <1>17, <2>4
    <3>. QED
      BY <2>1, <3>1 DEF CoolInv, CoolKey
  <2>6. /\ e.at - e.key[3] <= MaxAge + Slack(Len(Registry))
        /\ e.expires_at # 0 => e.at < e.expires_at + Slack(Len(Registry))
    <3>. DEFINE late == Slack(Len(Registry))
                occurred == c.occurred_at
                expires == c.expires_at
    <3>1. e.key[3] = occurred /\ e.at = clock /\ e.expires_at = expires
      BY <1>7, <1>10
    <3>2. /\ late \in Nat /\ clock \in Nat /\ now \in Nat /\ MaxAge \in Nat
          /\ occurred \in Int /\ expires \in Int
      BY <1>4, <1>5, <1>6
    <3>3. /\ clock <= now + late /\ now - occurred <= MaxAge
          /\ expires # 0 => expires > now
      BY <1>5, <1>8
    <3>. HIDE DEF late, occurred, expires
    <3>4. clock - occurred <= MaxAge + late /\ (expires # 0 => clock < expires + late)
      BY <3>2, <3>3
    <3>. QED
      BY <3>1, <3>4 DEF late
  <2>7. LateInv(emitted[i])'
    BY <2>1, <2>6 DEF LateInv
  <2>. QED
    BY <2>3, <2>5, <2>7
<1>23. OccurrenceOnce'
  <2>. SUFFICES ASSUME NEW i \in 1..Len(emitted'), NEW j \in 1..Len(emitted'), i < j,
                       emitted'[i].key = emitted'[j].key
                PROVE  emitted'[j].rank - emitted'[i].rank > HistorySize
    BY DEF OccurrenceOnce
  <2>1. i \in 1..n /\ emitted'[i] = emitted[i]
    BY <1>11, <1>12, <1>13
  <2>2. CASE j \in 1..n
    BY <1>2, <1>12, <2>1, <2>2 DEF EmissionsInv, OccurrenceOnce
  <2>3. CASE j = n + 1
    <3>1. emitted[i].key = k /\ emitted'[j].rank = recorded + 1
      BY <1>10, <1>12, <2>1, <2>3
    <3>2. recorded + 1 - emitted[i].rank > HistorySize
      BY <1>1, <1>2, <1>14, <2>1, <3>1, ForgottenFacts
    <3>3. emitted'[j].rank = recorded + 1 /\ emitted'[i].rank = emitted[i].rank
      BY <2>1, <3>1
    <3>4. emitted[i].rank \in Nat
      BY <1>14, <2>1
    <3>. QED
      BY <1>6, <3>2, <3>3, <3>4
  <2>. QED
    BY <1>13, <2>2, <2>3
<1>24. CooldownSpaced'
  <2>. SUFFICES ASSUME NEW i \in 1..Len(emitted'), NEW j \in 1..Len(emitted'), i < j,
                       SameFingerprint(emitted'[i], emitted'[j])
                PROVE  emitted'[j].at - emitted'[i].now >= Cooldown
    BY DEF CooldownSpaced, SameFingerprint
  <2>1. i \in 1..n /\ emitted'[i] = emitted[i]
    BY <1>11, <1>12, <1>13
  <2>2. CASE j \in 1..n
    BY <1>2, <1>12, <2>1, <2>2 DEF EmissionsInv, CooldownSpaced
  <2>3. CASE j = n + 1
    <3>1. /\ emitted'[j].at = clock /\ emitted'[j].key = k
      BY <1>10, <1>12, <2>3
    <3>2. CoolKey(emitted[i]) = key
      <4>1. key = <<key[1], key[2]>>
        BY DEF key
      <4>. QED
        BY <1>7, <2>1, <3>1, <4>1 DEF CoolKey, SameFingerprint
    <3>. QED
      BY <1>20, <2>1, <3>1, <3>2
  <2>. QED
    BY <1>13, <2>2, <2>3
<1>25. ASSUME NEW i \in 1..Len(emitted')
       PROVE  (RankInv(emitted[i]) /\ CoolInv(emitted[i]) /\ LateInv(emitted[i]))'
  BY <1>13, <1>21, <1>22
<1>26. EmissionsInv'
  BY <1>23, <1>24, <1>25 DEF EmissionsInv
<1>. QED
  BY <1>3, <1>19, <1>26 DEF IInv

LEMMA NextHolds == IInv /\ [Next]_vars => IInv'
<1>. SUFFICES ASSUME IInv, [Next]_vars
              PROVE  IInv'
  OBVIOUS
<1>1. ASSUME NEW t \in Tasks, NEW e \in Events, Receive(t, e)
      PROVE  IInv'
  BY <1>1, ReceiveKeeps
<1>2. ASSUME NEW v \in Venues, HistoryChanges(v)
      PROVE  IInv'
  BY <1>2, HistoryKeeps
<1>3. CASE Tick
  BY <1>3, TickKeeps
<1>4. ASSUME NEW t \in Tasks, Evaluate(t)
      PROVE  IInv'
  <2>1. /\ "timeout" \in Outcomes /\ "error" \in Outcomes /\ "invalid" \in Outcomes
        /\ "no_signal" \in Outcomes
    BY DEF Outcomes
  <2>2. CASE EvaluationTimesOut(t)
    BY <2>1, <2>2, NothingEmittedKeeps DEF EvaluationTimesOut
  <2>3. ASSUME NEW outcome \in {"error", "invalid"}, EvaluationFails(t, outcome)
        PROVE  IInv'
    BY <2>1, <2>3, NothingEmittedKeeps DEF EvaluationFails
  <2>4. CASE EvaluatesToNothing(t)
    BY <2>1, <2>4, NothingEmittedKeeps DEF EvaluatesToNothing
  <2>5. ASSUME NEW c \in Candidates(task[t].now), CandidateInvalid(t, c)
        PROVE  IInv'
    BY <2>1, <2>5, NothingEmittedKeeps DEF CandidateInvalid
  <2>6. ASSUME NEW c \in Candidates(task[t].now), CandidateSuppressed(t, c)
        PROVE  IInv'
    BY <2>6, SuppressedKeeps
  <2>7. ASSUME NEW c \in Candidates(task[t].now), CandidateEmitted(t, c)
        PROVE  IInv'
    BY <2>7, EmittedKeeps
  <2>8. CASE EvaluationCancelled(t)
    BY <2>8, CancelKeeps
  <2>. QED
    BY <1>4, <2>2, <2>3, <2>4, <2>5, <2>6, <2>7, <2>8 DEF Evaluate
<1>5. CASE UNCHANGED vars
  <2>1. /\ UNCHANGED <<clock, updated, history, task, audit, events>>
        /\ UNCHANGED <<seen, last, emitted, recorded>>
    BY <1>5 DEF vars
  <2>2. EngineInv'
    BY <2>1 DEF IInv, EngineInv, InTime
  <2>3. clock \in Nat
    BY DEF IInv, EngineInv
  <2>4. MemoryInv' /\ EmissionsInv'
    BY <2>1, <2>3, MemoryKept
  <2>. QED
    BY <2>2, <2>4 DEF IInv
<1>. QED
  BY <1>1, <1>2, <1>3, <1>4, <1>5 DEF Next

LEMMA AlwaysIInv == Spec => []IInv
BY InitHolds, NextHolds, PTL DEF Spec

-----------------------------------------------------------------------------
(* Decisions are counted                                                   *)

CountInv == NothingSkipped /\ abandoned \in Nat

PendingOf(f) == {p \in Tasks \X Places : p[2] \in Awaited(f[p[1]])}
Moved(f, g, t, r) == DOMAIN f = Tasks /\ g = [f EXCEPT ![t] = r]
Elsewhere(f, t) == {p \in Tasks \X Places : p[1] # t /\ p[2] \in Awaited(f[p[1]])}

\* Two sets without a common element.
LEMMA Disjoint ==
  ASSUME NEW S, IsFiniteSet(S), NEW T, IsFiniteSet(T), S \cap T = {}
  PROVE  /\ IsFiniteSet(S \cup T) /\ Cardinality(S \cup T) = Cardinality(S) + Cardinality(T)
         /\ Cardinality(S) \in Nat /\ Cardinality(T) \in Nat
<1>1. Cardinality(S) \in Nat /\ Cardinality(T) \in Nat
  BY FS_CardinalityType
<1>2. Cardinality(S \cap T) = 0
  BY FS_EmptySet
<1>3. /\ IsFiniteSet(S \cup T)
      /\ Cardinality(S \cup T) = Cardinality(S) + Cardinality(T) - Cardinality(S \cap T)
  BY FS_Union
<1>. QED
  BY <1>1, <1>2, <1>3

LEMMA PendingSplit ==
  ASSUME NEW f, NEW t \in Tasks, Awaited(f[t]) \subseteq Places
  PROVE  /\ Cardinality(Elsewhere(f, t)) \in Nat /\ Cardinality(Awaited(f[t])) \in Nat
         /\ Cardinality(PendingOf(f)) = Cardinality(Elsewhere(f, t)) + Cardinality(Awaited(f[t]))
<1>. DEFINE A == Awaited(f[t])
            here == {t} \X A
            there == Elsewhere(f, t)
<1>1. IsFiniteSet(Tasks) /\ IsFiniteSet(Places)
  BY FS_Interval, EngineAssumption DEF Places
<1>2. IsFiniteSet(Tasks \X Places)
  BY <1>1, FS_Product
<1>3. IsFiniteSet(A) /\ IsFiniteSet(there)
  <2>1. there \subseteq Tasks \X Places
    BY DEF Elsewhere
  <2>. QED
    BY <1>1, <1>2, <2>1, FS_Subset
<1>4. IsFiniteSet(here) /\ Cardinality(here) = Cardinality(A) /\ Cardinality(A) \in Nat
  <2>. HIDE DEF A
  <2>1. IsFiniteSet({t}) /\ Cardinality({t}) = 1
    BY FS_Singleton
  <2>2. IsFiniteSet(here) /\ Cardinality(here) = 1 * Cardinality(A)
    BY <1>3, <2>1, FS_Product
  <2>3. Cardinality(A) \in Nat
    BY <1>3, FS_CardinalityType
  <2>. QED
    BY <2>2, <2>3
<1>5. PendingOf(f) = there \cup here
  <2>1. ASSUME NEW p \in PendingOf(f)
        PROVE  p \in there \cup here
    BY DEF PendingOf, Elsewhere
  <2>2. ASSUME NEW p \in there \cup here
        PROVE  p \in PendingOf(f)
    BY DEF PendingOf, Elsewhere
  <2>. QED
    BY <2>1, <2>2
<1>6. there \cap here = {}
  BY DEF Elsewhere
<1>. HIDE DEF A, here, there
<1>7. /\ Cardinality(there \cup here) = Cardinality(there) + Cardinality(here)
      /\ Cardinality(there) \in Nat
  BY <1>3, <1>4, <1>6, Disjoint
<1>. QED
  BY <1>4, <1>5, <1>7 DEF A, there

\* One task goes on, and the decisions that other tasks owe stay as they are.
LEMMA PendingMoves ==
  ASSUME NEW f, NEW g, NEW t \in Tasks, NEW r, Moved(f, g, t, r),
         Awaited(f[t]) \subseteq Places, Awaited(r) \subseteq Places
  PROVE  /\ Cardinality(PendingOf(f)) \in Nat /\ Cardinality(PendingOf(g)) \in Nat
         /\ Cardinality(Awaited(f[t])) \in Nat /\ Cardinality(Awaited(r)) \in Nat
         /\ Cardinality(PendingOf(g)) + Cardinality(Awaited(f[t]))
              = Cardinality(PendingOf(f)) + Cardinality(Awaited(r))
<1>1. g[t] = r /\ \A u \in Tasks : u # t => g[u] = f[u]
  BY DEF Moved
<1>2. Elsewhere(g, t) = Elsewhere(f, t)
  BY <1>1 DEF Elsewhere
<1>3. /\ Cardinality(Elsewhere(f, t)) \in Nat /\ Cardinality(Awaited(f[t])) \in Nat
      /\ Cardinality(PendingOf(f)) = Cardinality(Elsewhere(f, t)) + Cardinality(Awaited(f[t]))
  BY PendingSplit
<1>4. /\ Cardinality(Awaited(g[t])) \in Nat
      /\ Cardinality(PendingOf(g)) = Cardinality(Elsewhere(g, t)) + Cardinality(Awaited(g[t]))
  BY <1>1, PendingSplit
<1>. QED
  BY <1>1, <1>2, <1>3, <1>4

\* The loop leaves a strategy to be decided upon, or has recorded it.
LEMMA ContinuedCounts ==
  ASSUME NEW todo \in SUBSET Places, NEW e \in Events, NEW upd, NEW now \in 1..MaxTime
  PROVE  LET c == Continued(todo, e, upd, now) IN
         /\ Awaited(c.entry) \subseteq Places /\ c.skipped \in Nat
         /\ Cardinality(Awaited(c.entry)) \in Nat
         /\ Cardinality(Awaited(c.entry)) + c.skipped = Cardinality(todo)
<1>. DEFINE ready == Ready(todo, e, upd, now)
            c == Continued(todo, e, upd, now)
<1>0. IsFiniteSet(Places) /\ Cardinality(todo) \in Nat
  BY FS_Interval, EngineAssumption, PlacesFinite DEF Places
<1>1. CASE ready = {}
  <2>1. c = [entry |-> NoTask, skipped |-> Cardinality(todo)]
    BY <1>1 DEF Continued
  <2>2. Awaited(NoTask) = {}
    BY DEF Awaited, NoTask
  <2>3. Cardinality({}) = 0
    BY FS_EmptySet
  <2>4. 0 + Cardinality(todo) = Cardinality(todo)
    BY <1>0
  <2>. HIDE DEF c
  <2>5. c.entry = NoTask /\ c.skipped = Cardinality(todo)
    BY <2>1
  <2>. QED
    BY <1>0, <2>2, <2>3, <2>4, <2>5 DEF c
<1>2. CASE ready # {}
  <2>. DEFINE k == Min(ready)
              later == {j \in todo : j > k}
              before == {j \in todo : j < k}
              r == [place |-> k, todo |-> later, now |-> now, started |-> clock, event |-> e]
  <2>1. k \in todo /\ k \in Nat \ {0}
    <3>1. ready \subseteq todo /\ ready \in SUBSET Nat
      BY PlacesFinite DEF Ready
    <3>. HIDE DEF ready
    <3>2. k \in ready
      BY <1>2, <3>1, MinOfPlaces
    <3>. HIDE DEF k
    <3>3. k \in todo /\ k \in Places
      BY <3>1, <3>2
    <3>. QED
      BY <3>3, EngineAssumption DEF Places
  <2>2. c = [entry |-> r, skipped |-> Cardinality(before)]
    BY <1>2 DEF Continued
  <2>3. Awaited(r) = {k} \cup later
    BY <2>1 DEF Awaited
  <2>. HIDE DEF k, ready, c
  <2>4. todo \subseteq Nat
    BY PlacesFinite
  <2>5. {k} \cup later \subseteq Places /\ before \subseteq Places
    BY <2>1
  <2>6. IsFiniteSet({k} \cup later) /\ IsFiniteSet(before)
    BY <1>0, <2>5, FS_Subset
  <2>7. ({k} \cup later) \cap before = {}
    <3>. SUFFICES ASSUME NEW x \in before, x \in {k} \cup later
                  PROVE  FALSE
      OBVIOUS
    <3>1. x \in Nat /\ x < k /\ (x = k \/ x > k)
      BY <2>4
    <3>. QED
      BY <2>1, <3>1
  <2>8. ({k} \cup later) \cup before = todo
    <3>1. ASSUME NEW x \in todo
          PROVE  x \in ({k} \cup later) \cup before
      <4>1. x \in Nat /\ (x = k \/ x < k \/ x > k)
        BY <2>1, <2>4
      <4>. QED
        BY <4>1
    <3>. QED
      BY <2>1, <3>1
  <2>. HIDE DEF later, before
  <2>9. /\ Cardinality(({k} \cup later) \cup before)
             = Cardinality({k} \cup later) + Cardinality(before)
        /\ Cardinality({k} \cup later) \in Nat /\ Cardinality(before) \in Nat
    BY <2>6, <2>7, Disjoint
  <2>10. c.entry = r /\ c.skipped = Cardinality(before)
    BY <2>2
  <2>. QED
    BY <2>3, <2>5, <2>8, <2>9, <2>10 DEF c
<1>. QED
  BY <1>1, <1>2

LEMMA PendingIs == Pending = PendingOf(task) /\ Pending' = PendingOf(task')
BY DEF Pending, PendingOf, Awaited

\* What a task in an evaluation owes is the strategy at hand and those after it.
LEMMA BusyOwes ==
  ASSUME EngineInv, NEW t \in Tasks, ~Idle(t)
  PROVE  /\ Awaited(task[t]) \subseteq Places
         /\ Cardinality(Awaited(task[t])) = Cardinality(task[t].todo) + 1
         /\ Cardinality(task[t].todo) \in Nat
<1>. DEFINE r == task[t]
<1>1. r.place \in Places /\ r.place \in Nat \ {0} /\ r.todo \in SUBSET Places /\ InTime(r, clock)
  BY BusyFacts
<1>2. r.place \notin r.todo
  BY <1>1, PlacesFinite DEF InTime
<1>3. IsFiniteSet(r.todo) /\ Cardinality(r.todo) \in Nat
  <2>1. IsFiniteSet(Places)
    BY FS_Interval, EngineAssumption DEF Places
  <2>. QED
    BY <1>1, <2>1, FS_Subset, PlacesFinite
<1>4. Awaited(r) = r.todo \cup {r.place}
  BY <1>1 DEF Awaited
<1>. HIDE DEF r
<1>5. Cardinality(r.todo \cup {r.place}) = Cardinality(r.todo) + 1
  BY <1>2, <1>3, FS_AddElement
<1>. QED
  BY <1>1, <1>3, <1>4, <1>5 DEF r

LEMMA DecideCounts ==
  ASSUME IInv, CountInv, NEW t \in Tasks, ~Idle(t), NEW outcome \in Outcomes,
         Decide(t, outcome)
  PROVE  CountInv'
<1>. DEFINE r == task[t]
            c == Continued(r.todo, r.event, updated, r.now)
<1>1. /\ task' = [task EXCEPT ![t] = c.entry] /\ due' = due /\ abandoned' = abandoned
      /\ audit' = [o \in Outcomes |-> audit[o] + (IF o = outcome THEN 1 ELSE 0)
                                        + (IF o = "not_ready" THEN c.skipped ELSE 0)]
  BY DEF Decide
<1>2. EngineInv /\ audit \in [Outcomes -> Nat] /\ DOMAIN task = Tasks
  BY DEF IInv, EngineInv
<1>3. /\ Awaited(r) \subseteq Places /\ Cardinality(Awaited(r)) = Cardinality(r.todo) + 1
      /\ Cardinality(r.todo) \in Nat
  BY <1>2, BusyOwes
<1>4. /\ Awaited(c.entry) \subseteq Places /\ c.skipped \in Nat
      /\ Cardinality(Awaited(c.entry)) \in Nat
      /\ Cardinality(Awaited(c.entry)) + c.skipped = Cardinality(r.todo)
  BY <1>2, BusyFacts, ContinuedCounts
<1>. HIDE DEF c
<1>5. /\ Cardinality(PendingOf(task)) \in Nat /\ Cardinality(PendingOf(task')) \in Nat
      /\ Cardinality(PendingOf(task')) + Cardinality(Awaited(r))
           = Cardinality(PendingOf(task)) + Cardinality(Awaited(c.entry))
  <2>1. /\ Moved(task, task', t, c.entry)
        /\ Awaited(task[t]) \subseteq Places /\ Awaited(c.entry) \subseteq Places
    BY <1>1, <1>2, <1>3, <1>4 DEF Moved
  <2>. HIDE DEF r
  <2>. QED
    BY <2>1, PendingMoves DEF r
<1>6. Recorded' = Recorded + 1 + c.skipped /\ Recorded \in Nat
  BY <1>1, <1>2, <1>4 DEF Recorded, Outcomes
<1>7. due = Recorded + Cardinality(PendingOf(task)) + abandoned /\ abandoned \in Nat
  BY PendingIs DEF CountInv, NothingSkipped
<1>8. due' = Recorded' + Cardinality(PendingOf(task')) + abandoned'
  BY <1>1, <1>3, <1>4, <1>5, <1>6, <1>7
<1>. QED
  BY <1>1, <1>7, <1>8, PendingIs DEF CountInv, NothingSkipped

LEMMA ReceiveCounts ==
  ASSUME IInv, CountInv, NEW t \in Tasks, NEW e \in Events, Receive(t, e)
  PROVE  CountInv'
<1>. DEFINE c == Continued(Triggered(e), e, updated', clock)
<1>1. /\ Idle(t) /\ clock <= MaxTime /\ task' = [task EXCEPT ![t] = c.entry]
      /\ audit' = [audit EXCEPT !["not_ready"] = @ + c.skipped]
      /\ due' = due + Cardinality(Triggered(e)) /\ abandoned' = abandoned
  BY DEF Receive
<1>2. audit \in [Outcomes -> Nat] /\ DOMAIN task = Tasks /\ clock \in 1..MaxTime
  BY <1>1, EngineAssumption DEF IInv, EngineInv
<1>3. Triggered(e) \in SUBSET Places
  BY DEF Triggered
<1>4. /\ Awaited(c.entry) \subseteq Places /\ c.skipped \in Nat
      /\ Cardinality(Awaited(c.entry)) \in Nat
      /\ Cardinality(Awaited(c.entry)) + c.skipped = Cardinality(Triggered(e))
  BY <1>2, <1>3, ContinuedCounts
<1>. HIDE DEF c
<1>5. Awaited(task[t]) = {} /\ Awaited(task[t]) \subseteq Places /\ Cardinality(Awaited(task[t])) = 0
  BY <1>1, FS_EmptySet DEF Idle, Awaited
<1>6. /\ Cardinality(PendingOf(task)) \in Nat /\ Cardinality(PendingOf(task')) \in Nat
      /\ Cardinality(PendingOf(task')) + Cardinality(Awaited(task[t]))
           = Cardinality(PendingOf(task)) + Cardinality(Awaited(c.entry))
  <2>1. /\ Moved(task, task', t, c.entry)
        /\ Awaited(task[t]) \subseteq Places /\ Awaited(c.entry) \subseteq Places
    BY <1>1, <1>2, <1>4, <1>5 DEF Moved
  <2>. QED
    BY <2>1, PendingMoves
<1>7. Recorded' = Recorded + c.skipped /\ Recorded \in Nat
  BY <1>1, <1>2, <1>4 DEF Recorded, Outcomes
<1>8. due = Recorded + Cardinality(PendingOf(task)) + abandoned /\ abandoned \in Nat
  BY PendingIs DEF CountInv, NothingSkipped
<1>9. due' = Recorded' + Cardinality(PendingOf(task')) + abandoned'
  BY <1>1, <1>4, <1>5, <1>6, <1>7, <1>8
<1>. QED
  BY <1>1, <1>8, <1>9, PendingIs DEF CountInv, NothingSkipped

\* What a cancelled task still owed is abandoned.
LEMMA CancelCounts ==
  ASSUME IInv, CountInv, NEW t \in Tasks, EvaluationCancelled(t)
  PROVE  CountInv'
<1>1. /\ ~Idle(t) /\ task' = [task EXCEPT ![t] = NoTask] /\ audit' = audit /\ due' = due
      /\ abandoned' = abandoned + Cardinality(Awaited(task[t]))
  BY DEF EvaluationCancelled
<1>2. EngineInv /\ audit \in [Outcomes -> Nat] /\ DOMAIN task = Tasks
  BY DEF IInv, EngineInv
<1>3. Awaited(task[t]) \subseteq Places
  BY <1>1, <1>2, BusyOwes
<1>4. Awaited(NoTask) = {} /\ Cardinality(Awaited(NoTask)) = 0
  BY FS_EmptySet DEF Awaited, NoTask
<1>5. Moved(task, task', t, NoTask)
  BY <1>1, <1>2 DEF Moved
<1>6. /\ Cardinality(PendingOf(task)) \in Nat /\ Cardinality(PendingOf(task')) \in Nat
      /\ Cardinality(Awaited(task[t])) \in Nat
      /\ Cardinality(PendingOf(task')) + Cardinality(Awaited(task[t]))
           = Cardinality(PendingOf(task)) + Cardinality(Awaited(NoTask))
  BY <1>3, <1>4, <1>5, PendingMoves
<1>7. Recorded' = Recorded /\ Recorded \in Nat
  BY <1>1, <1>2 DEF Recorded, Outcomes
<1>8. due = Recorded + Cardinality(PendingOf(task)) + abandoned /\ abandoned \in Nat
  BY PendingIs DEF CountInv, NothingSkipped
<1>9. due' = Recorded' + Cardinality(PendingOf(task')) + abandoned'
  BY <1>1, <1>4, <1>6, <1>7, <1>8
<1>. QED
  BY <1>1, <1>6, <1>8, <1>9, PendingIs DEF CountInv, NothingSkipped

LEMMA InitCounts == Init => CountInv
<1>. SUFFICES ASSUME Init
              PROVE  CountInv
  OBVIOUS
<1>1. Pending = {}
  BY DEF Init, Pending, Awaited, NoTask
<1>2. Recorded = 0 /\ due = 0 /\ abandoned = 0
  BY DEF Init, Recorded, Outcomes
<1>. QED
  BY <1>1, <1>2, FS_EmptySet DEF CountInv, NothingSkipped

LEMMA NextCounts == IInv /\ CountInv /\ [Next]_vars => CountInv'
<1>. SUFFICES ASSUME IInv, CountInv, [Next]_vars
              PROVE  CountInv'
  OBVIOUS
<1>1. ASSUME UNCHANGED <<task, audit, due, abandoned>>
      PROVE  CountInv'
  BY <1>1 DEF CountInv, NothingSkipped, Recorded, Pending, Awaited
<1>2. ASSUME NEW t \in Tasks, Evaluate(t)
      PROVE  CountInv'
  <2>1. EvaluationCancelled(t) \/ \E outcome \in Outcomes : ~Idle(t) /\ Decide(t, outcome)
    <3>1. {"timeout", "error", "invalid", "no_signal", "suppressed", "emitted"} \subseteq Outcomes
      BY DEF Outcomes
    <3>. QED
      BY <1>2, <3>1
         DEF Evaluate, EvaluationTimesOut, EvaluationFails, EvaluatesToNothing,
             CandidateInvalid, CandidateSuppressed, CandidateEmitted
  <2>. QED
    BY <2>1, DecideCounts, CancelCounts
<1>3. ASSUME NEW t \in Tasks, NEW e \in Events, Receive(t, e)
      PROVE  CountInv'
  BY <1>3, ReceiveCounts
<1>4. CASE Tick \/ UNCHANGED vars \/ \E v \in Venues : HistoryChanges(v)
  BY <1>1, <1>4 DEF Tick, HistoryChanges, vars
<1>. QED
  BY <1>2, <1>3, <1>4 DEF Next

-----------------------------------------------------------------------------
(* The theorems                                                            *)

\* However the evaluations of several tasks interleave, every strategy an event
\* triggers is decided upon exactly once or still awaited by the task that got the
\* event, whichever others fail, hang or are not ready, unless that task is itself
\* cancelled in the await and so abandons what it still owes, no decision of another
\* task with it (SignalEngine.evaluate_event); and of the signals they return, an
\* occurrence that is still remembered is not emitted again, and a fingerprint is not
\* emitted again before a cooldown after the time its last emission was judged by
\* has passed (SignalDeduplicator.accept).
THEOREM DecidedOnceHolds == Spec => []DecidedOnce
<1>1. IInv /\ CountInv => DecidedOnce
  <2>. SUFFICES ASSUME IInv, CountInv
                PROVE  DecidedOnce
    OBVIOUS
  <2>1. EngineInv /\ MemoryInv /\ OccurrenceOnce /\ CooldownSpaced
    BY DEF IInv, EmissionsInv
  <2>2. clock \in 1..MaxTime + Timeout * Len(Registry)
    <3>1. Timeout * Len(Registry) \in Nat /\ MaxTime \in Nat
      BY SlackFacts, EngineAssumption DEF Slack
    <3>2. clock \in Nat \ {0} /\ clock <= MaxTime + Timeout * Len(Registry)
      BY <2>1 DEF EngineInv, Slack
    <3>. QED
      BY <3>1, <3>2
  <2>3. ASSUME NEW t \in Tasks
        PROVE  task[t].place \in {0} \cup Places /\ task[t].todo \subseteq Places
    <3>1. CASE task[t] = NoTask
      BY <3>1 DEF NoTask
    <3>2. CASE task[t] \in Entry
      BY <3>2 DEF Entry
    <3>. QED
      BY <2>1, <3>1, <3>2 DEF EngineInv
  <2>4. \A k \in Range(seen) : k \in Occurrence
    BY <2>1 DEF MemoryInv, Range
  <2>5. TypeOK
    BY <2>1, <2>2, <2>3, <2>4 DEF TypeOK, EngineInv, MemoryInv, CountInv
  <2>. QED
    BY <2>1, <2>5 DEF DecidedOnce, CountInv
<1>2. Spec => []CountInv
  BY AlwaysIInv, InitCounts, NextCounts, PTL DEF Spec
<1>. QED
  BY <1>1, <1>2, AlwaysIInv, PTL

\* A signal whose validity was checked at a time read before the awaits is emitted
\* at most one timeout for every registered strategy later than its limits
\* (SignalEngine.evaluate_event, _validate_signal).
THEOREM LatenessBoundedHolds == Spec => []LatenessBounded
<1>1. IInv => LatenessBounded
  BY DEF IInv, EmissionsInv, LateInv, LatenessBounded, Slack
<1>. QED
  BY <1>1, AlwaysIInv, PTL
=============================================================================
