------------------------ MODULE SignalRuntimeProofs ------------------------
(* OneKnownRuntime and StopsAsMeant hold for any number of clients, signals, *)
(* versions, process ids and restarts.                                       *)
(*                                                                           *)
(* What the controller says of the runtime is right because a runtime that   *)
(* lives is always the recorded one, and the process of this Gateway if it   *)
(* has any; that in turn rests on the lock, which keeps a second process     *)
(* from being created, and on start() finding nothing alive before it waits  *)
(* for the process factory.                                                  *)
EXTENDS SignalRuntime, TLAPS

\* The runtimes some Gateway has recorded, as long as they live.
Living == Alive \ orphans

Approves(selection) ==
  selection.signal \in Signals /\ selection.version \in 1..approved[selection.signal]

\* A message in progress has no answer yet.
AnswerInv == \A c \in Clients : task[c] # "idle" => answer[c] = "none"

\* Approvals are only added, so what a handler read, what it selected for a
\* start and what a process was given stay approved.
ApprovalInv ==
  /\ \A c \in Clients, s \in Signals : seen[c][s] <= approved[s]
  /\ \A c \in Clients : task[c] = "start_lock" => Approves(selected)
  /\ \A c \in Clients : task[c] = "spawning" => Approves(environment)
  /\ \A n \in Processes : process[n].state # "none" => Approves(process[n].selection)

\* A runtime that lives is the recorded one and, if the Gateway has a process,
\* that process; while one is created none lives and no shutdown is asked for.
KnownInv ==
  /\ \A n \in Living : metadata.process = n /\ current \in {0, n}
  /\ \A n \in noticed : process[n].state = "exited"
  /\ \A n \in orphans : process[n].state # "none"
  /\ metadata.process # 0 => /\ process[metadata.process].state # "none"
                             /\ metadata.process \notin orphans
  /\ \A c \in Clients : task[c] = "spawning" => Living = {} /\ shutdown = 0
  /\ ShutdownIsForThisRun

\* Until another signal is selected, a process being created is given what the
\* record will say; a Gateway that is down has no process.
RecordInv ==
  /\ RecordedIsRunning
  /\ \A c \in Clients : task[c] = "spawning" /\ ~reselected => selected = environment
  /\ ~up => current = 0

IInv == TypeOK /\ AnswerInv /\ ApprovalInv /\ KnownInv /\ RecordInv

Metadata == [state : {"none", "running", "stopped"}, process : 0..MaxProcesses,
             selection : Selection]
LockOK ==
  /\ task \in [Clients -> Tasks] /\ answer \in [Clients -> Answers]
  /\ lock \in Clients \cup {"nobody"}
  /\ \A c \in Clients : task[c] \in {"spawning", "stopping"} <=> lock = c
ProcessRecord == [state : {"none", "alive", "exited"}, pid : Pids, selection : Selection]

-----------------------------------------------------------------------------
\* status() corrects the state of the record and nothing else.
LEMMA RefreshedFacts ==
  ASSUME TypeOK
  PROVE  /\ Refreshed \in Metadata /\ Refreshed.process = metadata.process
         /\ Refreshed.selection = metadata.selection
BY DEF TypeOK, Refreshed, Metadata

\* A runtime that lives is seen to run.
LEMMA LivingRuns ==
  ASSUME TypeOK, KnownInv
  PROVE  \A n \in Living : Running
<1>. SUFFICES ASSUME NEW n \in Living PROVE Running
  OBVIOUS
<1>1. n \in Processes /\ n \in Alive /\ process[n].state = "alive" /\ n # 0
  BY RuntimeAssumption DEF Living, Alive, Processes
<1>2. CASE current # 0
  <2>1. current = n /\ n \notin noticed
    BY <1>1, <1>2 DEF KnownInv
  <2>. QED
    BY <1>2, <2>1 DEF Running
<1>3. CASE current = 0
  <2>1. metadata.process = n /\ process[n].pid \notin FreePids
    BY <1>1 DEF KnownInv, FreePids
  <2>. QED
    BY <1>1, <1>3, <2>1 DEF Running, PersistedIsRunning
<1>. QED
  BY <1>2, <1>3

\* While nothing runs, none lives.
LEMMA NothingLives ==
  ASSUME TypeOK, KnownInv, ~Running
  PROVE  Living = {}
BY LivingRuns

LEMMA RecordedIsNotAlive ==
  ASSUME TypeOK, KnownInv, ~Running
  PROVE  metadata.process \notin Alive
<1>1. Living = {}
  BY NothingLives
<1>2. metadata.process \in Alive => metadata.process # 0
  BY DEF Alive, Processes
<1>. QED
  BY <1>1, <1>2 DEF KnownInv, Living

\* A routed message that needs the lock is answered at once, takes the lock or
\* waits for it.
LEMMA LockMoves ==
  ASSUME LockOK, NEW c \in Clients, task[c] \notin {"spawning", "stopping"},
         \/ /\ lock' = "nobody" /\ lock = "nobody"
            /\ \E a \in Answers : Answer(c, a)
         \/ /\ lock' = c /\ lock = "nobody" /\ answer' = answer
            /\ \E p \in {"spawning", "stopping"} : task' = [task EXCEPT ![c] = p]
         \/ /\ lock' = lock /\ answer' = answer
            /\ \E p \in {"start_lock", "stop_lock"} : task' = [task EXCEPT ![c] = p]
  PROVE  LockOK'
<1>1. CASE lock' = "nobody" /\ lock = "nobody" /\ \E a \in Answers : Answer(c, a)
  BY <1>1, RuntimeAssumption DEF LockOK, Answer, Tasks
<1>2. CASE /\ lock' = c /\ lock = "nobody" /\ answer' = answer
           /\ \E p \in {"spawning", "stopping"} : task' = [task EXCEPT ![c] = p]
  BY <1>2, RuntimeAssumption DEF LockOK, Tasks
<1>3. CASE /\ lock' = lock /\ answer' = answer
           /\ \E p \in {"start_lock", "stop_lock"} : task' = [task EXCEPT ![c] = p]
  BY <1>3, RuntimeAssumption DEF LockOK, Tasks
<1>. QED
  BY <1>1, <1>2, <1>3

\* What a Gateway that goes down leaves of its memory.
Forgotten ==
  /\ LockOK /\ up \in BOOLEAN
  /\ seen \in [Clients -> [Signals -> 0..MaxVersions]]
  /\ selected \in Selection /\ environment \in Selection
  /\ current \in 0..MaxProcesses /\ noticed = {} /\ waiters = {}

LEMMA ForgetTypes ==
  ASSUME TypeOK, Forget
  PROVE  Forgotten'
<1>1. LockOK'
  BY RuntimeAssumption DEF TypeOK, LockOK, Forget, Tasks
<1>2. NoSelection \in Selection
  BY RuntimeAssumption DEF NoSelection, Selection
<1>3. seen' \in [Clients -> [Signals -> 0..MaxVersions]] /\ current' \in 0..MaxProcesses
  BY RuntimeAssumption DEF Forget
<1>. QED
  BY <1>1, <1>2, <1>3 DEF Forgotten, Forget


-----------------------------------------------------------------------------
(* Status and messages                                                      *)

\* A dashboard poll.
LEMMA PollStatusKeeps ==
  ASSUME IInv, PollStatus
  PROVE  IInv'
<1>1. Living' = Living /\ Alive' = Alive
  BY DEF Living, Alive, PollStatus, system
<1>2. /\ Refreshed \in Metadata /\ Refreshed.process = metadata.process
      /\ Refreshed.selection = metadata.selection
  BY RefreshedFacts DEF IInv
<1>3. TypeOK'
  BY <1>1, <1>2, RuntimeAssumption
     DEF IInv, TypeOK, PollStatus, memory, system, Metadata
<1>4. AnswerInv'
  BY <1>1, <1>2, RuntimeAssumption
     DEF IInv, AnswerInv, TypeOK, PollStatus, memory, system, Metadata
<1>5. ApprovalInv'
  BY <1>1, <1>2, RuntimeAssumption
     DEF IInv, ApprovalInv, TypeOK, Approves, PollStatus, memory, system, Metadata
<1>6. KnownInv'
  BY <1>1, <1>2, RuntimeAssumption
     DEF IInv, KnownInv, TypeOK, ShutdownIsForThisRun, Living, PollStatus, memory,
     system, Metadata
<1>7. RecordInv'
  BY <1>1, <1>2, RuntimeAssumption
     DEF IInv, RecordInv, RecordedIsRunning, TypeOK, KnownInv, PollStatus, memory,
     system, Metadata
<1>. QED
  BY <1>3, <1>4, <1>5, <1>6, <1>7 DEF IInv

\* A message arrives.
LEMMA ReadStateKeeps ==
  ASSUME IInv, NEW c \in Clients, ReadState(c)
  PROVE  IInv'
<1>1. Living' = Living /\ Alive' = Alive
  BY DEF Living, Alive, ReadState, system
<1>2. TypeOK'
  BY <1>1, RuntimeAssumption DEF IInv, TypeOK, ReadState, system, Tasks, Answers
<1>3. AnswerInv'
  BY <1>1, RuntimeAssumption
     DEF IInv, AnswerInv, TypeOK, ReadState, system, Tasks, Answers
<1>4. ApprovalInv'
  BY <1>1, RuntimeAssumption
     DEF IInv, ApprovalInv, TypeOK, Approves, ReadState, system, Tasks, Answers
<1>5. KnownInv'
  BY <1>1, RuntimeAssumption
     DEF IInv, KnownInv, TypeOK, ShutdownIsForThisRun, Living, ReadState, system, Tasks,
     Answers
<1>6. RecordInv'
  BY <1>1, RuntimeAssumption
     DEF IInv, RecordInv, RecordedIsRunning, TypeOK, KnownInv, ReadState, system, Tasks,
     Answers
<1>. QED
  BY <1>2, <1>3, <1>4, <1>5, <1>6 DEF IInv

\* A start is refused.
LEMMA DenyStartKeeps ==
  ASSUME IInv, NEW c \in Clients, NEW s \in Signals, DenyStart(c, s)
  PROVE  IInv'
<1>1. Living' = Living /\ Alive' = Alive
  BY DEF Living, Alive, DenyStart, system
<1>2. TypeOK'
  BY <1>1, RuntimeAssumption
     DEF IInv, TypeOK, DenyStart, Answer, Routing, Routed, system, Tasks, Answers
<1>3. AnswerInv'
  BY <1>1, RuntimeAssumption
     DEF IInv, AnswerInv, TypeOK, DenyStart, Answer, Routing, Routed, system, Tasks,
     Answers
<1>4. ApprovalInv'
  BY <1>1, RuntimeAssumption
     DEF IInv, ApprovalInv, TypeOK, Approves, DenyStart, Answer, Routing, Routed,
     system, Tasks, Answers
<1>5. KnownInv'
  BY <1>1, RuntimeAssumption
     DEF IInv, KnownInv, TypeOK, ShutdownIsForThisRun, Living, DenyStart, Answer,
     Routing, Routed, system, Tasks, Answers
<1>6. RecordInv'
  BY <1>1, RuntimeAssumption
     DEF IInv, RecordInv, RecordedIsRunning, TypeOK, KnownInv, DenyStart, Answer,
     Routing, Routed, system, Tasks, Answers
<1>. QED
  BY <1>2, <1>3, <1>4, <1>5, <1>6 DEF IInv

\* The user is asked back.
LEMMA ClarifyKeeps ==
  ASSUME IInv, NEW c \in Clients, Clarify(c)
  PROVE  IInv'
<1>1. Living' = Living /\ Alive' = Alive
  BY DEF Living, Alive, Clarify, system
<1>2. TypeOK'
  BY <1>1, RuntimeAssumption
     DEF IInv, TypeOK, Clarify, Answer, Routing, Routed, system, Tasks, Answers
<1>3. AnswerInv'
  BY <1>1, RuntimeAssumption
     DEF IInv, AnswerInv, TypeOK, Clarify, Answer, Routing, Routed, system, Tasks,
     Answers
<1>4. ApprovalInv'
  BY <1>1, RuntimeAssumption
     DEF IInv, ApprovalInv, TypeOK, Approves, Clarify, Answer, Routing, Routed, system,
     Tasks, Answers
<1>5. KnownInv'
  BY <1>1, RuntimeAssumption
     DEF IInv, KnownInv, TypeOK, ShutdownIsForThisRun, Living, Clarify, Answer, Routing,
     Routed, system, Tasks, Answers
<1>6. RecordInv'
  BY <1>1, RuntimeAssumption
     DEF IInv, RecordInv, RecordedIsRunning, TypeOK, KnownInv, Clarify, Answer, Routing,
     Routed, system, Tasks, Answers
<1>. QED
  BY <1>2, <1>3, <1>4, <1>5, <1>6 DEF IInv

\* A stop of another signal is refused.
LEMMA DenyStopKeeps ==
  ASSUME IInv, NEW c \in Clients, NEW s \in Signals, DenyStop(c, s)
  PROVE  IInv'
<1>1. Living' = Living /\ Alive' = Alive
  BY DEF Living, Alive, DenyStop, system
<1>2. TypeOK'
  BY <1>1, RuntimeAssumption
     DEF IInv, TypeOK, DenyStop, Answer, Routing, Routed, system, Tasks, Answers
<1>3. AnswerInv'
  BY <1>1, RuntimeAssumption
     DEF IInv, AnswerInv, TypeOK, DenyStop, Answer, Routing, Routed, system, Tasks,
     Answers
<1>4. ApprovalInv'
  BY <1>1, RuntimeAssumption
     DEF IInv, ApprovalInv, TypeOK, Approves, DenyStop, Answer, Routing, Routed, system,
     Tasks, Answers
<1>5. KnownInv'
  BY <1>1, RuntimeAssumption
     DEF IInv, KnownInv, TypeOK, ShutdownIsForThisRun, Living, DenyStop, Answer,
     Routing, Routed, system, Tasks, Answers
<1>6. RecordInv'
  BY <1>1, RuntimeAssumption
     DEF IInv, RecordInv, RecordedIsRunning, TypeOK, KnownInv, DenyStop, Answer,
     Routing, Routed, system, Tasks, Answers
<1>. QED
  BY <1>2, <1>3, <1>4, <1>5, <1>6 DEF IInv

-----------------------------------------------------------------------------
(* Starting                                                                 *)

\* A signal is selected, and start() gets the lock or waits for it.
LEMMA RouteStartKeeps ==
  ASSUME IInv, NEW c \in Clients, NEW s \in Signals, RouteStart(c, s)
  PROVE  IInv'
<1>1. Living' = Living /\ Alive' = Alive
  BY DEF Living, Alive, RouteStart, system
<1>2. /\ Refreshed \in Metadata /\ Refreshed.process = metadata.process
      /\ Refreshed.selection = metadata.selection
  BY RefreshedFacts DEF IInv
<1>3. ~Running => Living = {} /\ metadata.process \notin Alive
  BY NothingLives, RecordedIsNotAlive DEF IInv
<1>4. TypeOK'
  <2>1. LockOK'
    <3>1. LockOK /\ task[c] = "routing"
      BY DEF IInv, TypeOK, LockOK, RouteStart, Routing
    <3>2. \/ /\ lock' = "nobody" /\ lock = "nobody"
             /\ \E a \in Answers : Answer(c, a)
          \/ /\ lock' = c /\ lock = "nobody" /\ answer' = answer
             /\ task' = [task EXCEPT ![c] = "spawning"]
          \/ /\ lock' = lock /\ answer' = answer
             /\ \E p \in {"start_lock", "stop_lock"} : task' = [task EXCEPT ![c] = p]
      BY DEF RouteStart, Start, Answers
    <3>. QED
      BY <3>1, <3>2, LockMoves
  <2>2. metadata' \in Metadata /\ shutdown' \in 0..MaxProcesses
    <3>1. metadata' \in {metadata, Refreshed}
      BY DEF RouteStart, Start
    <3>2. metadata \in Metadata /\ shutdown' \in {shutdown, 0, current, metadata.process}
      BY DEF IInv, TypeOK, Metadata, RouteStart, Start
    <3>. QED
      BY <1>2, <3>1, <3>2, RuntimeAssumption DEF IInv, TypeOK, Metadata
  <2>3. /\ selected' \in Selection /\ environment' \in Selection
        /\ seen' \in [Clients -> [Signals -> 0..MaxVersions]]
    BY RuntimeAssumption
       DEF IInv, TypeOK, Selection, Routed, Routing, RouteStart, Start, MayStart
  <2>. QED
    BY <2>1, <2>2, <2>3 DEF IInv, TypeOK, LockOK, Metadata, system, RouteStart
<1>5. AnswerInv'
  BY <1>1, <1>2, <1>3, RuntimeAssumption
     DEF IInv, AnswerInv, TypeOK, RouteStart, Start, Answer, Routing, Routed, MayStart,
     system, Selection, Metadata, Tasks, Answers
<1>6. ApprovalInv'
  BY <1>1, <1>2, <1>3, RuntimeAssumption
     DEF IInv, ApprovalInv, TypeOK, Approves, RouteStart, Start, Answer, Routing,
     Routed, MayStart, system, Selection, Metadata, Tasks, Answers
<1>7. KnownInv'
  <2>1. CASE lock # "nobody" \/ Waiting # {}
    BY <1>1, <2>1, RuntimeAssumption
       DEF IInv, KnownInv, ShutdownIsForThisRun, Living, TypeOK, RouteStart, Start,
       Answer, system
  <2>2. CASE lock = "nobody" /\ Waiting = {} /\ Running
    BY <1>1, <1>2, <2>2, RuntimeAssumption
       DEF IInv, KnownInv, ShutdownIsForThisRun, Living, TypeOK, RouteStart, Start,
       Answer, system
  <2>3. CASE lock = "nobody" /\ Waiting = {} /\ ~Running
    BY <1>1, <1>2, <1>3, <2>3, RuntimeAssumption
       DEF IInv, KnownInv, ShutdownIsForThisRun, Living, TypeOK, RouteStart, Start,
       Answer, system
  <2>. QED
    BY <2>1, <2>2, <2>3
<1>8. RecordInv'
  <2>1. CASE lock # "nobody" \/ Waiting # {}
    BY <1>1, <2>1, RuntimeAssumption
       DEF IInv, RecordInv, RecordedIsRunning, KnownInv, Living, TypeOK, RouteStart,
       Start, Answer, system
  <2>2. CASE lock = "nobody" /\ Waiting = {} /\ Running
    BY <1>1, <1>2, <2>2, RuntimeAssumption
       DEF IInv, RecordInv, RecordedIsRunning, KnownInv, Living, TypeOK, RouteStart,
       Start, Answer, system
  <2>3. CASE lock = "nobody" /\ Waiting = {} /\ ~Running
    BY <1>1, <1>2, <1>3, <2>3, RuntimeAssumption
       DEF IInv, RecordInv, RecordedIsRunning, KnownInv, Living, TypeOK, RouteStart,
       Start, Answer, system
  <2>. QED
    BY <2>1, <2>2, <2>3
<1>. QED
  BY <1>4, <1>5, <1>6, <1>7, <1>8 DEF IInv

\* start() gets the lock it waited for.
LEMMA AcquireToStartKeeps ==
  ASSUME IInv, NEW c \in Clients, AcquireToStart(c)
  PROVE  IInv'
<1>1. Living' = Living /\ Alive' = Alive
  BY DEF Living, Alive, AcquireToStart, system
<1>2. /\ Refreshed \in Metadata /\ Refreshed.process = metadata.process
      /\ Refreshed.selection = metadata.selection
  BY RefreshedFacts DEF IInv
<1>3. ~Running => Living = {} /\ metadata.process \notin Alive
  BY NothingLives, RecordedIsNotAlive DEF IInv
<1>4. TypeOK'
  BY <1>1, <1>2, <1>3, RuntimeAssumption
     DEF IInv, TypeOK, AcquireToStart, Start, Answer, system, Metadata, Tasks, Answers
<1>5. AnswerInv'
  BY <1>1, <1>2, <1>3, RuntimeAssumption
     DEF IInv, AnswerInv, TypeOK, AcquireToStart, Start, Answer, system, Metadata,
     Tasks, Answers
<1>6. ApprovalInv'
  BY <1>1, <1>2, <1>3, RuntimeAssumption
     DEF IInv, ApprovalInv, TypeOK, Approves, AcquireToStart, Start, Answer, system,
     Metadata, Tasks, Answers
<1>7. KnownInv'
  BY <1>1, <1>2, <1>3, RuntimeAssumption
     DEF IInv, KnownInv, TypeOK, ShutdownIsForThisRun, Living, AcquireToStart, Start,
     Answer, system, Metadata, Tasks, Answers
<1>8. RecordInv'
  <2>1. CASE Running
    BY <1>1, <1>2, <2>1, RuntimeAssumption
       DEF IInv, RecordInv, RecordedIsRunning, TypeOK, AcquireToStart, Start, Answer,
       system
  <2>2. CASE ~Running
    BY <1>1, <1>2, <1>3, <2>2, RuntimeAssumption
       DEF IInv, RecordInv, RecordedIsRunning, TypeOK, KnownInv, Living, AcquireToStart,
       Start, system
  <2>. QED
    BY <2>1, <2>2
<1>. QED
  BY <1>4, <1>5, <1>6, <1>7, <1>8 DEF IInv

\* No process could be created.
LEMMA SpawnFailsKeeps ==
  ASSUME IInv, NEW c \in Clients, SpawnFails(c)
  PROVE  IInv'
<1>1. Living' = Living /\ Alive' = Alive
  BY DEF Living, Alive, SpawnFails, system
<1>2. TypeOK'
  BY <1>1, RuntimeAssumption
     DEF IInv, TypeOK, SpawnFails, Answer, system, Tasks, Answers
<1>3. AnswerInv'
  BY <1>1, RuntimeAssumption
     DEF IInv, AnswerInv, TypeOK, SpawnFails, Answer, system, Tasks, Answers
<1>4. ApprovalInv'
  BY <1>1, RuntimeAssumption
     DEF IInv, ApprovalInv, TypeOK, Approves, SpawnFails, Answer, system, Tasks, Answers
<1>5. KnownInv'
  BY <1>1, RuntimeAssumption
     DEF IInv, KnownInv, TypeOK, ShutdownIsForThisRun, Living, SpawnFails, Answer,
     system, Tasks, Answers
<1>6. RecordInv'
  BY <1>1, RuntimeAssumption
     DEF IInv, RecordInv, RecordedIsRunning, TypeOK, KnownInv, SpawnFails, Answer,
     system, Tasks, Answers
<1>. QED
  BY <1>2, <1>3, <1>4, <1>5, <1>6 DEF IInv

-----------------------------------------------------------------------------
(* Stopping                                                                 *)

\* stop() gets the lock or waits for it.
LEMMA RouteStopKeeps ==
  ASSUME IInv, NEW c \in Clients, RouteStop(c)
  PROVE  IInv'
<1>1. Living' = Living /\ Alive' = Alive
  BY DEF Living, Alive, RouteStop, system
<1>2. /\ Refreshed \in Metadata /\ Refreshed.process = metadata.process
      /\ Refreshed.selection = metadata.selection
  BY RefreshedFacts DEF IInv
<1>3. ~Running => Living = {} /\ metadata.process \notin Alive
  BY NothingLives, RecordedIsNotAlive DEF IInv
<1>4. TypeOK'
  <2>1. LockOK'
    <3>1. LockOK /\ task[c] = "routing"
      BY DEF IInv, TypeOK, LockOK, RouteStop, Routing
    <3>2. \/ /\ lock' = "nobody" /\ lock = "nobody"
             /\ \E a \in Answers : Answer(c, a)
          \/ /\ lock' = c /\ lock = "nobody" /\ answer' = answer
             /\ task' = [task EXCEPT ![c] = "stopping"]
          \/ /\ lock' = lock /\ answer' = answer
             /\ \E p \in {"start_lock", "stop_lock"} : task' = [task EXCEPT ![c] = p]
      BY DEF RouteStop, Stop, Answers
    <3>. QED
      BY <3>1, <3>2, LockMoves
  <2>2. metadata' \in Metadata /\ shutdown' \in 0..MaxProcesses
    <3>1. metadata' \in {metadata, Refreshed}
      BY DEF RouteStop, Stop
    <3>2. metadata \in Metadata /\ shutdown' \in {shutdown, 0, current, metadata.process}
      BY DEF IInv, TypeOK, Metadata, RouteStop, Stop
    <3>. QED
      BY <1>2, <3>1, <3>2, RuntimeAssumption DEF IInv, TypeOK, Metadata
  <2>3. /\ selected' \in Selection /\ environment' \in Selection
        /\ seen' \in [Clients -> [Signals -> 0..MaxVersions]]
    BY RuntimeAssumption DEF IInv, TypeOK, Selection, Routed, Routing, RouteStop, Stop
  <2>. QED
    BY <2>1, <2>2, <2>3 DEF IInv, TypeOK, LockOK, Metadata, system, RouteStop
<1>5. AnswerInv'
  BY <1>1, <1>2, <1>3, RuntimeAssumption
     DEF IInv, AnswerInv, TypeOK, RouteStop, Stop, Answer, Routing, Routed, system,
     Metadata, Tasks, Answers
<1>6. ApprovalInv'
  BY <1>1, <1>2, <1>3, RuntimeAssumption
     DEF IInv, ApprovalInv, TypeOK, Approves, RouteStop, Stop, Answer, Routing, Routed,
     system, Metadata, Tasks, Answers
<1>7. KnownInv'
  BY <1>1, <1>2, <1>3, RuntimeAssumption
     DEF IInv, KnownInv, TypeOK, ShutdownIsForThisRun, Living, RouteStop, Stop, Answer,
     Routing, Routed, system, Metadata, Tasks, Answers
<1>8. RecordInv'
  BY <1>1, <1>2, <1>3, RuntimeAssumption
     DEF IInv, RecordInv, RecordedIsRunning, TypeOK, KnownInv, RouteStop, Stop, Answer,
     Routing, Routed, system, Metadata, Tasks, Answers
<1>. QED
  BY <1>4, <1>5, <1>6, <1>7, <1>8 DEF IInv

\* stop() gets the lock it waited for.
LEMMA AcquireToStopKeeps ==
  ASSUME IInv, NEW c \in Clients, AcquireToStop(c)
  PROVE  IInv'
<1>1. Living' = Living /\ Alive' = Alive
  BY DEF Living, Alive, AcquireToStop, system
<1>2. /\ Refreshed \in Metadata /\ Refreshed.process = metadata.process
      /\ Refreshed.selection = metadata.selection
  BY RefreshedFacts DEF IInv
<1>3. ~Running => Living = {} /\ metadata.process \notin Alive
  BY NothingLives, RecordedIsNotAlive DEF IInv
<1>4. TypeOK'
  BY <1>1, <1>2, <1>3, RuntimeAssumption
     DEF IInv, TypeOK, AcquireToStop, Stop, Answer, system, Metadata, Tasks, Answers
<1>5. AnswerInv'
  BY <1>1, <1>2, <1>3, RuntimeAssumption
     DEF IInv, AnswerInv, TypeOK, AcquireToStop, Stop, Answer, system, Metadata, Tasks,
     Answers
<1>6. ApprovalInv'
  BY <1>1, <1>2, <1>3, RuntimeAssumption
     DEF IInv, ApprovalInv, TypeOK, Approves, AcquireToStop, Stop, Answer, system,
     Metadata, Tasks, Answers
<1>7. KnownInv'
  BY <1>1, <1>2, <1>3, RuntimeAssumption
     DEF IInv, KnownInv, TypeOK, ShutdownIsForThisRun, Living, AcquireToStop, Stop,
     Answer, system, Metadata, Tasks, Answers
<1>8. RecordInv'
  BY <1>1, <1>2, <1>3, RuntimeAssumption
     DEF IInv, RecordInv, RecordedIsRunning, TypeOK, KnownInv, AcquireToStop, Stop,
     Answer, system, Metadata, Tasks, Answers
<1>. QED
  BY <1>4, <1>5, <1>6, <1>7, <1>8 DEF IInv

\* The runtime has ended.
LEMMA StopReturnsKeeps ==
  ASSUME IInv, NEW c \in Clients, StopReturns(c)
  PROVE  IInv'
<1>1. Living' = Living /\ Alive' = Alive
  BY DEF Living, Alive, StopReturns, system
<1>2. /\ Refreshed \in Metadata /\ Refreshed.process = metadata.process
      /\ Refreshed.selection = metadata.selection
  BY RefreshedFacts DEF IInv
<1>3. TypeOK'
  BY <1>1, <1>2, RuntimeAssumption
     DEF IInv, TypeOK, StopReturns, Answer, system, Metadata, Tasks, Answers
<1>4. AnswerInv'
  BY <1>1, <1>2, RuntimeAssumption
     DEF IInv, AnswerInv, TypeOK, StopReturns, Answer, system, Metadata, Tasks, Answers
<1>5. ApprovalInv'
  BY <1>1, <1>2, RuntimeAssumption
     DEF IInv, ApprovalInv, TypeOK, Approves, StopReturns, Answer, system, Metadata,
     Tasks, Answers
<1>6. KnownInv'
  BY <1>1, <1>2, RuntimeAssumption
     DEF IInv, KnownInv, TypeOK, ShutdownIsForThisRun, Living, StopReturns, Answer,
     system, Metadata, Tasks, Answers
<1>7. RecordInv'
  BY <1>1, <1>2, RuntimeAssumption
     DEF IInv, RecordInv, RecordedIsRunning, TypeOK, KnownInv, StopReturns, Answer,
     system, Metadata, Tasks, Answers
<1>. QED
  BY <1>3, <1>4, <1>5, <1>6, <1>7 DEF IInv

\* The runtime has not ended in time.
LEMMA StopTimesOutKeeps ==
  ASSUME IInv, NEW c \in Clients, StopTimesOut(c)
  PROVE  IInv'
<1>1. Living' = Living /\ Alive' = Alive
  BY DEF Living, Alive, StopTimesOut, system
<1>2. TypeOK'
  BY <1>1, RuntimeAssumption
     DEF IInv, TypeOK, StopTimesOut, Answer, system, Tasks, Answers
<1>3. AnswerInv'
  BY <1>1, RuntimeAssumption
     DEF IInv, AnswerInv, TypeOK, StopTimesOut, Answer, system, Tasks, Answers
<1>4. ApprovalInv'
  BY <1>1, RuntimeAssumption
     DEF IInv, ApprovalInv, TypeOK, Approves, StopTimesOut, Answer, system, Tasks,
     Answers
<1>5. KnownInv'
  BY <1>1, RuntimeAssumption
     DEF IInv, KnownInv, TypeOK, ShutdownIsForThisRun, Living, StopTimesOut, Answer,
     system, Tasks, Answers
<1>6. RecordInv'
  BY <1>1, RuntimeAssumption
     DEF IInv, RecordInv, RecordedIsRunning, TypeOK, KnownInv, StopTimesOut, Answer,
     system, Tasks, Answers
<1>. QED
  BY <1>2, <1>3, <1>4, <1>5, <1>6 DEF IInv

-----------------------------------------------------------------------------
(* Processes and restarts                                                   *)

\* The process exists and is recorded.
LEMMA SpawnedKeeps ==
  ASSUME IInv, NEW c \in Clients, Spawned(c)
  PROVE  IInv'
<1>1. PICK n \in Processes, p \in Pids :
        /\ process[n].state = "none"
        /\ process' = [process EXCEPT ![n] =
                         [state |-> "alive", pid |-> p, selection |-> environment]]
        /\ current' = n /\ waiters' = waiters \cup {n}
        /\ metadata' = [state |-> "running", process |-> n, selection |-> selected]
  BY DEF Spawned, FreePids
<1>2. /\ task[c] = "spawning" /\ lock = c /\ Living = {} /\ shutdown = 0 /\ n \notin orphans
      /\ n \notin noticed
  BY <1>1 DEF IInv, TypeOK, KnownInv, Spawned
<1>3. /\ lock' = "nobody" /\ Answer(c, "started")
      /\ UNCHANGED <<up, approved, seen, selected, noticed, environment, reselected,
                     shutdown, foreign, orphans>>
  BY DEF Spawned
<1>4. process' \in [Processes -> ProcessRecord]
  BY <1>1 DEF IInv, TypeOK, ProcessRecord
<1>5. /\ \A m \in Processes : m # n => process'[m] = process[m]
      /\ process'[n] = [state |-> "alive", pid |-> p, selection |-> environment]
  BY <1>1 DEF IInv, TypeOK
<1>6. Alive' = Alive \cup {n} /\ Living' = {n}
  BY <1>1, <1>2, <1>3, <1>5 DEF Alive, Living
<1>7. TypeOK'
  <2>1. LockOK'
    BY <1>2, <1>3, RuntimeAssumption DEF IInv, TypeOK, LockOK, Answer, Tasks, Answers
  <2>. QED
    BY <1>1, <1>3, <1>4, <2>1 DEF IInv, TypeOK, LockOK, Processes, ProcessRecord
<1>8. AnswerInv'
  BY <1>2, <1>3 DEF IInv, TypeOK, AnswerInv, Answer
<1>9. ApprovalInv'
  BY <1>1, <1>2, <1>3, <1>5 DEF IInv, TypeOK, ApprovalInv, Approves, Answer
<1>10. KnownInv'
  BY <1>1, <1>2, <1>3, <1>5, <1>6, RuntimeAssumption
     DEF IInv, TypeOK, KnownInv, ShutdownIsForThisRun, Living, Answer
<1>11. RecordInv'
  <2>1. RecordedIsRunning'
    BY <1>1, <1>2, <1>3, <1>5, <1>6 DEF IInv, RecordInv, RecordedIsRunning
  <2>2. \A d \in Clients : task'[d] # "spawning"
    BY <1>2, <1>3 DEF IInv, TypeOK, Answer
  <2>3. up'
    BY DEF Spawned
  <2>. QED
    BY <2>1, <2>2, <2>3 DEF RecordInv
<1>. QED
  BY <1>7, <1>8, <1>9, <1>10, <1>11 DEF IInv

\* A runtime ends.
LEMMA ProcessExitsKeeps ==
  ASSUME IInv, NEW n \in Processes, ProcessExits(n)
  PROVE  IInv'
<1>1. /\ process' \in [Processes -> ProcessRecord] /\ process[n].state = "alive"
      /\ \A m \in Processes : m # n => process'[m] = process[m]
      /\ process'[n].state = "exited" /\ process'[n].selection = process[n].selection
  BY DEF IInv, TypeOK, ProcessExits, ProcessRecord
<1>2. Alive' = Alive \ {n} /\ Living' = Living \ {n}
  BY <1>1 DEF Alive, Living, ProcessExits
<1>3. TypeOK'
  BY <1>1, <1>2, RuntimeAssumption DEF IInv, TypeOK, ProcessExits, memory, ProcessRecord
<1>4. AnswerInv'
  BY <1>1, <1>2, RuntimeAssumption DEF IInv, AnswerInv, TypeOK, ProcessExits, memory
<1>5. ApprovalInv'
  BY <1>1, <1>2, RuntimeAssumption
     DEF IInv, ApprovalInv, TypeOK, Approves, ProcessExits, memory
<1>6. KnownInv'
  <2>1. \A m \in Processes : process[m].state = "exited" => m # n
    BY <1>1
  <2>. QED
    BY <1>1, <1>2, <2>1
       DEF IInv, KnownInv, TypeOK, ShutdownIsForThisRun, Living, ProcessExits, memory
<1>7. RecordInv'
  BY <1>1, <1>2, RuntimeAssumption
     DEF IInv, RecordInv, RecordedIsRunning, TypeOK, KnownInv, ProcessExits, memory
<1>. QED
  BY <1>3, <1>4, <1>5, <1>6, <1>7 DEF IInv

\* The event loop learns of an exit.
LEMMA NoticeExitKeeps ==
  ASSUME IInv, NEW n \in Processes, NoticeExit(n)
  PROVE  IInv'
<1>1. Living' = Living /\ Alive' = Alive
  BY DEF Living, Alive, NoticeExit, system
<1>2. TypeOK'
  BY <1>1, RuntimeAssumption DEF IInv, TypeOK, NoticeExit, system
<1>3. AnswerInv'
  BY <1>1, RuntimeAssumption DEF IInv, AnswerInv, TypeOK, NoticeExit, system
<1>4. ApprovalInv'
  BY <1>1, RuntimeAssumption DEF IInv, ApprovalInv, TypeOK, Approves, NoticeExit, system
<1>5. KnownInv'
  BY <1>1, RuntimeAssumption
     DEF IInv, KnownInv, TypeOK, ShutdownIsForThisRun, Living, NoticeExit, system
<1>6. RecordInv'
  BY <1>1, RuntimeAssumption
     DEF IInv, RecordInv, RecordedIsRunning, TypeOK, KnownInv, NoticeExit, system
<1>. QED
  BY <1>2, <1>3, <1>4, <1>5, <1>6 DEF IInv

\* The waiter of a process marks the record.
LEMMA WatchProcessKeeps ==
  ASSUME IInv, NEW n \in Processes, WatchProcess(n)
  PROVE  IInv'
<1>1. Living' = Living /\ Alive' = Alive
  BY DEF Living, Alive, WatchProcess, system
<1>2. TypeOK'
  BY <1>1, RuntimeAssumption DEF IInv, TypeOK, WatchProcess, system
<1>3. AnswerInv'
  BY <1>1, RuntimeAssumption DEF IInv, AnswerInv, TypeOK, WatchProcess, system
<1>4. ApprovalInv'
  BY <1>1, RuntimeAssumption
     DEF IInv, ApprovalInv, TypeOK, Approves, WatchProcess, system
<1>5. KnownInv'
  BY <1>1, RuntimeAssumption
     DEF IInv, KnownInv, TypeOK, ShutdownIsForThisRun, Living, WatchProcess, system
<1>6. RecordInv'
  BY <1>1, RuntimeAssumption
     DEF IInv, RecordInv, RecordedIsRunning, TypeOK, KnownInv, WatchProcess, system
<1>. QED
  BY <1>2, <1>3, <1>4, <1>5, <1>6 DEF IInv

\* Another program gets a process id.
LEMMA ForeignStartsKeeps ==
  ASSUME IInv, NEW p \in Pids, ForeignStarts(p)
  PROVE  IInv'
<1>1. Living' = Living /\ Alive' = Alive
  BY DEF Living, Alive, ForeignStarts
<1>2. TypeOK'
  BY <1>1, RuntimeAssumption DEF IInv, TypeOK, ForeignStarts, memory
<1>3. AnswerInv'
  BY <1>1, RuntimeAssumption DEF IInv, AnswerInv, TypeOK, ForeignStarts, memory
<1>4. ApprovalInv'
  BY <1>1, RuntimeAssumption
     DEF IInv, ApprovalInv, TypeOK, Approves, ForeignStarts, memory
<1>5. KnownInv'
  BY <1>1, RuntimeAssumption
     DEF IInv, KnownInv, TypeOK, ShutdownIsForThisRun, Living, ForeignStarts, memory
<1>6. RecordInv'
  BY <1>1, RuntimeAssumption
     DEF IInv, RecordInv, RecordedIsRunning, TypeOK, KnownInv, ForeignStarts, memory
<1>. QED
  BY <1>2, <1>3, <1>4, <1>5, <1>6 DEF IInv

\* A version is approved for live use.
LEMMA ApproveKeeps ==
  ASSUME IInv, NEW s \in Signals, Approve(s)
  PROVE  IInv'
<1>1. Living' = Living /\ Alive' = Alive
  BY DEF Living, Alive, Approve, system
<1>2. TypeOK'
  BY <1>1, RuntimeAssumption DEF IInv, TypeOK, Approve, memory, system
<1>3. AnswerInv'
  BY <1>1, RuntimeAssumption DEF IInv, AnswerInv, TypeOK, Approve, memory, system
<1>4. ApprovalInv'
  BY <1>1, RuntimeAssumption
     DEF IInv, ApprovalInv, TypeOK, Approves, Approve, memory, system
<1>5. KnownInv'
  BY <1>1, RuntimeAssumption
     DEF IInv, KnownInv, TypeOK, ShutdownIsForThisRun, Living, Approve, memory, system
<1>6. RecordInv'
  BY <1>1, RuntimeAssumption
     DEF IInv, RecordInv, RecordedIsRunning, TypeOK, KnownInv, Approve, memory, system
<1>. QED
  BY <1>2, <1>3, <1>4, <1>5, <1>6 DEF IInv

\* The Gateway closes.
LEMMA GatewayClosesKeeps ==
  ASSUME IInv, GatewayCloses
  PROVE  IInv'
<1>1. Living' = Living /\ Alive' = Alive
  BY DEF Living, Alive, GatewayCloses, Forget
<1>2. TypeOK'
  <2>1. Forget /\ UNCHANGED <<process, orphans>>
    BY DEF GatewayCloses
  <2>2. Forgotten'
    BY <2>1, ForgetTypes DEF IInv
  <2>. QED
    BY <2>1, <2>2 DEF IInv, TypeOK, Forgotten, LockOK, Forget
<1>3. AnswerInv'
  BY <1>1, RuntimeAssumption
     DEF IInv, AnswerInv, TypeOK, GatewayCloses, Forget, NoSelection, Selection, Tasks,
     Answers
<1>4. ApprovalInv'
  BY <1>1, RuntimeAssumption
     DEF IInv, ApprovalInv, TypeOK, Approves, GatewayCloses, Forget, NoSelection,
     Selection, Tasks, Answers
<1>5. KnownInv'
  BY <1>1, RuntimeAssumption
     DEF IInv, KnownInv, TypeOK, ShutdownIsForThisRun, Living, GatewayCloses, Forget,
     NoSelection, Selection, Tasks, Answers
<1>6. RecordInv'
  BY <1>1, RuntimeAssumption
     DEF IInv, RecordInv, RecordedIsRunning, TypeOK, KnownInv, GatewayCloses, Forget,
     NoSelection, Selection, Tasks, Answers
<1>. QED
  BY <1>2, <1>3, <1>4, <1>5, <1>6 DEF IInv

\* The Gateway dies and leaves a process that no record mentions.
LEMMA GatewayCrashesKeeps ==
  ASSUME IInv, NEW c \in Clients, NEW n \in Processes, GatewayCrashes(c, n)
  PROVE  IInv'
<1>1. PICK p \in Pids :
        process' = [process EXCEPT ![n] =
                      [state |-> "alive", pid |-> p, selection |-> environment]]
  BY DEF GatewayCrashes, FreePids
<1>2. /\ Forget /\ orphans' = orphans \cup {n} /\ process[n].state = "none"
      /\ task[c] = "spawning"
  BY DEF GatewayCrashes
<1>3. process' \in [Processes -> ProcessRecord]
  BY <1>1 DEF IInv, TypeOK, ProcessRecord
<1>4. /\ \A m \in Processes : m # n => process'[m] = process[m]
      /\ process'[n] = [state |-> "alive", pid |-> p, selection |-> environment]
  BY <1>1 DEF IInv, TypeOK
<1>5. Living = {} /\ Living' = {}
  BY <1>2, <1>4 DEF IInv, KnownInv, Alive, Living
<1>6. TypeOK'
  <2>1. Forgotten'
    BY <1>2, ForgetTypes DEF IInv
  <2>. QED
    BY <1>2, <1>3, <2>1 DEF IInv, TypeOK, Forgotten, LockOK, Forget, ProcessRecord
<1>7. AnswerInv'
  BY <1>2 DEF AnswerInv, Forget
<1>8. ApprovalInv'
  <2>1. /\ approved' = approved /\ Approves(environment)
        /\ \A d \in Clients : task'[d] = "idle"
        /\ \A d \in Clients, s \in Signals : seen'[d][s] = 0
    BY <1>2 DEF IInv, ApprovalInv, Forget
  <2>2. \A m \in Processes : process'[m].state # "none" => Approves(process'[m].selection)
    BY <1>4, <2>1 DEF IInv, ApprovalInv
  <2>3. \A d \in Clients, s \in Signals : seen'[d][s] <= approved'[s]
    BY <2>1 DEF IInv, TypeOK
  <2>. QED
    BY <2>1, <2>2, <2>3 DEF ApprovalInv, Approves
<1>9. KnownInv'
  <2>1. /\ metadata' = metadata /\ noticed' = {} /\ shutdown' = shutdown
        /\ \A d \in Clients : task'[d] = "idle"
    BY <1>2 DEF Forget
  <2>2. Alive' \ orphans' = {}
    BY <1>5 DEF Living
  <2>. QED
    <3>1. \A m \in orphans' : process'[m].state # "none"
      BY <1>2, <1>4 DEF IInv, TypeOK, KnownInv
    <3>2. metadata.process # 0 => /\ metadata.process \in Processes /\ metadata.process # n
                                  /\ metadata.process \notin orphans
                                  /\ process[metadata.process].state # "none"
      BY <1>2 DEF IInv, TypeOK, KnownInv, Processes
    <3>. QED
      BY <1>2, <1>4, <1>5, <2>1, <2>2, <3>1, <3>2 DEF KnownInv, ShutdownIsForThisRun
<1>10. RecordInv'
  <2>1. current' = 0 /\ \A d \in Clients : task'[d] = "idle"
    BY <1>2 DEF Forget
  <2>. QED
    BY <2>1 DEF RecordInv, RecordedIsRunning, Alive, Processes
<1>. QED
  BY <1>6, <1>7, <1>8, <1>9, <1>10 DEF IInv

\* The Gateway starts again.
LEMMA GatewayStartsKeeps ==
  ASSUME IInv, GatewayStarts
  PROVE  IInv'
<1>1. Living' = Living /\ Alive' = Alive
  BY DEF Living, Alive, GatewayStarts, system
<1>2. TypeOK'
  BY <1>1, RuntimeAssumption DEF IInv, TypeOK, GatewayStarts, memory, system
<1>3. AnswerInv'
  BY <1>1, RuntimeAssumption DEF IInv, AnswerInv, TypeOK, GatewayStarts, memory, system
<1>4. ApprovalInv'
  BY <1>1, RuntimeAssumption
     DEF IInv, ApprovalInv, TypeOK, Approves, GatewayStarts, memory, system
<1>5. KnownInv'
  BY <1>1, RuntimeAssumption
     DEF IInv, KnownInv, TypeOK, ShutdownIsForThisRun, Living, GatewayStarts, memory,
     system
<1>6. RecordInv'
  <2>1. current' = 0 /\ \A n \in Alive' : n # 0
    BY RuntimeAssumption DEF IInv, RecordInv, GatewayStarts, memory, Alive, Processes
  <2>2. task' = task /\ reselected' = reselected /\ selected' = selected
        /\ environment' = environment /\ up'
    BY DEF GatewayStarts, memory
  <2>. QED
    BY <2>1, <2>2 DEF IInv, RecordInv, RecordedIsRunning
<1>. QED
  BY <1>2, <1>3, <1>4, <1>5, <1>6 DEF IInv

-----------------------------------------------------------------------------
\* A Gateway that never ran knows of nothing, and nothing lives.
LEMMA InitEstablishes == Init => IInv
<1>. SUFFICES ASSUME Init PROVE IInv
  OBVIOUS
<1>1. NoSelection \in Selection /\ NoMetadata \in Metadata
  BY RuntimeAssumption DEF NoSelection, Selection, NoMetadata, Metadata
<1>2. process \in [Processes -> ProcessRecord]
  <2>1. (CHOOSE p \in Pids : TRUE) \in Pids
    BY RuntimeAssumption
  <2>. QED
    BY <1>1, <2>1 DEF Init, ProcessRecord
<1>3. \A n \in Processes : process[n].state = "none"
  BY DEF Init
<1>4. Alive = {} /\ Living = {}
  BY <1>3 DEF Alive, Living
<1>5. TypeOK
  BY <1>1, <1>2, RuntimeAssumption
     DEF Init, TypeOK, Metadata, ProcessRecord, Tasks, Answers, Processes
<1>6. AnswerInv /\ ApprovalInv
  BY <1>3, RuntimeAssumption DEF Init, AnswerInv, ApprovalInv
<1>7. KnownInv
  BY <1>4 DEF Init, KnownInv, ShutdownIsForThisRun, NoMetadata, Living
<1>8. RecordInv
  BY <1>4 DEF Init, RecordInv, RecordedIsRunning
<1>. QED
  BY <1>5, <1>6, <1>7, <1>8 DEF IInv

LEMMA StutterKeeps ==
  ASSUME IInv, UNCHANGED vars
  PROVE  IInv'
<1>1. Living' = Living /\ Alive' = Alive
  BY DEF Living, Alive, vars, system
<1>2. TypeOK'
  BY DEF IInv, TypeOK, vars, memory, system
<1>3. AnswerInv' /\ ApprovalInv'
  BY DEF IInv, AnswerInv, ApprovalInv, Approves, vars, memory, system
<1>4. KnownInv'
  BY <1>1 DEF IInv, KnownInv, ShutdownIsForThisRun, Living, vars, memory, system
<1>5. RecordInv'
  BY <1>1 DEF IInv, RecordInv, RecordedIsRunning, vars, memory, system
<1>. QED
  BY <1>2, <1>3, <1>4, <1>5 DEF IInv

LEMMA NextKeeps == IInv /\ [Next]_vars => IInv'
<1>. SUFFICES ASSUME IInv, [Next]_vars PROVE IInv'
  OBVIOUS
<1>1. CASE PollStatus \/ GatewayCloses \/ GatewayStarts
  BY <1>1, PollStatusKeeps, GatewayClosesKeeps, GatewayStartsKeeps
<1>2. ASSUME NEW c \in Clients,
             \/ ReadState(c) \/ AcquireToStart(c) \/ Spawned(c) \/ SpawnFails(c)
             \/ RouteStop(c) \/ AcquireToStop(c) \/ StopReturns(c) \/ StopTimesOut(c)
             \/ Clarify(c)
      PROVE  IInv'
  BY <1>2, ReadStateKeeps, AcquireToStartKeeps, SpawnedKeeps, SpawnFailsKeeps,
     RouteStopKeeps, AcquireToStopKeeps, StopReturnsKeeps, StopTimesOutKeeps,
     ClarifyKeeps
<1>3. ASSUME NEW c \in Clients, NEW s \in Signals,
             DenyStart(c, s) \/ RouteStart(c, s) \/ DenyStop(c, s)
      PROVE  IInv'
  BY <1>3, DenyStartKeeps, RouteStartKeeps, DenyStopKeeps
<1>4. ASSUME NEW c \in Clients, NEW n \in Processes, GatewayCrashes(c, n)
      PROVE  IInv'
  BY <1>4, GatewayCrashesKeeps
<1>5. ASSUME NEW n \in Processes, ProcessExits(n) \/ NoticeExit(n) \/ WatchProcess(n)
      PROVE  IInv'
  BY <1>5, ProcessExitsKeeps, NoticeExitKeeps, WatchProcessKeeps
<1>6. ASSUME NEW p \in Pids, ForeignStarts(p)
      PROVE  IInv'
  BY <1>6, ForeignStartsKeeps
<1>7. ASSUME NEW s \in Signals, Approve(s)
      PROVE  IInv'
  BY <1>7, ApproveKeeps
<1>8. CASE UNCHANGED vars
  BY <1>8, StutterKeeps
<1>. QED
  BY <1>1, <1>2, <1>3, <1>4, <1>5, <1>6, <1>7, <1>8 DEF Next

LEMMA IInvSuffices == IInv => OneKnownRuntime /\ ShutdownIsForThisRun
<1>. SUFFICES ASSUME IInv PROVE OneKnownRuntime /\ ShutdownIsForThisRun
  OBVIOUS
<1>1. OneRuntime
  BY DEF IInv, KnownInv, OneRuntime, Living
<1>2. StatusIsTrue
  <2>1. ASSUME current = 0, Running
        PROVE  metadata.process \in Alive
    BY <2>1 DEF Running, PersistedIsRunning
  <2>. QED
    BY <2>1, LivingRuns DEF IInv, StatusIsTrue, Living
<1>3. StartedWasApproved
  BY RuntimeAssumption DEF IInv, ApprovalInv, Approves, StartedWasApproved
<1>. QED
  BY <1>1, <1>2, <1>3 DEF IInv, RecordInv, KnownInv, OneKnownRuntime

\* Whatever messages are handled at the same time, and whenever the Gateway
\* closes, crashes or the system uses a process id again: the controller never
\* runs a second runtime beside one that lives, never takes another program for
\* it or loses sight of it, runs only what was approved for live use, and its
\* record names the signal that runs.
THEOREM OneKnownRuntimeHolds == Spec => []OneKnownRuntime
<1>. QED
  BY InitEstablishes, NextKeeps, IInvSuffices, PTL DEF Spec

\* stop() answers "stopped" to the task that waits in it only at the end of its
\* polling, when the recorded runtime has exited; and nothing else lives.
LEMMA StoppedOnlyWhenExited ==
  ASSUME IInv, [Next]_vars, NEW c \in Clients, task[c] = "stopping",
         answer'[c] = "stopped"
  PROVE  Alive' \subseteq orphans'
<1>1. answer[c] = "none" /\ task \in [Clients -> Tasks] /\ answer \in [Clients -> Answers]
  BY DEF IInv, AnswerInv, TypeOK
<1>2. StopReturns(c)
  <2>1. answer' # answer
    BY <1>1
  <2>2. ~ (PollStatus \/ GatewayCloses \/ GatewayStarts \/ UNCHANGED vars)
    BY <2>1 DEF PollStatus, GatewayCloses, Forget, GatewayStarts, memory, vars
  <2>3. \A n \in Processes : ~ (ProcessExits(n) \/ NoticeExit(n) \/ WatchProcess(n))
    BY <2>1 DEF ProcessExits, NoticeExit, WatchProcess, memory
  <2>4. \A p \in Pids : ~ ForeignStarts(p)
    BY <2>1 DEF ForeignStarts, memory
  <2>5. \A s \in Signals : ~ Approve(s)
    BY <2>1 DEF Approve, memory
  <2>6. \A d \in Clients, n \in Processes : ~ GatewayCrashes(d, n)
    BY <2>1 DEF GatewayCrashes, Forget
  <2>7. \A d \in Clients \ {c} : \A a : ~ (answer' = [answer EXCEPT ![d] = a])
    BY <1>1
  <2>8. \A d \in Clients, s \in Signals : ~ (DenyStart(d, s) \/ DenyStop(d, s))
    BY <1>1, <2>7 DEF DenyStart, DenyStop, Clarify, Routing, Answer
  <2>9. \A d \in Clients : ~ Clarify(d)
    BY <1>1, <2>7 DEF Clarify, Routing, Answer
  <2>10. \A d \in Clients, s \in Signals : ~ RouteStart(d, s)
    BY <1>1, <2>1, <2>7 DEF RouteStart, Routing, Start, Answer
  <2>11. \A d \in Clients : ~ (ReadState(d) \/ AcquireToStart(d) \/ Spawned(d) \/ SpawnFails(d))
    BY <1>1, <2>1, <2>7
       DEF ReadState, AcquireToStart, Start, Spawned, SpawnFails, Answer
  <2>12. \A d \in Clients : ~ (RouteStop(d) \/ AcquireToStop(d))
    BY <1>1, <2>1, <2>7 DEF RouteStop, AcquireToStop, Routing, Stop, Answer
  <2>13. \A d \in Clients : ~ StopTimesOut(d)
    BY <1>1, <2>7 DEF StopTimesOut, Answer
  <2>14. \A d \in Clients : StopReturns(d) => d = c
    BY <2>7 DEF StopReturns, Answer
  <2>. QED
    BY <2>2, <2>3, <2>4, <2>5, <2>6, <2>8, <2>9, <2>10, <2>11, <2>12, <2>13, <2>14
       DEF Next
<1>3. Living = {}
  BY <1>2, NothingLives DEF StopReturns, IInv
<1>. QED
  BY <1>2, <1>3 DEF StopReturns, system, Living, Alive

\* A shutdown file that an earlier stop() left never ends a later runtime, and
\* stop() says "stopped" only once no recorded runtime lives.
THEOREM StopsAsMeantHolds == Spec => StopsAsMeant
<1>1. IInv /\ [Next]_vars =>
        [\A c \in Clients : task[c] = "stopping" /\ answer'[c] = "stopped" =>
           Alive' \subseteq orphans']_vars
  BY StoppedOnlyWhenExited
<1>. QED
  BY <1>1, InitEstablishes, NextKeeps, IInvSuffices, PTL
     DEF Spec, StopsAsMeant, StoppedMeansExited
=============================================================================
