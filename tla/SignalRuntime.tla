---------------------------- MODULE SignalRuntime ----------------------------
(* SignalRuntimeController: the one advisory runtime process that a Gateway  *)
(* starts, stops through a shutdown file, and finds again after a restart by *)
(* its recorded process id and birth marker; and the manager messages that   *)
(* start and stop it.                                                        *)
(*                                                                           *)
(* A message is handled by a task of its own.  Tasks interleave at awaits:   *)
(* while the manager router thinks, while the controller's lock is held,     *)
(* while the process factory works and while stop() polls.  A process number *)
(* stands for its birth marker; process ids are used again by the system.    *)
EXTENDS Integers, FiniteSets

CONSTANTS
  Clients,        \* manager messages handled at the same time
  Signals,        \* ids of Signal Definitions
  Pids,           \* process ids of the operating system
  MaxProcesses, MaxVersions, MaxMessages, MaxFaults    \* bounds

ASSUME RuntimeAssumption ==
  /\ IsFiniteSet(Clients) /\ "nobody" \notin Clients
  /\ "none" \notin Signals /\ Pids # {}
  /\ MaxProcesses \in Nat \ {0} /\ MaxVersions \in Nat \ {0}
  /\ MaxMessages \in Nat /\ MaxFaults \in Nat

VARIABLES
  up,           \* the Gateway process runs
  approved,     \* live-approved version of each signal, 0 for none
  task,         \* where the handler of each message is
  seen,         \* the approvals each handler read
  answer,       \* what each handler answered last
  lock,         \* holder of _lock
  selected,     \* _selected_signal, _selected_version
  current,      \* _process, 0 for None
  noticed,      \* processes of this Gateway whose returncode is set
  waiters,      \* processes a _watch_process task waits for
  environment,  \* the environment given to the process factory
  metadata,     \* signal-runtime.json
  shutdown,     \* signal-runtime.shutdown: the process it is for, 0 if absent
  process,      \* runtime processes of the operating system
  foreign,      \* process ids other programs use
  orphans,      \* history: processes whose Gateway crashed before recording them
  reselected,   \* history: selections made while the process was being created
  messages, faults

memory == <<task, seen, answer, lock, selected, current, noticed, waiters, environment, reselected>>
system == <<process, foreign, orphans>>
vars == <<up, approved, memory, metadata, shutdown, system, messages, faults>>

-----------------------------------------------------------------------------
Processes == 1..MaxProcesses
Selection == [signal : Signals \cup {"none"}, version : 0..MaxVersions]
NoSelection == [signal |-> "none", version |-> 0]
NoMetadata == [state |-> "none", process |-> 0, selection |-> NoSelection]
Tasks == {"idle", "routing", "start_lock", "stop_lock", "spawning", "stopping"}
Answers == {"none", "started", "failed", "denied", "stopped", "timeout"}

Init ==
  /\ up = TRUE /\ approved = [s \in Signals |-> 0]
  /\ task = [c \in Clients |-> "idle"] /\ answer = [c \in Clients |-> "none"]
  /\ seen = [c \in Clients |-> [s \in Signals |-> 0]]
  /\ lock = "nobody" /\ selected = NoSelection /\ current = 0
  /\ noticed = {} /\ waiters = {} /\ environment = NoSelection
  /\ metadata = NoMetadata /\ shutdown = 0
  /\ process = [n \in Processes |-> [state |-> "none", pid |-> CHOOSE p \in Pids : TRUE,
                                     selection |-> NoSelection]]
  /\ foreign = {} /\ orphans = {} /\ reselected = FALSE
  /\ messages = 0 /\ faults = 0

Alive == {n \in Processes : process[n].state = "alive"}
FreePids == Pids \ (foreign \cup {process[n].pid : n \in Alive})
Waiting == {c \in Clients : task[c] \in {"start_lock", "stop_lock"}}

-----------------------------------------------------------------------------
(* status                                                                   *)

\* Mutant: any process with the recorded id is taken for the runtime.
PersistedPidIsRunning(n) == n # 0 /\ process[n].pid \notin FreePids

\* _persisted_process_is_running: the id is in use and its birth marker agrees.
PersistedIsRunning(n) ==
  /\ n # 0 /\ process[n].pid \notin FreePids
  /\ \E m \in Alive : process[m].pid = process[n].pid /\ m = n

\* While the Gateway has a process of its own, only that one counts.
Running == IF current # 0 THEN current \notin noticed ELSE PersistedIsRunning(metadata.process)

\* status() also corrects a record that says "running".
Refreshed ==
  IF ~Running /\ metadata.state = "running" THEN [metadata EXCEPT !.state = "stopped"] ELSE metadata

\* A dashboard poll
PollStatus ==
  /\ up /\ Refreshed # metadata
  /\ metadata' = Refreshed
  /\ UNCHANGED <<up, approved, memory, shutdown, system, messages, faults>>

-----------------------------------------------------------------------------
(* Messages                                                                 *)

\* handle_manager_message reads the store and then asks the router.
ReadState(c) ==
  /\ up /\ task[c] = "idle" /\ messages < MaxMessages
  /\ messages' = messages + 1
  /\ task' = [task EXCEPT ![c] = "routing"]
  /\ seen' = [seen EXCEPT ![c] = approved]
  /\ answer' = [answer EXCEPT ![c] = "none"]
  /\ UNCHANGED <<up, approved, lock, selected, current, noticed, waiters, environment,
                 reselected, metadata, shutdown, system, faults>>

Answer(c, a) ==
  /\ task' = [task EXCEPT ![c] = "idle"] /\ answer' = [answer EXCEPT ![c] = a]

\* _route_manager_instruction has returned.  The semantic router, the rules that
\* precede it and the keyword rules that replace it when it fails or is unsure
\* classify text: any decision is possible, about any signal.
Routing(c) == up /\ task[c] = "routing"

\* What was read is of no use once the message is routed.
Routed(c) == seen' = [seen EXCEPT ![c] = [s \in Signals |-> 0]]

\* Mutant: an old shutdown file is left in place.
StartKeepsFile(c, selection) ==
  /\ metadata' = Refreshed
  /\ \/ /\ Running /\ Answer(c, "started") /\ lock' = "nobody"
        /\ UNCHANGED <<environment, shutdown, reselected>>
     \/ /\ ~Running
        /\ task' = [task EXCEPT ![c] = "spawning"] /\ lock' = c
        /\ shutdown' = shutdown
        /\ environment' = selection /\ reselected' = FALSE
        /\ UNCHANGED answer

\* start() once it has the lock: a running process is kept, whatever it runs.
Start(c, selection) ==
  /\ metadata' = Refreshed
  /\ \/ /\ Running /\ Answer(c, "started") /\ lock' = "nobody"
        /\ UNCHANGED <<environment, shutdown, reselected>>
     \/ /\ ~Running
        /\ task' = [task EXCEPT ![c] = "spawning"] /\ lock' = c
        /\ shutdown' = 0
        /\ environment' = selection /\ reselected' = FALSE
        /\ UNCHANGED answer

\* Mutant: any known signal may be started.
StartsUnapproved(c, s) == TRUE

MayStart(c, s) == seen[c][s] # 0

DenyStart(c, s) ==
  /\ Routing(c) /\ ~MayStart(c, s)
  /\ Answer(c, "denied")
  /\ Routed(c)
  /\ UNCHANGED <<up, approved, lock, selected, current, noticed, waiters, environment,
                 reselected, metadata, shutdown, system, messages, faults>>

\* The router failed and no rule was certain, or it asks the user back.
Clarify(c) ==
  /\ Routing(c)
  /\ Answer(c, "denied")
  /\ Routed(c)
  /\ UNCHANGED <<up, approved, lock, selected, current, noticed, waiters, environment,
                 reselected, metadata, shutdown, system, messages, faults>>

\* start_signal: select_signal does not take the lock, start() does.
RouteStart(c, s) ==
  LET selection == [signal |-> s, version |-> seen[c][s]]
  IN  /\ Routing(c) /\ MayStart(c, s)
      /\ selected' = selection
      /\ \/ /\ lock = "nobody" /\ Waiting = {}
            /\ Start(c, selection)
         \/ /\ lock # "nobody" \/ Waiting # {}
            /\ task' = [task EXCEPT ![c] = "start_lock"]
            /\ reselected' = (reselected \/ selection # environment)
            /\ UNCHANGED <<answer, lock, environment, metadata, shutdown>>
      /\ Routed(c)
      /\ UNCHANGED <<up, approved, current, noticed, waiters, system, messages, faults>>

AcquireToStart(c) ==
  /\ up /\ task[c] = "start_lock" /\ lock = "nobody"
  /\ Start(c, selected)
  /\ UNCHANGED <<up, approved, seen, selected, current, noticed, waiters, system, messages, faults>>

\* Mutant: the record is not written once the process exists.
SpawnedUnrecorded(c) ==
  \E n \in Processes, p \in FreePids :
    /\ up /\ task[c] = "spawning"
    /\ process[n].state = "none" /\ \A m \in 1..n - 1 : process[m].state # "none"
    /\ process' = [process EXCEPT ![n] = [state |-> "alive", pid |-> p, selection |-> environment]]
    /\ current' = n /\ waiters' = waiters \cup {n}
    /\ lock' = "nobody" /\ Answer(c, "started")
    /\ UNCHANGED <<up, approved, seen, selected, noticed, environment, reselected, metadata,
                   shutdown, foreign, orphans, messages, faults>>

\* Mutant: the old record is marked as running instead of being replaced.
SpawnedOldRecord(c) ==
  \E n \in Processes, p \in FreePids :
    /\ up /\ task[c] = "spawning"
    /\ process[n].state = "none" /\ \A m \in 1..n - 1 : process[m].state # "none"
    /\ process' = [process EXCEPT ![n] = [state |-> "alive", pid |-> p, selection |-> environment]]
    /\ current' = n /\ waiters' = waiters \cup {n}
    /\ metadata' = [metadata EXCEPT !.state = "running", !.process = n]
    /\ lock' = "nobody" /\ Answer(c, "started")
    /\ UNCHANGED <<up, approved, seen, selected, noticed, environment, reselected, shutdown,
                   foreign, orphans, messages, faults>>

\* The record is made from what is selected now, not from the environment.
Spawned(c) ==
  \E n \in Processes, p \in FreePids :
    /\ up /\ task[c] = "spawning"
    /\ process[n].state = "none" /\ \A m \in 1..n - 1 : process[m].state # "none"
    /\ process' = [process EXCEPT ![n] = [state |-> "alive", pid |-> p, selection |-> environment]]
    /\ current' = n /\ waiters' = waiters \cup {n}
    /\ metadata' = [state |-> "running", process |-> n, selection |-> selected]
    /\ lock' = "nobody" /\ Answer(c, "started")
    /\ UNCHANGED <<up, approved, seen, selected, noticed, environment, reselected, shutdown,
                   foreign, orphans, messages, faults>>

\* The process factory raises.
SpawnFails(c) ==
  /\ up /\ task[c] = "spawning"
  /\ lock' = "nobody" /\ Answer(c, "failed")
  /\ UNCHANGED <<up, approved, seen, selected, current, noticed, waiters, environment,
                 reselected, metadata, shutdown, system, messages, faults>>

\* stop() once it has the lock
Stop(c) ==
  /\ metadata' = Refreshed
  /\ \/ /\ ~Running /\ Answer(c, "stopped") /\ lock' = "nobody"
        /\ UNCHANGED shutdown
     \/ /\ Running
        /\ task' = [task EXCEPT ![c] = "stopping"] /\ lock' = c
        /\ shutdown' = IF current # 0 THEN current ELSE metadata.process
        /\ UNCHANGED answer

\* stop_signal for a signal that is not the one recorded is refused.
DenyStop(c, s) ==
  /\ Routing(c) /\ Running /\ metadata.selection.signal # s
  /\ Answer(c, "denied")
  /\ Routed(c)
  /\ UNCHANGED <<up, approved, lock, selected, current, noticed, waiters, environment,
                 reselected, metadata, shutdown, system, messages, faults>>

RouteStop(c) ==
  /\ Routing(c)
  /\ \/ /\ lock = "nobody" /\ Waiting = {}
        /\ Stop(c)
     \/ /\ lock # "nobody" \/ Waiting # {}
        /\ task' = [task EXCEPT ![c] = "stop_lock"]
        /\ metadata' = Refreshed
        /\ UNCHANGED <<answer, lock, shutdown>>
  /\ Routed(c)
  /\ UNCHANGED <<up, approved, selected, current, noticed, waiters, environment,
                 reselected, system, messages, faults>>

AcquireToStop(c) ==
  /\ up /\ task[c] = "stop_lock" /\ lock = "nobody"
  /\ Stop(c)
  /\ UNCHANGED <<up, approved, seen, selected, current, noticed, waiters, environment,
                 reselected, system, messages, faults>>

\* Mutant: stop() answers as soon as the file is written.
StopReturnsAtOnce(c) ==
  /\ up /\ task[c] = "stopping"
  /\ lock' = "nobody" /\ Answer(c, "stopped")
  /\ UNCHANGED <<up, approved, seen, selected, current, noticed, waiters, environment,
                 reselected, metadata, shutdown, system, messages, faults>>

StopReturns(c) ==
  /\ up /\ task[c] = "stopping" /\ ~Running
  /\ metadata' = Refreshed
  /\ lock' = "nobody" /\ Answer(c, "stopped")
  /\ UNCHANGED <<up, approved, seen, selected, current, noticed, waiters, environment,
                 reselected, shutdown, system, messages, faults>>

\* Mutant: a stop that took too long keeps the lock.
StopTimesOutLocked(c) ==
  /\ up /\ task[c] = "stopping" /\ Running
  /\ Answer(c, "timeout")
  /\ UNCHANGED <<up, approved, seen, lock, selected, current, noticed, waiters, environment,
                 reselected, metadata, shutdown, system, messages, faults>>

\* The process is never killed.
StopTimesOut(c) ==
  /\ up /\ task[c] = "stopping" /\ Running
  /\ lock' = "nobody" /\ Answer(c, "timeout")
  /\ UNCHANGED <<up, approved, seen, selected, current, noticed, waiters, environment,
                 reselected, metadata, shutdown, system, messages, faults>>

-----------------------------------------------------------------------------
(* The runtime process, other processes, the Gateway, approvals             *)

\* The runtime ends by itself or once it sees the shutdown file.
ProcessExits(n) ==
  /\ process[n].state = "alive"
  /\ process' = [process EXCEPT ![n].state = "exited"]
  /\ UNCHANGED <<up, approved, memory, metadata, shutdown, foreign, orphans, messages, faults>>

\* The event loop learns of the exit before the waiting task runs again.
NoticeExit(n) ==
  /\ up /\ n \in waiters \ noticed /\ process[n].state = "exited"
  /\ noticed' = noticed \cup {n}
  /\ UNCHANGED <<up, approved, task, seen, answer, lock, selected, current, waiters, environment,
                 reselected, metadata, shutdown, system, messages, faults>>

\* _watch_process marks whatever record there is by then.
WatchProcess(n) ==
  /\ up /\ n \in waiters \cap noticed
  /\ waiters' = waiters \ {n}
  /\ metadata' = [metadata EXCEPT !.state = "stopped"]
  /\ UNCHANGED <<up, approved, task, seen, answer, lock, selected, current, noticed, environment,
                 reselected, shutdown, system, messages, faults>>

\* Another program gets the id of a runtime that ended (other ids are of no
\* concern).
ForeignStarts(p) ==
  /\ p \in FreePids /\ \E n \in Processes : process[n].state = "exited" /\ process[n].pid = p
  /\ foreign' = foreign \cup {p}
  /\ UNCHANGED <<up, approved, memory, metadata, shutdown, process, orphans, messages, faults>>

\* _approved_signal_versions: a work order was approved for live use.
Approve(s) ==
  /\ approved[s] < MaxVersions
  /\ approved' = [approved EXCEPT ![s] = @ + 1]
  /\ UNCHANGED <<up, memory, metadata, shutdown, system, messages, faults>>

Forget ==
  /\ up' = FALSE
  /\ task' = [c \in Clients |-> "idle"] /\ lock' = "nobody"
  /\ selected' = NoSelection /\ current' = 0 /\ noticed' = {} /\ waiters' = {}
  /\ environment' = NoSelection /\ reselected' = FALSE
  /\ seen' = [c \in Clients |-> [s \in Signals |-> 0]]
  /\ UNCHANGED <<approved, answer, metadata, shutdown, foreign, messages>>

\* close() lets the runtime go on; a process being created is abandoned.
GatewayCloses ==
  /\ up /\ faults < MaxFaults
  /\ faults' = faults + 1
  /\ Forget
  /\ UNCHANGED <<process, orphans>>

\* A crash may leave a process that no record mentions.
GatewayCrashes(c, n) ==
  /\ up /\ faults < MaxFaults /\ task[c] = "spawning"
  /\ faults' = faults + 1
  /\ process[n].state = "none" /\ \A m \in 1..n - 1 : process[m].state # "none"
  /\ \E p \in FreePids :
       process' = [process EXCEPT ![n] = [state |-> "alive", pid |-> p, selection |-> environment]]
  /\ orphans' = orphans \cup {n}
  /\ Forget

GatewayStarts ==
  /\ ~up
  /\ up' = TRUE
  /\ UNCHANGED <<approved, memory, metadata, shutdown, system, messages, faults>>

Next ==
  \/ PollStatus \/ GatewayCloses \/ GatewayStarts
  \/ \E c \in Clients :
       \/ ReadState(c) \/ AcquireToStart(c) \/ Spawned(c) \/ SpawnFails(c)
       \/ RouteStop(c) \/ AcquireToStop(c) \/ StopReturns(c) \/ StopTimesOut(c)
       \/ \E s \in Signals : DenyStart(c, s) \/ RouteStart(c, s) \/ DenyStop(c, s)
       \/ Clarify(c)
       \/ \E n \in Processes : GatewayCrashes(c, n)
  \/ \E n \in Processes : ProcessExits(n) \/ NoticeExit(n) \/ WatchProcess(n)
  \/ \E p \in Pids : ForeignStarts(p)
  \/ \E s \in Signals : Approve(s)

Spec == Init /\ [][Next]_vars

\* A handler's own steps happen: the router answers, the process factory
\* returns or raises, stop() gives up after its timeout; the lock is given on.
Fairness ==
  \A c \in Clients :
    /\ WF_vars(RouteStop(c) \/ Clarify(c) \/ \E s \in Signals : DenyStart(c, s) \/ RouteStart(c, s))
    /\ WF_vars(Spawned(c) \/ SpawnFails(c))
    /\ WF_vars(StopReturns(c) \/ StopTimesOut(c))
    /\ SF_vars(AcquireToStart(c) \/ AcquireToStop(c))
FairSpec == Spec /\ Fairness

-----------------------------------------------------------------------------
\* Every variable keeps its type, and the lock belongs to the one task that
\* is in the locked part of start() or stop().
TypeOK ==
  /\ up \in BOOLEAN /\ approved \in [Signals -> 0..MaxVersions]
  /\ task \in [Clients -> Tasks] /\ answer \in [Clients -> Answers]
  /\ seen \in [Clients -> [Signals -> 0..MaxVersions]]
  /\ lock \in Clients \cup {"nobody"}
  /\ \A c \in Clients : task[c] \in {"spawning", "stopping"} <=> lock = c
  /\ selected \in Selection /\ environment \in Selection
  /\ current \in 0..MaxProcesses /\ noticed \subseteq Processes /\ waiters \subseteq Processes
  /\ metadata \in [state : {"none", "running", "stopped"}, process : 0..MaxProcesses,
                   selection : Selection]
  /\ shutdown \in 0..MaxProcesses
  /\ process \in [Processes -> [state : {"none", "alive", "exited"}, pid : Pids,
                                selection : Selection]]
  /\ foreign \subseteq Pids /\ orphans \subseteq Processes

\* "Own one advisory runtime process": whatever messages, restarts and reused
\* process ids do, no second runtime is started beside one that lives, apart
\* from a process whose Gateway crashed before it could record it.
OneRuntime == \A m, n \in Alive \ orphans : m = n

\* The Gateway never takes a foreign process for the runtime it recorded, and
\* never loses sight of a runtime that lives.
StatusIsTrue ==
  /\ up /\ current = 0 /\ Running => metadata.process \in Alive
  /\ up => \A n \in Alive \ orphans : Running

\* A request to shut down reaches the process it was meant for and no later
\* one: start() removes an old file before it creates a process.
ShutdownIsForThisRun == shutdown # 0 => \A n \in Alive \ orphans : n = shutdown

\* A runtime runs a signal and version that was approved for live use, although
\* approvals are read before the router's await and the selection is shared.
StartedWasApproved ==
  \A n \in Processes : process[n].state # "none" =>
    LET s == process[n].selection IN s.signal # "none" /\ s.version \in 1..approved[s.signal]

\* The record names the signal that runs, unless another one was selected
\* while the process was being created.
RecordedIsRunning ==
  \A n \in Alive : up /\ current = n /\ metadata.process = n /\ ~reselected =>
    metadata.selection = process[n].selection

\* When stop() answers that the runtime stopped, it has.
StoppedMeansExited ==
  [][\A c \in Clients : task[c] = "stopping" /\ answer'[c] = "stopped" =>
       Alive' \subseteq orphans']_vars

\* Every message is answered, unless the Gateway goes down.
MessagesAnswered == \A c \in Clients : task[c] # "idle" ~> task[c] = "idle"

\* There is one runtime, it runs what was approved, and status and record say
\* the truth about it.
OneKnownRuntime ==
  TypeOK /\ OneRuntime /\ StatusIsTrue /\ StartedWasApproved /\ RecordedIsRunning

\* A stop ends the runtime it was meant for, and only says so once it has.
StopsAsMeant == []ShutdownIsForThisRun /\ StoppedMeansExited
=============================================================================
