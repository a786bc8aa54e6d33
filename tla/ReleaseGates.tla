---------------------------- MODULE ReleaseGates ----------------------------
(***************************************************************************)
(* The release contract of Quant Studio, as config/STUDIO_WORKFLOW.md and  *)
(* WorkflowDag.research (orchestration.py) state it, with no mention of    *)
(* agents, queues, retries or restarts.                                    *)
(*                                                                         *)
(* An item is a project of the in-memory workflow or a durable work order. *)
(* It is built, independently reviewed, approved by the user, researched   *)
(* when a backtest was requested, and released only through the gates that *)
(* apply to it, in their order.  Several items may move in one step: the   *)
(* recovery pass that runs when the Gateway starts repairs every order in  *)
(* one go.                                                                 *)
(***************************************************************************)
CONSTANT Items

VARIABLES
  phase,             \* where each item is in the release DAG
  backtestRequired   \* the user's choice, made when the item is submitted

vars == <<phase, backtestRequired>>

Phases == {"absent", "building", "implementation_gate", "researching",
           "backtest_gate", "live_gate", "released", "failed",
           "research_failed", "cancelled"}

TypeOK ==
  /\ phase \in [Items -> Phases]
  /\ backtestRequired \in [Items -> BOOLEAN]

Init ==
  /\ phase = [i \in Items |-> "absent"]
  /\ backtestRequired \in [Items -> BOOLEAN]

Moves(i, from, to) == phase[i] = from /\ phase'[i] = to

\* The user's choice is read once: afterwards it belongs to the item.
ChoiceKept(i) == backtestRequired'[i] = backtestRequired[i]

Submit(i) == Moves(i, "absent", "building")

Build(i) ==
  /\ ChoiceKept(i)
  /\ \/ Moves(i, "building", "implementation_gate")    \* Review returned PASS
     \/ Moves(i, "building", "failed")
     \/ Moves(i, "building", "cancelled")
     \/ Moves(i, "failed", "building")                  \* operator retry

DecideImplementation(i) ==
  /\ ChoiceKept(i)
  /\ \/ Moves(i, "implementation_gate", "building")
     \/ backtestRequired[i] /\ Moves(i, "implementation_gate", "researching")
     \/ ~backtestRequired[i] /\ Moves(i, "implementation_gate", "live_gate")

Research(i) ==
  /\ ChoiceKept(i)
  /\ backtestRequired[i]
  /\ \/ Moves(i, "researching", "backtest_gate")
     \/ Moves(i, "researching", "building")             \* a new version is ordered
     \/ Moves(i, "researching", "failed")
     \/ Moves(i, "researching", "cancelled")
     \/ Moves(i, "researching", "research_failed")
     \/ Moves(i, "research_failed", "researching")      \* the approval is kept
     \/ Moves(i, "research_failed", "building")

DecideBacktest(i) ==
  /\ ChoiceKept(i)
  /\ backtestRequired[i]
  /\ \/ Moves(i, "backtest_gate", "researching")
     \/ Moves(i, "backtest_gate", "live_gate")

DecideLive(i) ==
  /\ ChoiceKept(i)
  /\ \/ Moves(i, "live_gate", "released")
     \/ Moves(i, "live_gate", "implementation_gate")

Stays(i) == phase'[i] = phase[i] /\ (phase[i] # "absent" => ChoiceKept(i))

Next ==
  \A i \in Items :
    \/ Stays(i)
    \/ Submit(i)
    \/ Build(i)
    \/ DecideImplementation(i)
    \/ Research(i)
    \/ DecideBacktest(i)
    \/ DecideLive(i)

Spec == Init /\ [][Next]_vars
=============================================================================
