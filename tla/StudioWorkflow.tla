--------------------------- MODULE StudioWorkflow ---------------------------
(***************************************************************************)
(* QuantStudio (studio/workflow.py): the per-project state machine through *)
(* which the Strategy, Review, Backtest, Optimization, Signal and          *)
(* Maintenance agents hand work to each other, with the user's four        *)
(* approval gates, reached through ManagerAgent (studio/manager.py).       *)
(*                                                                         *)
(* Every method of QuantStudio is synchronous, so each is one action.  A   *)
(* method that raises leaves the project as it was: its conditions are the *)
(* guard of its action.                                                    *)
(*                                                                         *)
(* Payloads are reduced to their identity.  An implementation is a         *)
(* revision number, a backtest is its run number and the revision it ran,  *)
(* a review names what it reviewed and its verdict; 0 stands for None.     *)
(***************************************************************************)
EXTENDS Integers

CONSTANTS
  Projects,       \* project identifiers
  MaxRevisions,   \* bound: implementations the Strategy Agent hands in
  MaxRuns,        \* bound: backtests the Backtest Agent completes
  MaxSignals      \* bound: signals a project publishes

ASSUME BoundsAssumption ==
  /\ MaxRevisions \in Nat
  /\ MaxRuns \in Nat
  /\ MaxSignals \in Nat

VARIABLES
  project,     \* StudioProject records, by identifier
  granted      \* what the user's latest positive decisions were about

vars == <<project, granted>>

-----------------------------------------------------------------------------
Kinds == {"signal", "strategy"}

\* The states from approve_live onwards.
RuntimeStages == {"signal_running", "maintenance", "signal_stopped"}
ReadyStages == {"ready_for_signal", "ready_for_trading"}
ReleasedStages == ReadyStages \cup RuntimeStages

ImplementationStages == {"signal_implementation", "strategy_implementation"}
ResearchStages == {"backtesting", "reviewing_backtest", "optimizing",
                   "awaiting_optimization_approval"}

Stages == {"absent", "reviewing_implementation",
           "awaiting_implementation_approval", "awaiting_backtest_approval",
           "awaiting_live_approval"}
          \cup ImplementationStages \cup ResearchStages \cup ReleasedStages

NoBacktest == [run |-> 0, of |-> 0]
NoReview == [of |-> 0, passed |-> FALSE]

Review == [of : Nat, passed : BOOLEAN]
Backtest == [run : Nat, of : Nat]

StudioProject ==
  [stage : Stages, artifact_kind : Kinds, backtest_required : BOOLEAN,
   implementation : Nat, implementation_review : Review,
   backtest : Backtest, backtest_review : Review,
   optimization_approved : {"undecided", "yes", "no"},
   implementation_approved : BOOLEAN, backtest_approved : BOOLEAN,
   live_approved : BOOLEAN, user_approved : BOOLEAN,
   runtime_error : BOOLEAN, signal_count : Nat,
   revisions : Nat, runs : Nat]

\* A project no one has submitted yet.
Absent(kind, required) ==
  [stage |-> "absent", artifact_kind |-> kind, backtest_required |-> required,
   implementation |-> 0, implementation_review |-> NoReview,
   backtest |-> NoBacktest, backtest_review |-> NoReview,
   optimization_approved |-> "undecided",
   implementation_approved |-> FALSE, backtest_approved |-> FALSE,
   live_approved |-> FALSE, user_approved |-> FALSE,
   runtime_error |-> FALSE, signal_count |-> 0,
   revisions |-> 0, runs |-> 0]

TypeOK ==
  /\ project \in [Projects -> StudioProject]
  /\ granted \in [Projects -> [implementation : Nat, backtest : Nat]]

Init ==
  /\ project = [p \in Projects |-> Absent("strategy", TRUE)]
  /\ granted = [p \in Projects |-> [implementation |-> 0, backtest |-> 0]]

-----------------------------------------------------------------------------
\* _implementation_stage: where work on the code of an artifact happens.
ImplementationStage(kind) ==
  IF kind = "signal" THEN "signal_implementation" ELSE "strategy_implementation"

Becomes(p, r) == project' = [project EXCEPT ![p] = r]
AtStage(p, stage) == project[p].stage = stage

\* A staff callback: the user decides nothing.
Staff == UNCHANGED granted

-----------------------------------------------------------------------------
(* User commands, through ManagerAgent                                     *)

SubmitArtifact(p, kind, required) ==
  /\ AtStage(p, "absent")
  /\ Becomes(p, [Absent(kind, required) EXCEPT !.stage = ImplementationStage(kind)])
  /\ UNCHANGED granted

\* Mutant: the user's backtest choice is not consulted.
ApproveImplementationSkipsBacktest(p, approved) ==
  LET r == project[p] IN
  /\ AtStage(p, "awaiting_implementation_approval")
  /\ approved
  /\ Becomes(p, [r EXCEPT !.implementation_approved = TRUE,
                         !.stage = "awaiting_live_approval"])
  /\ granted' = [granted EXCEPT ![p].implementation = r.implementation]

\* Mutant: a backtest approval left over from an earlier round is reused.
ApproveImplementationReusesBacktest(p, approved) ==
  LET r == project[p] IN
  /\ AtStage(p, "awaiting_implementation_approval")
  /\ \/ /\ approved
        /\ Becomes(p, [r EXCEPT
             !.implementation_approved = TRUE,
             !.stage = IF r.backtest_required /\ ~r.backtest_approved
                       THEN "backtesting" ELSE "awaiting_live_approval"])
        /\ granted' = [granted EXCEPT ![p].implementation = r.implementation]
     \/ /\ ~approved
        /\ Becomes(p, [r EXCEPT
             !.implementation_approved = FALSE,
             !.stage = ImplementationStage(r.artifact_kind),
             !.implementation = 0,
             !.implementation_review = NoReview])
        /\ UNCHANGED granted

\* Rejecting drops the implementation and its review; later approvals and
\* the backtest of an earlier round stay in the record.
ApproveImplementation(p, approved) ==
  LET r == project[p] IN
  /\ AtStage(p, "awaiting_implementation_approval")
  /\ \/ /\ approved
        /\ Becomes(p, [r EXCEPT
             !.implementation_approved = TRUE,
             !.stage = IF r.backtest_required THEN "backtesting"
                       ELSE "awaiting_live_approval"])
        /\ granted' = [granted EXCEPT ![p].implementation = r.implementation]
     \/ /\ ~approved
        /\ Becomes(p, [r EXCEPT
             !.implementation_approved = FALSE,
             !.stage = ImplementationStage(r.artifact_kind),
             !.implementation = 0,
             !.implementation_review = NoReview])
        /\ UNCHANGED granted

\* Approving a proposal discards the evidence of the version it replaces.
ApproveOptimization(p, approved) ==
  LET r == project[p] IN
  /\ AtStage(p, "awaiting_optimization_approval")
  /\ \/ /\ approved
        /\ Becomes(p, [r EXCEPT
             !.optimization_approved = "yes",
             !.stage = "strategy_implementation",
             !.implementation_review = NoReview,
             !.implementation_approved = FALSE,
             !.backtest = NoBacktest,
             !.backtest_review = NoReview,
             !.backtest_approved = FALSE,
             !.live_approved = FALSE])
     \/ /\ ~approved
        /\ Becomes(p, [r EXCEPT
             !.optimization_approved = "no",
             !.stage = "awaiting_backtest_approval"])
  /\ UNCHANGED granted

ReviewBacktest(p, approved) ==
  LET r == project[p] IN
  /\ AtStage(p, "awaiting_backtest_approval")
  /\ \/ /\ approved
        /\ Becomes(p, [r EXCEPT
             !.backtest_approved = TRUE,
             !.user_approved = TRUE,
             !.stage = "awaiting_live_approval"])
        /\ granted' = [granted EXCEPT ![p].backtest = r.backtest.run]
     \/ /\ ~approved
        /\ Becomes(p, [r EXCEPT
             !.backtest_approved = FALSE,
             !.user_approved = FALSE,
             !.stage = "backtesting",
             !.backtest = NoBacktest,
             !.backtest_review = NoReview])
        /\ UNCHANGED granted

\* Mutant: every released artifact becomes a startable Signal.
ApproveLiveAnyKind(p, approved) ==
  /\ AtStage(p, "awaiting_live_approval")
  /\ approved
  /\ Becomes(p, [project[p] EXCEPT !.live_approved = TRUE,
                                  !.stage = "ready_for_signal"])
  /\ UNCHANGED granted

ApproveLive(p, approved) ==
  LET r == project[p] IN
  /\ AtStage(p, "awaiting_live_approval")
  /\ \/ /\ approved
        /\ Becomes(p, [r EXCEPT
             !.live_approved = TRUE,
             !.stage = IF r.artifact_kind = "signal" THEN "ready_for_signal"
                       ELSE "ready_for_trading"])
     \/ /\ ~approved
        /\ Becomes(p, [r EXCEPT
             !.live_approved = FALSE,
             !.stage = "awaiting_implementation_approval"])
  /\ UNCHANGED granted

\* The approvals start_signal_runtime asks for again before it starts.
AllGatesPassed(r) ==
  /\ r.implementation_approved
  /\ r.live_approved
  /\ r.implementation # 0
  /\ r.backtest_required => r.backtest_approved /\ r.backtest # NoBacktest

StartSignalRuntime(p) ==
  LET r == project[p] IN
  /\ r.artifact_kind = "signal"
  /\ AllGatesPassed(r)
  /\ r.stage \in {"ready_for_signal", "signal_stopped"}
  /\ Becomes(p, [r EXCEPT !.stage = "signal_running", !.runtime_error = FALSE])
  /\ UNCHANGED granted

\* Mutant: stopping withdraws the live approval.
StopSignalRuntimeRevokes(p) ==
  /\ project[p].stage \in {"signal_running", "maintenance"}
  /\ Becomes(p, [project[p] EXCEPT !.stage = "signal_stopped",
                                  !.live_approved = FALSE])
  /\ UNCHANGED granted

StopSignalRuntime(p) ==
  /\ project[p].stage \in {"signal_running", "maintenance"}
  /\ Becomes(p, [project[p] EXCEPT !.stage = "signal_stopped"])
  /\ UNCHANGED granted

-----------------------------------------------------------------------------
(* Staff callbacks                                                         *)

StrategyImplemented(p) ==
  LET r == project[p] IN
  /\ r.stage \in ImplementationStages
  /\ r.revisions < MaxRevisions
  /\ Becomes(p, [r EXCEPT
       !.implementation = r.revisions + 1,
       !.revisions = r.revisions + 1,
       !.stage = "reviewing_implementation"])
  /\ Staff

\* The review text is kept whatever the verdict is.
ReviewImplementation(p, approved) ==
  LET r == project[p] IN
  /\ AtStage(p, "reviewing_implementation")
  /\ Becomes(p, [r EXCEPT
       !.implementation_review = [of |-> r.implementation, passed |-> approved],
       !.stage = IF approved THEN "awaiting_implementation_approval"
                 ELSE ImplementationStage(r.artifact_kind)])
  /\ Staff

\* Evidence without charts, or without the trading performance standard for
\* a strategy, is refused before anything is stored.
BacktestCompleted(p) ==
  LET r == project[p] IN
  /\ AtStage(p, "backtesting")
  /\ r.runs < MaxRuns
  /\ Becomes(p, [r EXCEPT
       !.backtest = [run |-> r.runs + 1, of |-> r.implementation],
       !.runs = r.runs + 1,
       !.stage = "reviewing_backtest"])
  /\ Staff

\* Mutant: a run is not put to the user again once a run was approved.
ReviewBacktestEvidenceTrustsOldApproval(p, approved) ==
  LET r == project[p] IN
  /\ AtStage(p, "reviewing_backtest")
  /\ Becomes(p, [r EXCEPT
       !.backtest_review = [of |-> r.backtest.run, passed |-> approved],
       !.stage = IF ~approved THEN "backtesting"
                 ELSE IF r.artifact_kind = "strategy" THEN "optimizing"
                 ELSE IF r.backtest_approved THEN "awaiting_live_approval"
                 ELSE "awaiting_backtest_approval"])
  /\ Staff

ReviewBacktestEvidence(p, approved) ==
  LET r == project[p] IN
  /\ AtStage(p, "reviewing_backtest")
  /\ Becomes(p, [r EXCEPT
       !.backtest_review = [of |-> r.backtest.run, passed |-> approved],
       !.stage = IF ~approved THEN "backtesting"
                 ELSE IF r.artifact_kind = "strategy" THEN "optimizing"
                 ELSE "awaiting_backtest_approval"])
  /\ Staff

OptimizationCompleted(p) ==
  /\ AtStage(p, "optimizing")
  /\ Becomes(p, [project[p] EXCEPT !.stage = "awaiting_optimization_approval"])
  /\ Staff

PublishSignal(p) ==
  LET r == project[p] IN
  /\ AtStage(p, "signal_running")
  /\ r.signal_count < MaxSignals
  /\ Becomes(p, [r EXCEPT !.signal_count = r.signal_count + 1])
  /\ Staff

ReportRuntimeError(p) ==
  /\ AtStage(p, "signal_running")
  /\ Becomes(p, [project[p] EXCEPT !.runtime_error = TRUE, !.stage = "maintenance"])
  /\ Staff

ResolveRuntimeError(p, resume) ==
  /\ AtStage(p, "maintenance")
  /\ Becomes(p, [project[p] EXCEPT
       !.runtime_error = FALSE,
       !.stage = IF resume THEN "signal_running" ELSE "signal_stopped"])
  /\ Staff

-----------------------------------------------------------------------------
UserStep(p) ==
  \/ \E kind \in Kinds, required \in BOOLEAN : SubmitArtifact(p, kind, required)
  \/ \E approved \in BOOLEAN : ApproveImplementation(p, approved)
  \/ \E approved \in BOOLEAN : ApproveOptimization(p, approved)
  \/ \E approved \in BOOLEAN : ReviewBacktest(p, approved)
  \/ \E approved \in BOOLEAN : ApproveLive(p, approved)
  \/ StartSignalRuntime(p)
  \/ StopSignalRuntime(p)

StaffStep(p) ==
  \/ StrategyImplemented(p)
  \/ \E approved \in BOOLEAN : ReviewImplementation(p, approved)
  \/ BacktestCompleted(p)
  \/ \E approved \in BOOLEAN : ReviewBacktestEvidence(p, approved)
  \/ OptimizationCompleted(p)
  \/ PublishSignal(p)
  \/ ReportRuntimeError(p)
  \/ \E resume \in BOOLEAN : ResolveRuntimeError(p, resume)

Next == \E p \in Projects : UserStep(p) \/ StaffStep(p)

Spec == Init /\ [][Next]_vars

-----------------------------------------------------------------------------
(* What the studio promises                                                *)

\* The stages whose work rests on an implementation the user has approved.
PastImplementationGate ==
  ResearchStages \cup ReleasedStages
  \cup {"awaiting_backtest_approval", "awaiting_live_approval"}

\* The stages whose work rests on a reviewed backtest, when one is required.
PastBacktestReview ==
  {"optimizing", "awaiting_optimization_approval",
   "awaiting_backtest_approval", "awaiting_live_approval"} \cup ReleasedStages

ReviewedImplementation(r) ==
  /\ r.implementation # 0
  /\ r.implementation_review = [of |-> r.implementation, passed |-> TRUE]

BacktestOfThisVersion(r) ==
  /\ r.backtest.run # 0
  /\ r.backtest.of = r.implementation
  /\ r.backtest_review = [of |-> r.backtest.run, passed |-> TRUE]

\* The chain of evidence behind a stage is the chain of the version it is
\* about: whatever was rejected, optimized or rerun on the way, the review is
\* a PASS of the current implementation and the backtest a reviewed run of
\* it.  Every reset in approve_implementation, approve_optimization and
\* review_backtest exists for this, and several of them leave old fields
\* behind.
EvidenceIsCurrent ==
  \A p \in Projects :
    LET r == project[p] IN
    /\ r.stage \in PastImplementationGate => ReviewedImplementation(r)
    /\ r.stage \in PastBacktestReview /\ r.backtest_required
         => BacktestOfThisVersion(r)

\* A released project was approved as it is: the user's implementation
\* approval was given for the revision now installed, and the backtest
\* approval, if one applies, for the run now on record.  (STUDIO_WORKFLOW.md:
\* "No work reaches live-ready state before all applicable approvals".)
ReleasedAsApproved ==
  \A p \in Projects :
    LET r == project[p] IN
    r.stage \in ReleasedStages =>
      /\ granted[p].implementation = r.implementation
      /\ r.backtest_required => granted[p].backtest = r.backtest.run

\* start_signal_runtime checks the approvals again.  The check never refuses
\* a Signal that the gates have let through: a project in a startable stage
\* can always be started.
StartIsNeverRefused ==
  \A p \in Projects :
    project[p].stage \in {"ready_for_signal", "signal_stopped"} =>
      project[p].artifact_kind = "signal" /\ AllGatesPassed(project[p])

\* Once released, a project keeps the artifact, the evidence and the
\* decisions it was released with: starting, stopping, failing, repairing
\* and publishing change the runtime state only.
Release(r) ==
  <<r.implementation, r.implementation_review, r.backtest, r.backtest_review,
    r.implementation_approved, r.backtest_approved, r.live_approved>>

FrozenStep ==
  \A p \in Projects :
    project[p].stage \in ReleasedStages =>
      /\ project'[p].stage \in ReleasedStages
      /\ Release(project'[p]) = Release(project[p])
      /\ granted'[p] = granted[p]

\* No step of any method undoes or alters a release.
ReleaseIsFrozen == [][FrozenStep]_vars

\* What the stages of one project presuppose, stage by stage: the inductive
\* invariant behind the four properties above.  It adds to them what the
\* intermediate stages have already established (a reviewed implementation
\* at the implementation gate, a run of it under review), which optional
\* nodes a stage belongs to, and the decisions recorded on the way.
ProjectInv(r, g) ==
  /\ r.stage = "reviewing_implementation" => r.implementation # 0
  /\ r.stage \in PastImplementationGate \cup {"awaiting_implementation_approval"}
       => ReviewedImplementation(r)
  /\ r.stage \in PastImplementationGate
       => r.implementation_approved /\ g.implementation = r.implementation
  /\ r.stage \in ResearchStages \cup {"awaiting_backtest_approval"}
       => r.backtest_required
  /\ r.stage = "reviewing_backtest"
       => r.backtest.run # 0 /\ r.backtest.of = r.implementation
  /\ r.stage \in PastBacktestReview /\ r.backtest_required
       => BacktestOfThisVersion(r)
  /\ r.stage \in {"awaiting_live_approval"} \cup ReleasedStages /\ r.backtest_required
       => r.backtest_approved /\ g.backtest = r.backtest.run
  /\ r.stage \in ReleasedStages => r.live_approved
  /\ r.stage \in {"ready_for_signal"} \cup RuntimeStages => r.artifact_kind = "signal"

\* Every project satisfies it: the studio's fields always agree with the
\* stage that the earlier hand-offs led to.
StagesPresupposed == \A p \in Projects : ProjectInv(project[p], granted[p])

\* The release contract this machine implements.
Phase(r) ==
  CASE r.stage = "absent" -> "absent"
    [] r.stage \in ImplementationStages \cup {"reviewing_implementation"} -> "building"
    [] r.stage = "awaiting_implementation_approval" -> "implementation_gate"
    [] r.stage \in ResearchStages -> "researching"
    [] r.stage = "awaiting_backtest_approval" -> "backtest_gate"
    [] r.stage = "awaiting_live_approval" -> "live_gate"
    [] OTHER -> "released"

Gates == INSTANCE ReleaseGates WITH
  Items <- Projects,
  phase <- [p \in Projects |-> Phase(project[p])],
  backtestRequired <- [p \in Projects |-> project[p].backtest_required]

\* Every behaviour of the workflow is one of the release contract: no method
\* skips, reorders or repeats a gate.
GatesRespected == Gates!Spec
=============================================================================
