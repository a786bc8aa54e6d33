------------------------ MODULE StudioWorkflowProofs ------------------------
(***************************************************************************)
(* Proofs about StudioWorkflow, for any set of projects and any bounds.    *)
(*                                                                         *)
(* A step touches one project.  Each safety property speaks of one project *)
(* at a time, so the argument is: the touched record keeps ProjectInv, the *)
(* other records are unchanged.                                            *)
(***************************************************************************)
EXTENDS StudioWorkflow, TLAPS

USE DEF Kinds

LEMMA StageSets ==
  /\ ImplementationStages \subseteq Stages
  /\ ResearchStages \subseteq Stages
  /\ ReleasedStages \subseteq Stages
BY DEF Stages, ImplementationStages, ResearchStages, ReleasedStages,
       ReadyStages, RuntimeStages

LEMMA AbsentType ==
  ASSUME NEW kind \in Kinds, NEW required \in BOOLEAN
  PROVE  Absent(kind, required) \in StudioProject
BY DEF Absent, StudioProject, Stages, NoReview, NoBacktest, Review, Backtest

LEMMA ImplementationStageType ==
  ASSUME NEW kind PROVE ImplementationStage(kind) \in ImplementationStages
BY DEF ImplementationStage, ImplementationStages

LEMMA NoneTypes == NoReview \in Review /\ NoBacktest \in Backtest
BY DEF NoReview, Review, NoBacktest, Backtest

LEMMA ReviewType ==
  ASSUME NEW n \in Nat, NEW b \in BOOLEAN
  PROVE  [of |-> n, passed |-> b] \in Review
BY DEF Review

Grants == [implementation : Nat, backtest : Nat]

\* Initially no project exists, so every record has its type.
LEMMA TypeInit == Init => TypeOK
<1>1. Absent("strategy", TRUE) \in StudioProject
  BY AbsentType
<1>2. [implementation |-> 0, backtest |-> 0] \in Grants
  BY DEF Grants
<1>3. ASSUME Init PROVE TypeOK
  <2>1. project \in [Projects -> StudioProject]
    BY <1>1, <1>3 DEF Init
  <2>2. granted \in [Projects -> Grants]
    BY <1>2, <1>3 DEF Init
  <2> QED BY <2>1, <2>2 DEF TypeOK, Grants
<1> QED BY <1>3

\* A record that replaces another keeps the projects well typed.
LEMMA BecomesType ==
  ASSUME TypeOK, NEW p \in Projects, NEW n \in StudioProject, Becomes(p, n)
  PROVE  project' \in [Projects -> StudioProject]
BY DEF TypeOK, Becomes

LEMMA NewRecord ==
  ASSUME TypeOK, NEW p \in Projects, NEW n, Becomes(p, n)
  PROVE  project'[p] = n
BY DEF TypeOK, Becomes

\* A decision on an implementation or on a run is recorded as a number.
LEMMA GrantType ==
  ASSUME TypeOK, NEW p \in Projects, NEW n \in Nat,
         \/ granted' = [granted EXCEPT ![p].implementation = n]
         \/ granted' = [granted EXCEPT ![p].backtest = n]
  PROVE  granted' \in [Projects -> Grants]
<1>1. granted \in [Projects -> Grants]
  BY DEF TypeOK, Grants
<1>2. [granted[p] EXCEPT !.implementation = n] \in Grants
  BY <1>1 DEF Grants
<1>3. [granted[p] EXCEPT !.backtest = n] \in Grants
  BY <1>1 DEF Grants
<1>4. \/ granted' = [granted EXCEPT ![p] = [granted[p] EXCEPT !.implementation = n]]
      \/ granted' = [granted EXCEPT ![p] = [granted[p] EXCEPT !.backtest = n]]
  OBVIOUS
<1> HIDE DEF Grants
<1> QED BY <1>1, <1>2, <1>3, <1>4

\* Every method leaves a well-formed StudioProject behind.
LEMMA TypeStep == TypeOK /\ [Next]_vars => TypeOK'
<1> SUFFICES ASSUME TypeOK, [Next]_vars PROVE TypeOK'
  OBVIOUS
<1>t. TypeOK' <=> /\ project' \in [Projects -> StudioProject]
                  /\ granted' \in [Projects -> Grants]
  BY DEF TypeOK, Grants
<1>1. CASE UNCHANGED vars
  BY <1>1 DEF vars, TypeOK
<1>2. CASE Next
  <2>1. PICK p \in Projects : UserStep(p) \/ StaffStep(p)
    BY <1>2 DEF Next
  <2> DEFINE r == project[p]
  <2>r. r \in StudioProject
    BY DEF TypeOK
  <2>n. r.implementation \in Nat /\ r.backtest.run \in Nat /\ r.runs \in Nat
        /\ r.revisions \in Nat /\ r.signal_count \in Nat
    BY <2>r DEF StudioProject, Backtest
  <2>g. UNCHANGED granted => granted' \in [Projects -> Grants]
    BY DEF TypeOK, Grants
  <2>2. ASSUME NEW kind \in Kinds, NEW required \in BOOLEAN,
               SubmitArtifact(p, kind, required)
        PROVE  TypeOK'
    <3>1. [Absent(kind, required) EXCEPT !.stage = ImplementationStage(kind)]
            \in StudioProject
      BY AbsentType, ImplementationStageType, StageSets DEF StudioProject
    <3> QED BY <2>2, <3>1, <2>n, <2>g, <1>t, BecomesType, GrantType
         DEF SubmitArtifact, Staff
  <2>3. ASSUME NEW a \in BOOLEAN, ApproveImplementation(p, a) PROVE TypeOK'
    <3>1. [r EXCEPT !.implementation_approved = TRUE,
                    !.stage = IF r.backtest_required THEN "backtesting"
                              ELSE "awaiting_live_approval"]
            \in StudioProject
      BY <2>r DEF StudioProject, Stages, ResearchStages
    <3>2. [r EXCEPT !.implementation_approved = FALSE,
                    !.stage = ImplementationStage(r.artifact_kind),
                    !.implementation = 0,
                    !.implementation_review = NoReview]
            \in StudioProject
      BY <2>r, ImplementationStageType, StageSets, NoneTypes DEF StudioProject
    <3> QED BY <2>3, <3>1, <3>2, <2>n, <2>g, <1>t, BecomesType, GrantType
         DEF ApproveImplementation, Staff
  <2>4. ASSUME NEW a \in BOOLEAN, ApproveOptimization(p, a) PROVE TypeOK'
    <3>1. [r EXCEPT !.optimization_approved = "yes",
                    !.stage = "strategy_implementation",
                    !.implementation_review = NoReview,
                    !.implementation_approved = FALSE,
                    !.backtest = NoBacktest,
                    !.backtest_review = NoReview,
                    !.backtest_approved = FALSE,
                    !.live_approved = FALSE]
            \in StudioProject
      BY <2>r, NoneTypes DEF StudioProject, Stages, ImplementationStages
    <3>2. [r EXCEPT !.optimization_approved = "no",
                    !.stage = "awaiting_backtest_approval"]
            \in StudioProject
      BY <2>r DEF StudioProject, Stages
    <3> QED BY <2>4, <3>1, <3>2, <2>n, <2>g, <1>t, BecomesType, GrantType
         DEF ApproveOptimization, Staff
  <2>5. ASSUME NEW a \in BOOLEAN, ReviewBacktest(p, a) PROVE TypeOK'
    <3>1. [r EXCEPT !.backtest_approved = TRUE, !.user_approved = TRUE,
                    !.stage = "awaiting_live_approval"]
            \in StudioProject
      BY <2>r DEF StudioProject, Stages
    <3>2. [r EXCEPT !.backtest_approved = FALSE, !.user_approved = FALSE,
                    !.stage = "backtesting",
                    !.backtest = NoBacktest,
                    !.backtest_review = NoReview]
            \in StudioProject
      BY <2>r, NoneTypes DEF StudioProject, Stages, ResearchStages
    <3> QED BY <2>5, <3>1, <3>2, <2>n, <2>g, <1>t, BecomesType, GrantType
         DEF ReviewBacktest, Staff
  <2>6. ASSUME NEW a \in BOOLEAN, ApproveLive(p, a) PROVE TypeOK'
    <3>1. [r EXCEPT !.live_approved = TRUE,
                    !.stage = IF r.artifact_kind = "signal" THEN "ready_for_signal"
                              ELSE "ready_for_trading"]
            \in StudioProject
      BY <2>r DEF StudioProject, Stages, ReleasedStages, ReadyStages
    <3>2. [r EXCEPT !.live_approved = FALSE,
                    !.stage = "awaiting_implementation_approval"]
            \in StudioProject
      BY <2>r DEF StudioProject, Stages
    <3> QED BY <2>6, <3>1, <3>2, <2>n, <2>g, <1>t, BecomesType, GrantType
         DEF ApproveLive, Staff
  <2>7. CASE StartSignalRuntime(p)
    <3>1. [r EXCEPT !.stage = "signal_running", !.runtime_error = FALSE]
            \in StudioProject
      BY <2>r DEF StudioProject, Stages, ReleasedStages, RuntimeStages
    <3> QED BY <2>7, <3>1, <2>n, <2>g, <1>t, BecomesType, GrantType
         DEF StartSignalRuntime, Staff
  <2>8. CASE StopSignalRuntime(p)
    <3>1. [r EXCEPT !.stage = "signal_stopped"]
            \in StudioProject
      BY <2>r DEF StudioProject, Stages, ReleasedStages, RuntimeStages
    <3> QED BY <2>8, <3>1, <2>n, <2>g, <1>t, BecomesType, GrantType
         DEF StopSignalRuntime, Staff
  <2>9. CASE StrategyImplemented(p)
    <3> DEFINE next == r.revisions + 1
    <3>0. next \in Nat
      BY <2>n
    <3> HIDE DEF next
    <3>1. [r EXCEPT !.implementation = next, !.revisions = next,
                    !.stage = "reviewing_implementation"]
            \in StudioProject
      BY <2>r, <3>0 DEF StudioProject, Stages
    <3> USE DEF next
    <3> QED BY <2>9, <3>1, <2>n, <2>g, <1>t, BecomesType, GrantType
         DEF StrategyImplemented, Staff
  <2>10. ASSUME NEW a \in BOOLEAN, ReviewImplementation(p, a) PROVE TypeOK'
    <3>1. [r EXCEPT !.implementation_review = [of |-> r.implementation, passed |-> a],
                    !.stage = IF a THEN "awaiting_implementation_approval"
                              ELSE ImplementationStage(r.artifact_kind)]
            \in StudioProject
      BY <2>r, <2>n, ReviewType, ImplementationStageType, StageSets
         DEF StudioProject, Stages
    <3> QED BY <2>10, <3>1, <2>n, <2>g, <1>t, BecomesType, GrantType
         DEF ReviewImplementation, Staff
  <2>11. CASE BacktestCompleted(p)
    <3> DEFINE next == r.runs + 1
               run == [run |-> next, of |-> r.implementation]
    <3>0. next \in Nat /\ run \in Backtest
      BY <2>n DEF Backtest
    <3> HIDE DEF next, run
    <3>1. [r EXCEPT !.backtest = run, !.runs = next, !.stage = "reviewing_backtest"]
            \in StudioProject
      BY <2>r, <3>0 DEF StudioProject, Stages, ResearchStages
    <3> USE DEF next, run
    <3> QED BY <2>11, <3>1, <2>n, <2>g, <1>t, BecomesType, GrantType
         DEF BacktestCompleted, Staff
  <2>12. ASSUME NEW a \in BOOLEAN, ReviewBacktestEvidence(p, a) PROVE TypeOK'
    <3>1. [r EXCEPT !.backtest_review = [of |-> r.backtest.run, passed |-> a],
                    !.stage = IF ~a THEN "backtesting"
                              ELSE IF r.artifact_kind = "strategy" THEN "optimizing"
                              ELSE "awaiting_backtest_approval"]
            \in StudioProject
      BY <2>r, <2>n, ReviewType DEF StudioProject, Stages, ResearchStages
    <3> QED BY <2>12, <3>1, <2>n, <2>g, <1>t, BecomesType, GrantType
         DEF ReviewBacktestEvidence, Staff
  <2>13. CASE OptimizationCompleted(p)
    <3>1. [r EXCEPT !.stage = "awaiting_optimization_approval"]
            \in StudioProject
      BY <2>r DEF StudioProject, Stages, ResearchStages
    <3> QED BY <2>13, <3>1, <2>n, <2>g, <1>t, BecomesType, GrantType
         DEF OptimizationCompleted, Staff
  <2>14. CASE PublishSignal(p)
    <3>1. [r EXCEPT !.signal_count = r.signal_count + 1]
            \in StudioProject
      BY <2>r, <2>n DEF StudioProject
    <3> QED BY <2>14, <3>1, <2>n, <2>g, <1>t, BecomesType, GrantType
         DEF PublishSignal, Staff
  <2>15. CASE ReportRuntimeError(p)
    <3>1. [r EXCEPT !.runtime_error = TRUE, !.stage = "maintenance"]
            \in StudioProject
      BY <2>r DEF StudioProject, Stages, ReleasedStages, RuntimeStages
    <3> QED BY <2>15, <3>1, <2>n, <2>g, <1>t, BecomesType, GrantType
         DEF ReportRuntimeError, Staff
  <2>16. ASSUME NEW a \in BOOLEAN, ResolveRuntimeError(p, a) PROVE TypeOK'
    <3>1. [r EXCEPT !.runtime_error = FALSE,
                    !.stage = IF a THEN "signal_running" ELSE "signal_stopped"]
            \in StudioProject
      BY <2>r DEF StudioProject, Stages, ReleasedStages, RuntimeStages
    <3> QED BY <2>16, <3>1, <2>n, <2>g, <1>t, BecomesType, GrantType
         DEF ResolveRuntimeError, Staff
  <2> QED
    BY <2>1, <2>2, <2>3, <2>4, <2>5, <2>6, <2>7, <2>8, <2>9, <2>10, <2>11, <2>12,
       <2>13, <2>14, <2>15, <2>16 DEF UserStep, StaffStep
<1> QED BY <1>1, <1>2

\* The studio's records are always well formed.
THEOREM TypeCorrect == Spec => []TypeOK
<1>1. Init => TypeOK
  BY TypeInit
<1>2. TypeOK /\ [Next]_vars => TypeOK'
  BY TypeStep
<1> QED BY <1>1, <1>2, PTL DEF Spec

-----------------------------------------------------------------------------
\* The chain of evidence: StagesPresupposed is inductive.

\* The grants that a step leaves to the other projects.
GrantsOf(p, g) == granted' = [granted EXCEPT ![p] = g]

\* A step replaces one record: if the new record keeps ProjectInv, all do.
LEMMA OneProject ==
  ASSUME TypeOK, StagesPresupposed, NEW p \in Projects, NEW n, NEW g,
         Becomes(p, n), GrantsOf(p, g), ProjectInv(n, g)
  PROVE  StagesPresupposed'
<1> SUFFICES ASSUME NEW q \in Projects PROVE ProjectInv(project'[q], granted'[q])
  BY DEF StagesPresupposed
<1>1. project'[q] = IF q = p THEN n ELSE project[q]
  BY DEF Becomes, TypeOK
<1>2. granted'[q] = IF q = p THEN g ELSE granted[q]
  BY DEF GrantsOf, TypeOK
<1> QED BY <1>1, <1>2 DEF StagesPresupposed

LEMMA PresupposedInit == Init => StagesPresupposed
<1> SUFFICES ASSUME Init, NEW p \in Projects
             PROVE  ProjectInv(project[p], granted[p])
  BY DEF StagesPresupposed
<1>1. project[p].stage = "absent"
  BY DEF Init, Absent
<1> QED BY <1>1 DEF ProjectInv, PastImplementationGate, PastBacktestReview,
              ResearchStages, ReleasedStages, ReadyStages, RuntimeStages

\* Every method hands over what the next stage presupposes.
LEMMA PresupposedStep == TypeOK /\ StagesPresupposed /\ [Next]_vars => StagesPresupposed'
<1> SUFFICES ASSUME TypeOK, StagesPresupposed, [Next]_vars PROVE StagesPresupposed'
  OBVIOUS
<1>1. CASE UNCHANGED vars
  BY <1>1 DEF vars, StagesPresupposed
<1>2. CASE Next
  <2>1. PICK p \in Projects : UserStep(p) \/ StaffStep(p)
    BY <1>2 DEF Next
  <2> DEFINE r == project[p]
             g == granted[p]
  <2>r. r \in StudioProject /\ g \in Grants
    BY DEF TypeOK, Grants
  <2>i. ProjectInv(r, g)
    BY DEF StagesPresupposed
  <2>g. UNCHANGED granted => GrantsOf(p, g)
    BY DEF TypeOK, GrantsOf
  <2>2. ASSUME NEW kind \in Kinds, NEW required \in BOOLEAN, SubmitArtifact(p, kind, required)
        PROVE  StagesPresupposed'
    <3> DEFINE n == [Absent(kind, required) EXCEPT !.stage = ImplementationStage(kind)]
    <3>1. ProjectInv(n, g)
      BY DEF ProjectInv, Absent, ImplementationStage, PastImplementationGate, PastBacktestReview,
           ResearchStages, ReleasedStages, ReadyStages, RuntimeStages, ReviewedImplementation,
           BacktestOfThisVersion
    <3>2. Becomes(p, n) /\ GrantsOf(p, g)
      BY <2>2, <2>g DEF SubmitArtifact, Staff
    <3> QED BY <3>1, <3>2, OneProject
  <2>3. ASSUME NEW a \in BOOLEAN, ApproveImplementation(p, a)
        PROVE  StagesPresupposed'
    <3>1. CASE a
      <4> DEFINE n == [r EXCEPT !.implementation_approved = TRUE,
                         !.stage = IF r.backtest_required THEN "backtesting"
                                   ELSE "awaiting_live_approval"]
                 h == [g EXCEPT !.implementation = r.implementation]
      <4>1. ProjectInv(n, h)
        BY <2>r, <2>i, <2>3, <3>1
       DEF ProjectInv, ImplementationStage, ApproveImplementation, AtStage, StudioProject, Grants,
           PastImplementationGate, PastBacktestReview,
           ResearchStages, ReleasedStages, ReadyStages, RuntimeStages, ReviewedImplementation,
           BacktestOfThisVersion
      <4>2. Becomes(p, n) /\ GrantsOf(p, h)
        BY <2>3, <3>1, <2>g DEF ApproveImplementation, Staff, GrantsOf, TypeOK
      <4> QED BY <4>1, <4>2, OneProject
    <3>2. CASE ~a
      <4> DEFINE n == [r EXCEPT !.implementation_approved = FALSE,
                         !.stage = ImplementationStage(r.artifact_kind),
                         !.implementation = 0,
                         !.implementation_review = NoReview]
      <4>1. ProjectInv(n, g)
        BY <2>r, <2>i, <2>3, <3>2
       DEF ProjectInv, ImplementationStage, ApproveImplementation, AtStage, StudioProject, Grants,
           PastImplementationGate, PastBacktestReview,
           ResearchStages, ReleasedStages, ReadyStages, RuntimeStages, ReviewedImplementation,
           BacktestOfThisVersion
      <4>2. Becomes(p, n) /\ GrantsOf(p, g)
        BY <2>3, <3>2, <2>g DEF ApproveImplementation, Staff
      <4> QED BY <4>1, <4>2, OneProject
    <3> QED BY <3>1, <3>2
  <2>4. ASSUME NEW a \in BOOLEAN, ApproveOptimization(p, a)
        PROVE  StagesPresupposed'
    <3>1. CASE a
      <4> DEFINE n == [r EXCEPT !.optimization_approved = "yes",
                         !.stage = "strategy_implementation",
                         !.implementation_review = NoReview,
                         !.implementation_approved = FALSE,
                         !.backtest = NoBacktest,
                         !.backtest_review = NoReview,
                         !.backtest_approved = FALSE,
                         !.live_approved = FALSE]
      <4>1. ProjectInv(n, g)
        BY <2>r, <2>i, <2>4, <3>1
       DEF ProjectInv, ApproveOptimization, AtStage, StudioProject, Grants,
           PastImplementationGate, PastBacktestReview,
           ResearchStages, ReleasedStages, ReadyStages, RuntimeStages, ReviewedImplementation,
           BacktestOfThisVersion
      <4>2. Becomes(p, n) /\ GrantsOf(p, g)
        BY <2>4, <3>1, <2>g DEF ApproveOptimization, Staff
      <4> QED BY <4>1, <4>2, OneProject
    <3>2. CASE ~a
      <4> DEFINE n == [r EXCEPT !.optimization_approved = "no",
                         !.stage = "awaiting_backtest_approval"]
      <4>1. ProjectInv(n, g)
        BY <2>r, <2>i, <2>4, <3>2
       DEF ProjectInv, ApproveOptimization, AtStage, StudioProject, Grants,
           PastImplementationGate, PastBacktestReview,
           ResearchStages, ReleasedStages, ReadyStages, RuntimeStages, ReviewedImplementation,
           BacktestOfThisVersion
      <4>2. Becomes(p, n) /\ GrantsOf(p, g)
        BY <2>4, <3>2, <2>g DEF ApproveOptimization, Staff
      <4> QED BY <4>1, <4>2, OneProject
    <3> QED BY <3>1, <3>2
  <2>5. ASSUME NEW a \in BOOLEAN, ReviewBacktest(p, a)
        PROVE  StagesPresupposed'
    <3>1. CASE a
      <4> DEFINE n == [r EXCEPT !.backtest_approved = TRUE, !.user_approved = TRUE,
                         !.stage = "awaiting_live_approval"]
                 h == [g EXCEPT !.backtest = r.backtest.run]
      <4>1. ProjectInv(n, h)
        BY <2>r, <2>i, <2>5, <3>1
       DEF ProjectInv, ReviewBacktest, AtStage, StudioProject, Grants,
           PastImplementationGate, PastBacktestReview,
           ResearchStages, ReleasedStages, ReadyStages, RuntimeStages, ReviewedImplementation,
           BacktestOfThisVersion
      <4>2. Becomes(p, n) /\ GrantsOf(p, h)
        BY <2>5, <3>1, <2>g DEF ReviewBacktest, Staff, GrantsOf, TypeOK
      <4> QED BY <4>1, <4>2, OneProject
    <3>2. CASE ~a
      <4> DEFINE n == [r EXCEPT !.backtest_approved = FALSE, !.user_approved = FALSE,
                         !.stage = "backtesting",
                         !.backtest = NoBacktest,
                         !.backtest_review = NoReview]
      <4>1. ProjectInv(n, g)
        BY <2>r, <2>i, <2>5, <3>2
       DEF ProjectInv, ReviewBacktest, AtStage, StudioProject, Grants,
           PastImplementationGate, PastBacktestReview,
           ResearchStages, ReleasedStages, ReadyStages, RuntimeStages, ReviewedImplementation,
           BacktestOfThisVersion
      <4>2. Becomes(p, n) /\ GrantsOf(p, g)
        BY <2>5, <3>2, <2>g DEF ReviewBacktest, Staff
      <4> QED BY <4>1, <4>2, OneProject
    <3> QED BY <3>1, <3>2
  <2>6. ASSUME NEW a \in BOOLEAN, ApproveLive(p, a)
        PROVE  StagesPresupposed'
    <3>1. CASE a
      <4> DEFINE n == [r EXCEPT !.live_approved = TRUE,
                         !.stage = IF r.artifact_kind = "signal" THEN "ready_for_signal"
                                   ELSE "ready_for_trading"]
      <4>1. ProjectInv(n, g)
        BY <2>r, <2>i, <2>6, <3>1
       DEF ProjectInv, ApproveLive, AtStage, StudioProject, Grants,
           PastImplementationGate, PastBacktestReview,
           ResearchStages, ReleasedStages, ReadyStages, RuntimeStages, ReviewedImplementation,
           BacktestOfThisVersion
      <4>2. Becomes(p, n) /\ GrantsOf(p, g)
        BY <2>6, <3>1, <2>g DEF ApproveLive, Staff
      <4> QED BY <4>1, <4>2, OneProject
    <3>2. CASE ~a
      <4> DEFINE n == [r EXCEPT !.live_approved = FALSE,
                         !.stage = "awaiting_implementation_approval"]
      <4>1. ProjectInv(n, g)
        BY <2>r, <2>i, <2>6, <3>2
       DEF ProjectInv, ApproveLive, AtStage, StudioProject, Grants,
           PastImplementationGate, PastBacktestReview,
           ResearchStages, ReleasedStages, ReadyStages, RuntimeStages, ReviewedImplementation,
           BacktestOfThisVersion
      <4>2. Becomes(p, n) /\ GrantsOf(p, g)
        BY <2>6, <3>2, <2>g DEF ApproveLive, Staff
      <4> QED BY <4>1, <4>2, OneProject
    <3> QED BY <3>1, <3>2
  <2>7. CASE StartSignalRuntime(p)
    <3> DEFINE n == [r EXCEPT !.stage = "signal_running", !.runtime_error = FALSE]
    <3>1. ProjectInv(n, g)
      BY <2>r, <2>i, <2>7
       DEF ProjectInv, StartSignalRuntime, AtStage, StudioProject, Grants,
           PastImplementationGate, PastBacktestReview,
           ResearchStages, ReleasedStages, ReadyStages, RuntimeStages, ReviewedImplementation,
           BacktestOfThisVersion
    <3>2. Becomes(p, n) /\ GrantsOf(p, g)
      BY <2>7, <2>g DEF StartSignalRuntime, Staff
    <3> QED BY <3>1, <3>2, OneProject
  <2>8. CASE StopSignalRuntime(p)
    <3> DEFINE n == [r EXCEPT !.stage = "signal_stopped"]
    <3>1. ProjectInv(n, g)
      BY <2>r, <2>i, <2>8
       DEF ProjectInv, StopSignalRuntime, AtStage, StudioProject, Grants,
           PastImplementationGate, PastBacktestReview,
           ResearchStages, ReleasedStages, ReadyStages, RuntimeStages, ReviewedImplementation,
           BacktestOfThisVersion
    <3>2. Becomes(p, n) /\ GrantsOf(p, g)
      BY <2>8, <2>g DEF StopSignalRuntime, Staff
    <3> QED BY <3>1, <3>2, OneProject
  <2>9. CASE StrategyImplemented(p)
    <3> DEFINE n == [r EXCEPT !.implementation = r.revisions + 1, !.revisions = r.revisions + 1,
                       !.stage = "reviewing_implementation"]
    <3>1. ProjectInv(n, g)
      BY <2>r, <2>i, <2>9
       DEF ProjectInv, StudioProject, StrategyImplemented, AtStage, StudioProject, Grants,
           PastImplementationGate, PastBacktestReview,
           ResearchStages, ReleasedStages, ReadyStages, RuntimeStages, ReviewedImplementation,
           BacktestOfThisVersion
    <3>2. Becomes(p, n) /\ GrantsOf(p, g)
      BY <2>9, <2>g DEF StrategyImplemented, Staff
    <3> QED BY <3>1, <3>2, OneProject
  <2>10. ASSUME NEW a \in BOOLEAN, ReviewImplementation(p, a)
        PROVE  StagesPresupposed'
    <3> DEFINE n == [r EXCEPT !.implementation_review = [of |-> r.implementation, passed |-> a],
                       !.stage = IF a THEN "awaiting_implementation_approval"
                                 ELSE ImplementationStage(r.artifact_kind)]
    <3>1. ProjectInv(n, g)
      BY <2>r, <2>i, <2>10
       DEF ProjectInv, ImplementationStage, ReviewImplementation, AtStage, StudioProject, Grants,
           PastImplementationGate, PastBacktestReview,
           ResearchStages, ReleasedStages, ReadyStages, RuntimeStages, ReviewedImplementation,
           BacktestOfThisVersion
    <3>2. Becomes(p, n) /\ GrantsOf(p, g)
      BY <2>10, <2>g DEF ReviewImplementation, Staff
    <3> QED BY <3>1, <3>2, OneProject
  <2>11. CASE BacktestCompleted(p)
    <3> DEFINE n == [r EXCEPT !.backtest = [run |-> r.runs + 1, of |-> r.implementation],
                       !.runs = r.runs + 1, !.stage = "reviewing_backtest"]
    <3>1. ProjectInv(n, g)
      BY <2>r, <2>i, <2>11
       DEF ProjectInv, StudioProject, BacktestCompleted, AtStage, StudioProject, Grants,
           PastImplementationGate, PastBacktestReview,
           ResearchStages, ReleasedStages, ReadyStages, RuntimeStages, ReviewedImplementation,
           BacktestOfThisVersion
    <3>2. Becomes(p, n) /\ GrantsOf(p, g)
      BY <2>11, <2>g DEF BacktestCompleted, Staff
    <3> QED BY <3>1, <3>2, OneProject
  <2>12. ASSUME NEW a \in BOOLEAN, ReviewBacktestEvidence(p, a)
        PROVE  StagesPresupposed'
    <3> DEFINE n == [r EXCEPT !.backtest_review = [of |-> r.backtest.run, passed |-> a],
                       !.stage = IF ~a THEN "backtesting"
                                 ELSE IF r.artifact_kind = "strategy" THEN "optimizing"
                                 ELSE "awaiting_backtest_approval"]
    <3>1. ProjectInv(n, g)
      BY <2>r, <2>i, <2>12
       DEF ProjectInv, ReviewBacktestEvidence, AtStage, StudioProject, Grants,
           PastImplementationGate, PastBacktestReview,
           ResearchStages, ReleasedStages, ReadyStages, RuntimeStages, ReviewedImplementation,
           BacktestOfThisVersion
    <3>2. Becomes(p, n) /\ GrantsOf(p, g)
      BY <2>12, <2>g DEF ReviewBacktestEvidence, Staff
    <3> QED BY <3>1, <3>2, OneProject
  <2>13. CASE OptimizationCompleted(p)
    <3> DEFINE n == [r EXCEPT !.stage = "awaiting_optimization_approval"]
    <3>1. ProjectInv(n, g)
      BY <2>r, <2>i, <2>13
       DEF ProjectInv, OptimizationCompleted, AtStage, StudioProject, Grants,
           PastImplementationGate, PastBacktestReview,
           ResearchStages, ReleasedStages, ReadyStages, RuntimeStages, ReviewedImplementation,
           BacktestOfThisVersion
    <3>2. Becomes(p, n) /\ GrantsOf(p, g)
      BY <2>13, <2>g DEF OptimizationCompleted, Staff
    <3> QED BY <3>1, <3>2, OneProject
  <2>14. CASE PublishSignal(p)
    <3> DEFINE n == [r EXCEPT !.signal_count = r.signal_count + 1]
    <3>1. ProjectInv(n, g)
      BY <2>r, <2>i, <2>14
       DEF ProjectInv, PublishSignal, AtStage, StudioProject, Grants,
           PastImplementationGate, PastBacktestReview,
           ResearchStages, ReleasedStages, ReadyStages, RuntimeStages, ReviewedImplementation,
           BacktestOfThisVersion
    <3>2. Becomes(p, n) /\ GrantsOf(p, g)
      BY <2>14, <2>g DEF PublishSignal, Staff
    <3> QED BY <3>1, <3>2, OneProject
  <2>15. CASE ReportRuntimeError(p)
    <3> DEFINE n == [r EXCEPT !.runtime_error = TRUE, !.stage = "maintenance"]
    <3>1. ProjectInv(n, g)
      BY <2>r, <2>i, <2>15
       DEF ProjectInv, ReportRuntimeError, AtStage, StudioProject, Grants,
           PastImplementationGate, PastBacktestReview,
           ResearchStages, ReleasedStages, ReadyStages, RuntimeStages, ReviewedImplementation,
           BacktestOfThisVersion
    <3>2. Becomes(p, n) /\ GrantsOf(p, g)
      BY <2>15, <2>g DEF ReportRuntimeError, Staff
    <3> QED BY <3>1, <3>2, OneProject
  <2>16. ASSUME NEW a \in BOOLEAN, ResolveRuntimeError(p, a)
        PROVE  StagesPresupposed'
    <3> DEFINE n == [r EXCEPT !.runtime_error = FALSE,
                       !.stage = IF a THEN "signal_running" ELSE "signal_stopped"]
    <3>1. ProjectInv(n, g)
      BY <2>r, <2>i, <2>16
       DEF ProjectInv, ResolveRuntimeError, AtStage, StudioProject, Grants,
           PastImplementationGate, PastBacktestReview,
           ResearchStages, ReleasedStages, ReadyStages, RuntimeStages, ReviewedImplementation,
           BacktestOfThisVersion
    <3>2. Becomes(p, n) /\ GrantsOf(p, g)
      BY <2>16, <2>g DEF ResolveRuntimeError, Staff
    <3> QED BY <3>1, <3>2, OneProject
  <2> QED
    BY <2>1, <2>2, <2>3, <2>4, <2>5, <2>6, <2>7, <2>8, <2>9, <2>10, <2>11, <2>12, <2>13, <2>14, <2>15, <2>16
       DEF UserStep, StaffStep
<1> QED BY <1>1, <1>2

\* Every reachable project satisfies what its stage presupposes.
THEOREM StagesPresupposedHolds == Spec => []StagesPresupposed
<1>1. Init => TypeOK /\ StagesPresupposed
  BY TypeInit, PresupposedInit
<1>2. TypeOK /\ StagesPresupposed /\ [Next]_vars => (TypeOK /\ StagesPresupposed)'
  BY TypeStep, PresupposedStep
<1> QED BY <1>1, <1>2, PTL DEF Spec

\* What a stage presupposes implies the three promises about states.
LEMMA PresupposedImplies ==
  TypeOK /\ StagesPresupposed
    => EvidenceIsCurrent /\ ReleasedAsApproved /\ StartIsNeverRefused
<1> SUFFICES ASSUME TypeOK, StagesPresupposed, NEW p \in Projects
             PROVE  LET r == project[p] IN
                    /\ r.stage \in PastImplementationGate => ReviewedImplementation(r)
                    /\ r.stage \in PastBacktestReview /\ r.backtest_required
                         => BacktestOfThisVersion(r)
                    /\ r.stage \in ReleasedStages =>
                         /\ granted[p].implementation = r.implementation
                         /\ r.backtest_required => granted[p].backtest = r.backtest.run
                    /\ r.stage \in {"ready_for_signal", "signal_stopped"} =>
                         r.artifact_kind = "signal" /\ AllGatesPassed(r)
  BY DEF EvidenceIsCurrent, ReleasedAsApproved, StartIsNeverRefused
<1> DEFINE r == project[p]
<1>1. ProjectInv(r, granted[p])
  BY DEF StagesPresupposed
<1>2. ReleasedStages \subseteq PastImplementationGate
      /\ ReleasedStages \subseteq PastBacktestReview
      /\ {"ready_for_signal", "signal_stopped"} \subseteq ReleasedStages
  BY DEF PastImplementationGate, PastBacktestReview, ReleasedStages, ReadyStages,
         RuntimeStages
<1>3. BacktestOfThisVersion(r) => r.backtest # NoBacktest
  BY DEF BacktestOfThisVersion, NoBacktest
<1>4. r.stage \in {"ready_for_signal", "signal_stopped"} =>
        r.artifact_kind = "signal" /\ AllGatesPassed(r)
  BY <1>1, <1>2, <1>3 DEF ProjectInv, AllGatesPassed, ReviewedImplementation, RuntimeStages
<1> QED BY <1>1, <1>2, <1>4 DEF ProjectInv

\* The evidence behind every stage belongs to the version under decision.
THEOREM EvidenceIsCurrentHolds == Spec => []EvidenceIsCurrent
BY TypeCorrect, StagesPresupposedHolds, PresupposedImplies, PTL

\* A released project was approved as it is.
THEOREM ReleasedAsApprovedHolds == Spec => []ReleasedAsApproved
BY TypeCorrect, StagesPresupposedHolds, PresupposedImplies, PTL

\* start_signal_runtime never refuses a Signal the gates let through.
THEOREM StartIsNeverRefusedHolds == Spec => []StartIsNeverRefused
BY TypeCorrect, StagesPresupposedHolds, PresupposedImplies, PTL

-----------------------------------------------------------------------------
\* Releases are frozen, and the machine implements the release contract.

\* A step changes the record of one project.
LEMMA OtherProjects ==
  ASSUME TypeOK, NEW p \in Projects, UserStep(p) \/ StaffStep(p)
  PROVE  /\ project' = [project EXCEPT ![p] = project'[p]]
         /\ \A q \in Projects : q # p => granted'[q] = granted[q]
<1>1. project \in [Projects -> StudioProject] /\ granted \in [Projects -> Grants]
  BY DEF TypeOK, Grants
<1>2. /\ \E n : Becomes(p, n)
      /\ \/ UNCHANGED granted
         \/ \E n : granted' = [granted EXCEPT ![p].implementation = n]
         \/ \E n : granted' = [granted EXCEPT ![p].backtest = n]
  BY DEF UserStep, StaffStep, Staff, SubmitArtifact, ApproveImplementation,
         ApproveOptimization, ReviewBacktest, ApproveLive, StartSignalRuntime,
         StopSignalRuntime, StrategyImplemented, ReviewImplementation,
         BacktestCompleted, ReviewBacktestEvidence, OptimizationCompleted,
         PublishSignal, ReportRuntimeError, ResolveRuntimeError
<1> QED BY <1>1, <1>2 DEF Becomes

\* A released project only runs, stops, fails, recovers and publishes.
LEMMA FrozenStepHolds == TypeOK /\ [Next]_vars => [FrozenStep]_vars
<1> SUFFICES ASSUME TypeOK, Next PROVE FrozenStep
  BY DEF vars
<1>1. PICK p \in Projects : UserStep(p) \/ StaffStep(p)
  BY DEF Next
<1> SUFFICES ASSUME NEW q \in Projects, project[q].stage \in ReleasedStages
             PROVE  /\ project'[q].stage \in ReleasedStages
                    /\ Release(project'[q]) = Release(project[q])
                    /\ granted'[q] = granted[q]
  BY DEF FrozenStep
<1>2. CASE q # p
  BY <1>1, <1>2, OtherProjects DEF TypeOK
<1>3. CASE q = p
  <2>1. \/ StartSignalRuntime(p) \/ StopSignalRuntime(p) \/ PublishSignal(p)
        \/ ReportRuntimeError(p) \/ \E a \in BOOLEAN : ResolveRuntimeError(p, a)
    BY <1>1, <1>3
       DEF UserStep, StaffStep, SubmitArtifact, ApproveImplementation,
           ApproveOptimization, ReviewBacktest, ApproveLive, StrategyImplemented,
           ReviewImplementation, BacktestCompleted, ReviewBacktestEvidence,
           OptimizationCompleted, AtStage, ReleasedStages, ReadyStages, RuntimeStages,
           ImplementationStages
  <2>2. project[p] \in StudioProject
    BY DEF TypeOK
  <2>3. granted'[p] = granted[p]
    BY <2>1 DEF StartSignalRuntime, StopSignalRuntime, PublishSignal, ReportRuntimeError,
                ResolveRuntimeError, Staff
  <2> DEFINE Frozen == /\ project'[p].stage \in ReleasedStages
                       /\ Release(project'[p]) = Release(project[p])
  <2>4. ASSUME NEW n, Becomes(p, n), n.stage \in ReleasedStages,
               Release(n) = Release(project[p])
        PROVE  Frozen
    BY <2>4, NewRecord
  <2> HIDE DEF Frozen
  <2>5. ASSUME StartSignalRuntime(p) PROVE Frozen
    <3> DEFINE n == [project[p] EXCEPT !.stage = "signal_running", !.runtime_error = FALSE]
    <3>1. n.stage \in ReleasedStages
      BY <2>2 DEF StudioProject, ReleasedStages, RuntimeStages
    <3>2. Release(n) = Release(project[p])
      BY <2>2 DEF Release, StudioProject
    <3>3. Becomes(p, n)
      BY <2>5 DEF StartSignalRuntime
    <3> QED BY <3>1, <3>2, <3>3, <2>4
  <2>6. ASSUME StopSignalRuntime(p) PROVE Frozen
    <3> DEFINE n == [project[p] EXCEPT !.stage = "signal_stopped"]
    <3>1. n.stage \in ReleasedStages
      BY <2>2 DEF StudioProject, ReleasedStages, RuntimeStages
    <3>2. Release(n) = Release(project[p])
      BY <2>2 DEF Release, StudioProject
    <3>3. Becomes(p, n)
      BY <2>6 DEF StopSignalRuntime
    <3> QED BY <3>1, <3>2, <3>3, <2>4
  <2>7. ASSUME PublishSignal(p) PROVE Frozen
    <3> DEFINE n == [project[p] EXCEPT !.signal_count = project[p].signal_count + 1]
    <3>1. n.stage \in ReleasedStages
      BY <2>2, <1>3 DEF StudioProject, ReleasedStages, RuntimeStages
    <3>2. Release(n) = Release(project[p])
      BY <2>2 DEF Release, StudioProject
    <3>3. Becomes(p, n)
      BY <2>7 DEF PublishSignal
    <3> QED BY <3>1, <3>2, <3>3, <2>4
  <2>8. ASSUME ReportRuntimeError(p) PROVE Frozen
    <3> DEFINE n == [project[p] EXCEPT !.runtime_error = TRUE, !.stage = "maintenance"]
    <3>1. n.stage \in ReleasedStages
      BY <2>2 DEF StudioProject, ReleasedStages, RuntimeStages
    <3>2. Release(n) = Release(project[p])
      BY <2>2 DEF Release, StudioProject
    <3>3. Becomes(p, n)
      BY <2>8 DEF ReportRuntimeError
    <3> QED BY <3>1, <3>2, <3>3, <2>4
  <2>9. ASSUME NEW a \in BOOLEAN, ResolveRuntimeError(p, a) PROVE Frozen
    <3> DEFINE n == [project[p] EXCEPT
                      !.runtime_error = FALSE,
                      !.stage = IF a THEN "signal_running" ELSE "signal_stopped"]
    <3>1. n.stage \in ReleasedStages
      BY <2>2 DEF StudioProject, ReleasedStages, RuntimeStages
    <3>2. Release(n) = Release(project[p])
      BY <2>2 DEF Release, StudioProject
    <3>3. Becomes(p, n)
      BY <2>9 DEF ResolveRuntimeError
    <3> QED BY <3>1, <3>2, <3>3, <2>4
  <2>10. Frozen
    BY <2>1, <2>5, <2>6, <2>7, <2>8, <2>9
  <2> QED BY <2>10, <2>3, <1>3 DEF Frozen
<1> QED BY <1>2, <1>3

\* No method alters what a released project was approved with.
THEOREM ReleaseIsFrozenHolds == Spec => ReleaseIsFrozen
<1>1. TypeOK /\ [Next]_vars => [FrozenStep]_vars
  BY FrozenStepHolds
<1> QED BY <1>1, TypeCorrect, PTL DEF Spec, ReleaseIsFrozen

\* One project's move seen by the release contract: from phase f with choice
\* b to phase t with choice c.
PhaseStep(f, b, t, c) ==
  \/ t = f /\ (f # "absent" => c = b)
  \/ f = "absent" /\ t = "building"
  \/ c = b /\ \/ f = "building" /\ t = "implementation_gate"
              \/ f = "implementation_gate" /\ t = "building"
              \/ b /\ f = "implementation_gate" /\ t = "researching"
              \/ ~b /\ f = "implementation_gate" /\ t = "live_gate"
              \/ b /\ f = "researching" /\ t \in {"backtest_gate", "building"}
              \/ b /\ f = "backtest_gate" /\ t \in {"researching", "live_gate"}
              \/ f = "live_gate" /\ t \in {"released", "implementation_gate"}

\* If every project moves like that, the contract takes a step.
LEMMA PhaseStepsAreGateSteps ==
  ASSUME \A q \in Projects :
           PhaseStep(Phase(project[q]), project[q].backtest_required,
                     Phase(project'[q]), project'[q].backtest_required)
  PROVE  Gates!Next
BY DEF PhaseStep, Gates!Next, Gates!Stays, Gates!Submit, Gates!Build,
       Gates!DecideImplementation, Gates!Research, Gates!DecideBacktest,
       Gates!DecideLive, Gates!Moves, Gates!ChoiceKept

\* Every method moves its project along the contract.
LEMMA GateStep == TypeOK /\ StagesPresupposed /\ [Next]_vars => [Gates!Next]_(Gates!vars)
<1> SUFFICES ASSUME TypeOK, StagesPresupposed, [Next]_vars
             PROVE  [Gates!Next]_(Gates!vars)
  OBVIOUS
<1>1. CASE UNCHANGED vars
  BY <1>1 DEF vars, Gates!vars
<1>2. CASE Next
  <2>1. PICK p \in Projects : UserStep(p) \/ StaffStep(p)
    BY <1>2 DEF Next
  <2> DEFINE r == project[p]
             n == project'[p]
             Moved == PhaseStep(Phase(r), r.backtest_required,
                                Phase(n), n.backtest_required)
  <2>t. project \in [Projects -> StudioProject] /\ r \in StudioProject
    BY DEF TypeOK
  <2>i. r.stage \in ResearchStages \cup {"awaiting_backtest_approval"}
          => r.backtest_required
    BY DEF StagesPresupposed, ProjectInv
  <2>b. r.backtest_required \in BOOLEAN /\ r.stage \in Stages
    BY <2>t DEF StudioProject
  <2>2. ASSUME \E kind \in Kinds, required \in BOOLEAN : SubmitArtifact(p, kind, required) PROVE Moved
    BY <2>2, <2>t, <2>i
       DEF SubmitArtifact, Becomes, AtStage, Absent, StudioProject, ImplementationStage, Phase, PhaseStep,
           ImplementationStages, ResearchStages, ReleasedStages, ReadyStages, RuntimeStages
  <2>3. ASSUME \E a \in BOOLEAN : ApproveImplementation(p, a) PROVE Moved
    <3>1. /\ r.stage = "awaiting_implementation_approval"
          /\ n.backtest_required = r.backtest_required
          /\ n.stage \in IF r.backtest_required
                           THEN {"backtesting"} \cup ImplementationStages
                           ELSE {"awaiting_live_approval"} \cup ImplementationStages
      <4> DEFINE y == [r EXCEPT !.implementation_approved = TRUE,
                                 !.stage = IF r.backtest_required THEN "backtesting"
                                           ELSE "awaiting_live_approval"]
                 x == [r EXCEPT !.implementation_approved = FALSE,
                                 !.stage = ImplementationStage(r.artifact_kind),
                                 !.implementation = 0,
                                 !.implementation_review = NoReview]
      <4>1. r.stage = "awaiting_implementation_approval" /\ (n = y \/ n = x)
        BY <2>3, NewRecord DEF ApproveImplementation, AtStage
      <4>2. /\ y.backtest_required = r.backtest_required
            /\ x.backtest_required = r.backtest_required
            /\ y.stage = IF r.backtest_required THEN "backtesting"
                         ELSE "awaiting_live_approval"
            /\ x.stage = ImplementationStage(r.artifact_kind)
        BY <2>t DEF StudioProject
      <4> HIDE DEF x, y
      <4> QED BY <4>1, <4>2, ImplementationStageType
    <3> QED BY <3>1, <2>i, <2>b DEF Phase, PhaseStep, ImplementationStages, ResearchStages
  <2>4. ASSUME \E a \in BOOLEAN : ApproveOptimization(p, a) PROVE Moved
    <3>1. /\ r.stage = "awaiting_optimization_approval"
          /\ n.backtest_required = r.backtest_required
          /\ n.stage \in {"strategy_implementation", "awaiting_backtest_approval"}
      <4> DEFINE y == [r EXCEPT !.optimization_approved = "yes",
                                 !.stage = "strategy_implementation",
                                 !.implementation_review = NoReview,
                                 !.implementation_approved = FALSE,
                                 !.backtest = NoBacktest,
                                 !.backtest_review = NoReview,
                                 !.backtest_approved = FALSE,
                                 !.live_approved = FALSE]
                 x == [r EXCEPT !.optimization_approved = "no",
                                 !.stage = "awaiting_backtest_approval"]
      <4>1. r.stage = "awaiting_optimization_approval" /\ (n = y \/ n = x)
        BY <2>4, NewRecord DEF ApproveOptimization, AtStage
      <4>2. /\ y.backtest_required = r.backtest_required
            /\ x.backtest_required = r.backtest_required
            /\ y.stage = "strategy_implementation"
            /\ x.stage = "awaiting_backtest_approval"
        BY <2>t DEF StudioProject
      <4> HIDE DEF x, y
      <4> QED BY <4>1, <4>2
    <3> QED BY <3>1, <2>i, <2>b DEF Phase, PhaseStep, ImplementationStages, ResearchStages
  <2>5. ASSUME \E a \in BOOLEAN : ReviewBacktest(p, a) PROVE Moved
    <3>1. /\ r.stage = "awaiting_backtest_approval"
          /\ n.backtest_required = r.backtest_required
          /\ n.stage \in {"awaiting_live_approval", "backtesting"}
      BY <2>5, <2>t DEF ReviewBacktest, Becomes, AtStage, StudioProject
    <3> QED BY <3>1, <2>i, <2>b DEF Phase, PhaseStep, ImplementationStages, ResearchStages
  <2>6. ASSUME \E a \in BOOLEAN : ApproveLive(p, a) PROVE Moved
    <3>1. /\ r.stage = "awaiting_live_approval"
          /\ n.backtest_required = r.backtest_required
          /\ n.stage \in ReadyStages \cup {"awaiting_implementation_approval"}
      <4> DEFINE y == [r EXCEPT !.live_approved = TRUE,
                                 !.stage = IF r.artifact_kind = "signal"
                                           THEN "ready_for_signal"
                                           ELSE "ready_for_trading"]
                 x == [r EXCEPT !.live_approved = FALSE,
                                 !.stage = "awaiting_implementation_approval"]
      <4>1. r.stage = "awaiting_live_approval" /\ (n = y \/ n = x)
        BY <2>6, NewRecord DEF ApproveLive, AtStage
      <4>2. /\ y.backtest_required = r.backtest_required
            /\ x.backtest_required = r.backtest_required
            /\ y.stage = IF r.artifact_kind = "signal" THEN "ready_for_signal"
                         ELSE "ready_for_trading"
            /\ x.stage = "awaiting_implementation_approval"
        BY <2>t DEF StudioProject
      <4> HIDE DEF x, y
      <4> QED BY <4>1, <4>2 DEF ReadyStages
    <3> QED BY <3>1, <2>b DEF Phase, PhaseStep, ImplementationStages, ResearchStages,
                              ReadyStages
  <2>7. ASSUME StartSignalRuntime(p) PROVE Moved
    BY <2>7, <2>t, <2>i
       DEF StartSignalRuntime, Becomes, AtStage, Absent, StudioProject, ImplementationStage, Phase, PhaseStep,
           ImplementationStages, ResearchStages, ReleasedStages, ReadyStages, RuntimeStages
  <2>8. ASSUME StopSignalRuntime(p) PROVE Moved
    BY <2>8, <2>t, <2>i
       DEF StopSignalRuntime, Becomes, AtStage, Absent, StudioProject, ImplementationStage, Phase, PhaseStep,
           ImplementationStages, ResearchStages, ReleasedStages, ReadyStages, RuntimeStages
  <2>9. ASSUME StrategyImplemented(p) PROVE Moved
    BY <2>9, <2>t, <2>i
       DEF StrategyImplemented, Becomes, AtStage, Absent, StudioProject, ImplementationStage, Phase, PhaseStep,
           ImplementationStages, ResearchStages, ReleasedStages, ReadyStages, RuntimeStages
  <2>10. ASSUME \E a \in BOOLEAN : ReviewImplementation(p, a) PROVE Moved
    BY <2>10, <2>t, <2>i
       DEF ReviewImplementation, Becomes, AtStage, Absent, StudioProject, ImplementationStage, Phase, PhaseStep,
           ImplementationStages, ResearchStages, ReleasedStages, ReadyStages, RuntimeStages
  <2>11. ASSUME BacktestCompleted(p) PROVE Moved
    BY <2>11, <2>t, <2>i
       DEF BacktestCompleted, Becomes, AtStage, Absent, StudioProject, ImplementationStage, Phase, PhaseStep,
           ImplementationStages, ResearchStages, ReleasedStages, ReadyStages, RuntimeStages
  <2>12. ASSUME \E a \in BOOLEAN : ReviewBacktestEvidence(p, a) PROVE Moved
    BY <2>12, <2>t, <2>i
       DEF ReviewBacktestEvidence, Becomes, AtStage, Absent, StudioProject, ImplementationStage, Phase, PhaseStep,
           ImplementationStages, ResearchStages, ReleasedStages, ReadyStages, RuntimeStages
  <2>13. ASSUME OptimizationCompleted(p) PROVE Moved
    BY <2>13, <2>t, <2>i
       DEF OptimizationCompleted, Becomes, AtStage, Absent, StudioProject, ImplementationStage, Phase, PhaseStep,
           ImplementationStages, ResearchStages, ReleasedStages, ReadyStages, RuntimeStages
  <2>14. ASSUME PublishSignal(p) PROVE Moved
    BY <2>14, <2>t, <2>i
       DEF PublishSignal, Becomes, AtStage, Absent, StudioProject, ImplementationStage, Phase, PhaseStep,
           ImplementationStages, ResearchStages, ReleasedStages, ReadyStages, RuntimeStages
  <2>15. ASSUME ReportRuntimeError(p) PROVE Moved
    BY <2>15, <2>t, <2>i
       DEF ReportRuntimeError, Becomes, AtStage, Absent, StudioProject, ImplementationStage, Phase, PhaseStep,
           ImplementationStages, ResearchStages, ReleasedStages, ReadyStages, RuntimeStages
  <2>16. ASSUME \E a \in BOOLEAN : ResolveRuntimeError(p, a) PROVE Moved
    BY <2>16, <2>t, <2>i
       DEF ResolveRuntimeError, Becomes, AtStage, Absent, StudioProject, ImplementationStage, Phase, PhaseStep,
           ImplementationStages, ResearchStages, ReleasedStages, ReadyStages, RuntimeStages
  <2>m. Moved
    BY <2>1, <2>2, <2>3, <2>4, <2>5, <2>6, <2>7, <2>8, <2>9, <2>10, <2>11, <2>12, <2>13, <2>14, <2>15, <2>16 DEF UserStep, StaffStep
  <2>o. ASSUME NEW q \in Projects, q # p
        PROVE  PhaseStep(Phase(project[q]), project[q].backtest_required,
                         Phase(project'[q]), project'[q].backtest_required)
    BY <2>1, <2>o, <2>t, OtherProjects DEF PhaseStep
  <2> QED BY <2>m, <2>o, PhaseStepsAreGateSteps
<1> QED BY <1>1, <1>2

LEMMA GateInit == Init => Gates!Init
<1> SUFFICES ASSUME Init PROVE Gates!Init
  OBVIOUS
<1>1. \A p \in Projects : project[p] = Absent("strategy", TRUE)
  BY DEF Init
<1> DEFINE a == Absent("strategy", TRUE)
<1>a. a.stage = "absent"
  BY DEF Absent
<1> HIDE DEF a
<1>2. Phase(a) = "absent"
  BY <1>a DEF Phase, ImplementationStages, ResearchStages
<1> USE DEF a
<1>3. Absent("strategy", TRUE).backtest_required \in BOOLEAN
  BY AbsentType DEF StudioProject
<1> QED BY <1>1, <1>2, <1>3 DEF Gates!Init

\* Every behaviour of the workflow is a behaviour of the release contract.
THEOREM ImplementsReleaseGates == Spec => GatesRespected
<1>1. Init => Gates!Init
  BY GateInit
<1>2. TypeOK /\ StagesPresupposed /\ [Next]_vars => [Gates!Next]_(Gates!vars)
  BY GateStep
<1> QED BY <1>1, <1>2, TypeCorrect, StagesPresupposedHolds, PTL
     DEF Spec, GatesRespected, Gates!Spec
=============================================================================
