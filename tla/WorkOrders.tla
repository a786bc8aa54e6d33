----------------------------- MODULE WorkOrders -----------------------------
(***************************************************************************)
(* The durable work orders of Quant Studio (studio/gateway.py): the single *)
(* Codex worker that claims and executes them, the user's gate decisions,  *)
(* cancellation and remediation, and the recovery pass that runs whenever  *)
(* the worker starts.                                                      *)
(*                                                                         *)
(* The Gateway is one asyncio loop and JsonStateStore.update never         *)
(* suspends, so the code between two real awaits is one action.  The       *)
(* awaits are an agent turn, the dataset materializer, the end of the      *)
(* heartbeat task in _execute's finally block, the creation of the         *)
(* execution task and the worker's polling loop; between them every other  *)
(* handler may run, and the process may stop or be killed.                 *)
(*                                                                         *)
(* At each of those awaits the results and the stage that _execute keeps   *)
(* in local variables equal the ones it has stored, so a work order is one *)
(* record and an execution is a position of the worker.  Agents and the    *)
(* user are the environment.  A Strategy handoff and the version whose     *)
(* manifest it may leave, a dataset and a backtest are numbers, 0 standing *)
(* for None; a review is what it reviewed and its verdict.                 *)
(***************************************************************************)
EXTENDS Integers, FiniteSetsExt

CONSTANTS
  MaxOrders,          \* bound: work orders ever created
  MaxAttempts,        \* max_attempts: counted failures per order (30)
  SameIssueLimit,     \* same_issue_limit: repetitions of one issue (5)
  Findings,           \* stable issue identifiers a review may report
  Profiles,           \* what may be submitted: <<agent, kind, backtest_required>>
  MaterializedKinds,  \* artifact kinds the dataset materializer can resolve
  Events,             \* environment events an instance explores
  RetryStages,        \* stages from which the operator retries an order
  Legacy,             \* orders an older Gateway may have left in the store
  MaxVersions,        \* bound: Strategy handoffs and manifests of an order
  MaxRuns,            \* bound: backtests an order completes
  MaxFaults           \* bound: quota errors, stops and crashes together

ASSUME BoundsAssumption ==
  /\ MaxOrders \in Nat /\ MaxVersions \in Nat /\ MaxRuns \in Nat
  /\ MaxFaults \in Nat
  /\ MaxAttempts \in Nat \ {0} /\ SameIssueLimit \in Nat \ {0}

ASSUME ProfilesAssumption ==
  Profiles \subseteq {"strategy", "maintenance"} \X {"signal", "strategy"} \X BOOLEAN

VARIABLES
  order,             \* state["work_orders"], by creation number
  circuit,           \* state["codex_circuit"]: "closed" or "open"
  deadLetters,       \* entries of state["dead_letters"], per order
  blocked,           \* active entries of state["user_blockers"]: orders, Login
  worker,            \* where the worker task is
  active,            \* _active_id, 0 for None
  cancelRequested,   \* _cancel_requested
  faults             \* faults the environment has injected so far

vars == <<order, circuit, deadLetters, blocked, worker, active, cancelRequested, faults>>

Orders == 1..MaxOrders

-----------------------------------------------------------------------------
(* Records                                                                 *)

\* _EXECUTABLE_STAGES
ResearchStages == {"dataset", "backtest", "review_backtest", "optimize"}
ReviewStages == {"review_implementation", "review_backtest"}
ExecutableStages ==
  {"strategy", "review_implementation", "maintenance"} \cup ResearchStages

Gates == {"implementation", "optimization", "backtest", "live"}

\* The status in which a gate's decision is awaited.
AwaitingStatus(gate) ==
  CASE gate = "implementation" -> "awaiting_implementation_approval"
    [] gate = "optimization"   -> "awaiting_optimization_approval"
    [] gate = "backtest"       -> "awaiting_backtest_approval"
    [] OTHER                   -> "awaiting_live_approval"

GateStatuses == {AwaitingStatus(gate) : gate \in Gates}

Statuses == {"absent", "queued", "working", "awaiting_user_input", "approved",
             "failed", "dead_letter", "cancelled"} \cup GateStatuses

Stages == {"absent", "approval", "released", "failed", "cancelled"} \cup ExecutableStages

\* A failure is counted under its stage and its issue: a stable identifier
\* the review reported, or the text of the failure itself.
IssueKeys ==
  ExecutableStages \X ({"timeout", "incomplete", "acquisition", "legacy"} \cup Findings)

\* What a review's report says.  "unchecked" is a report whose first line is
\* PASS and which is incomplete all the same; "native" is the fixed text of
\* _recover_completed_backtest_orders.
Verdicts == {"none", "pass", "fail", "incomplete", "unchecked", "native"}

\* _review_passed reads the first line of the report only; _review_outcome,
\* which a live review goes through, is "pass" for the verdict "pass" alone.
FirstLinePasses(verdict) == verdict \in {"pass", "unchecked", "native"}

Evidence == [of : Int, run : Nat]
NoEvidence == [of |-> 0, run |-> 0]

Results ==
  [strategy : Int, dataset : Int,
   review_implementation : [of : Int, verdict : Verdicts],
   backtest : Evidence,
   review_backtest : [of : Nat, verdict : Verdicts],
   optimization : {"none", "incomplete", "proposal", "approved"}]

NoResults ==
  [strategy |-> 0, dataset |-> 0,
   review_implementation |-> [of |-> 0, verdict |-> "none"],
   backtest |-> NoEvidence,
   review_backtest |-> [of |-> 0, verdict |-> "none"],
   optimization |-> "none"]

Decisions == {"none", "yes", "no"}
NoApprovals == [gate \in Gates |-> "none"]
NoIssues == [key \in IssueKeys |-> 0]

WorkOrder ==
  [status : Statuses, stage : Stages,
   agent : {"strategy", "maintenance"}, kind : {"signal", "strategy"},
   backtestRequired : BOOLEAN, operation : {"build", "adopt"},
   results : Results, approvals : [Gates -> Decisions],
   attempts : Nat, issues : [IssueKeys -> Nat],
   delayed : BOOLEAN,                              \* retry_not_before is set
   error : {"none", "timeout", "quota", "misread", "other"},  \* class of last_error
   version : Int,          \* artifact_version: 0 unbound, -1 adopted
   recorded : Int,         \* version in the order's ArtifactRegistry record
   made : Nat,             \* Strategy handoffs written for the order
   manifests : SUBSET Nat, \* handoffs whose manifest is in the repository
   runs : Nat,             \* backtests completed
   report : Evidence,      \* first report in reports/ that names the order
   optimizeSeen : BOOLEAN, \* some checkpoint has stage "optimize"
   approvedFor : Int,      \* strategy result the implementation approval was for
   inherited : BOOLEAN]    \* created by an older Gateway

Adopted == -1

\* The "codex_readiness" entry among the requests to the user.
Login == 0

NewOrder(agent, kind, required) ==
  [status |-> "queued", stage |-> agent,   \* "stage or agent": none is stored yet
   agent |-> agent, kind |-> kind, backtestRequired |-> required,
   operation |-> "build", results |-> NoResults, approvals |-> NoApprovals,
   attempts |-> 0, issues |-> NoIssues, delayed |-> FALSE, error |-> "none",
   version |-> 0, recorded |-> 0, made |-> 0, manifests |-> {}, runs |-> 0,
   report |-> NoEvidence,
   optimizeSeen |-> FALSE, approvedFor |-> 0, inherited |-> FALSE]

AbsentOrder ==
  [NewOrder("strategy", "strategy", TRUE) EXCEPT !.status = "absent", !.stage = "absent"]

Executing == {"created", "dataset", "turn", "closing", "raising"}
WorkerStates == {"down", "polling", "dead"} \cup Executing

TypeOK ==
  /\ order \in [Orders -> WorkOrder]
  /\ circuit \in {"closed", "open"}
  /\ deadLetters \in [Orders -> Nat]
  /\ blocked \in SUBSET (Orders \cup {Login})
  /\ worker \in WorkerStates
  /\ active \in 0..MaxOrders
  /\ cancelRequested \in SUBSET Orders
  /\ faults \in Nat

\* An empty store under a running Gateway, or one that an older Gateway wrote
\* and that this one has not opened yet.
Init ==
  /\ \E first \in {AbsentOrder} \cup Legacy :
       /\ order = [o \in Orders |-> IF o = 1 THEN first ELSE AbsentOrder]
       /\ worker = IF first = AbsentOrder THEN "polling" ELSE "down"
  /\ circuit = "closed"
  /\ deadLetters = [o \in Orders |-> IF order[o].status = "dead_letter" THEN 1 ELSE 0]
  /\ blocked = {}
  /\ active = 0
  /\ cancelRequested = {}
  /\ faults = 0

-----------------------------------------------------------------------------
(* Updates of one work order                                               *)

OptimizationRequired(r) == r.kind = "strategy" /\ r.backtestRequired

\* _record_artifact raises when the bound version has no manifest, and when an
\* unbound order has several.
Recordable(r) == IF r.version = 0 THEN \A m, n \in r.manifests : m = n
                                  ELSE r.version \in r.manifests

\* _finish, up to the registry write.
Finished(r, status, stage) ==
  [r EXCEPT !.status = status, !.stage = stage, !.delayed = FALSE, !.error = "none"]

\* Mutant: the newest manifest is recorded, whatever version is bound.
RecordedNewest(r) ==
  [r EXCEPT !.recorded = IF ~Recordable(r) THEN @ ELSE Max(r.manifests \cup {0})]

\* What the registry record of the order names: the bound version, else the
\* only version there is, else none.
RecordedVersion(r) ==
  IF r.version = 0 /\ r.manifests # {} THEN CHOOSE m \in r.manifests : TRUE ELSE r.version

Recorded(r) ==
  [r EXCEPT !.recorded = IF Recordable(r) THEN RecordedVersion(r) ELSE @]

\* The "failed" branch of _execute: only the error text is kept as a result.
Failed(r) == Recorded([Finished(r, "failed", "failed") EXCEPT !.results = NoResults])

Cancelled(r) == Recorded(Finished(r, "cancelled", "cancelled"))

Exhausted(attempts, counts, keys) ==
  attempts >= MaxAttempts \/ \E key \in keys : counts[key] > SameIssueLimit

\* _requeue with count_attempt=True.
Requeued(r, stage, keys, error, delayed, userAction) ==
  LET attempts == r.attempts + 1
      counts == [key \in IssueKeys |-> r.issues[key] + (IF key \in keys THEN 1 ELSE 0)]
      dead == Exhausted(attempts, counts, keys)
  IN  [r EXCEPT
        !.status = IF dead THEN "dead_letter"
                   ELSE IF userAction THEN "awaiting_user_input" ELSE "queued",
        !.stage = stage, !.attempts = attempts, !.issues = counts, !.error = error,
        !.delayed = r.delayed \/ (delayed /\ ~dead)]

\* Mutant: the order keeps its status while it waits.
PausedStillWorking(r, error, delayed) ==
  [r EXCEPT !.error = error, !.delayed = r.delayed \/ delayed]

\* _requeue with count_attempt=False: quota errors and a stopping Gateway.
Paused(r, error, delayed) ==
  [r EXCEPT !.status = "queued", !.error = error, !.delayed = r.delayed \/ delayed]

\* _checkpoint
Checkpoint(r, stage) ==
  [r EXCEPT !.stage = stage, !.optimizeSeen = @ \/ stage = "optimize"]

\* Mutant: a failed implementation review goes back to a stage nobody executes.
ReturnStageUnknown(stage) ==
  IF stage = "review_implementation" THEN "implementation" ELSE "backtest"

ReturnStage(stage) == IF stage = "review_implementation" THEN "strategy" ELSE "backtest"

\* What a stage needs from the stages before it; _execute raises without it.
HandoffPresent(r) ==
  r.agent = "strategy" =>
    CASE r.stage = "strategy" -> TRUE
      [] r.stage = "review_implementation" -> r.results.strategy # 0
      [] r.stage \in {"dataset", "backtest"} -> r.backtestRequired /\ r.results.strategy # 0
      [] r.stage = "review_backtest" -> r.backtestRequired /\ r.results.backtest # NoEvidence
      [] r.stage = "optimize" ->
           /\ r.backtestRequired
           /\ r.results.backtest # NoEvidence
           /\ r.results.review_backtest.verdict # "none"
      [] OTHER -> FALSE

\* The report of a new backtest may sort before or after the one on disk.
FirstReports(r, new) == {new} \cup ({r.report} \ {NoEvidence})

-----------------------------------------------------------------------------
(* Effects shared by the actions                                           *)

Put(o, r) == order' = [order EXCEPT ![o] = r]

\* The lists the dashboard shows follow the status that _requeue chose.
Publish(o, r) ==
  /\ deadLetters' = [deadLetters EXCEPT
                       ![o] = @ + (IF r.status = "dead_letter" THEN 1 ELSE 0)]
  /\ blocked' = IF r.status = "awaiting_user_input" THEN blocked \cup {o} ELSE blocked

\* _execute returns: its finally block awaits the heartbeat task.
Requeue(o, r) ==
  /\ Put(o, r)
  /\ Publish(o, r)
  /\ worker' = "closing"
  /\ UNCHANGED <<active, cancelRequested>>

\* _execute fails: _finish("failed"), whose own registry write may raise again
\* and so end the worker.
Fail(o) ==
  /\ Put(o, Failed(order[o]))
  /\ worker' = IF Recordable(order[o]) THEN "closing" ELSE "raising"
  /\ UNCHANGED <<circuit, deadLetters, blocked, active, cancelRequested, faults>>

\* _finish at a gate; a registry write that raises turns it into a failure.
Present(o, r, gate) ==
  /\ Put(o, IF Recordable(r) THEN Recorded(Finished(r, AwaitingStatus(gate), "approval"))
            ELSE Failed(r))
  /\ worker' = IF Recordable(r) THEN "closing" ELSE "raising"
  /\ UNCHANGED <<circuit, deadLetters, blocked, active, cancelRequested, faults>>

\* A checkpoint inside _execute: the next agent turn starts at once.
HandOver(o, r) ==
  /\ Put(o, r)
  /\ worker' = "turn"
  /\ UNCHANGED <<circuit, deadLetters, blocked, active, cancelRequested, faults>>

GatewayUp == worker # "down"
InTurn(o, stages) == worker = "turn" /\ active = o /\ order[o].stage \in stages
Fault == faults < MaxFaults /\ faults' = faults + 1
Quiet == UNCHANGED <<circuit, deadLetters, blocked, worker, active, cancelRequested, faults>>

-----------------------------------------------------------------------------
(* The user and the operator                                               *)

NextFree(o) == order[o].status = "absent" /\ \A p \in 1..(o - 1) : order[p].status # "absent"

\* handle_manager_message: add or modify an artifact, or repair an incident.
Submit(o, profile) ==
  /\ GatewayUp /\ NextFree(o)
  /\ Put(o, NewOrder(profile[1], profile[2], profile[3]))
  /\ Quiet

\* The statuses in which an adoption order blocks another one of its artifact.
AdoptionPending == {"queued", "working", "awaiting_implementation_approval",
                    "awaiting_backtest_approval", "awaiting_live_approval", "approved"}

\* handle_artifact_adoption: an existing version, straight to its review.
Adopt(o, kind, required) ==
  /\ GatewayUp /\ NextFree(o) /\ "adopt" \in Events
  /\ ~ \E p \in Orders : /\ order[p].operation = "adopt" /\ order[p].kind = kind
                         /\ order[p].version = Adopted
                         /\ order[p].status \in AdoptionPending
  /\ Put(o, [NewOrder("strategy", kind, required) EXCEPT
               !.operation = "adopt", !.version = Adopted,
               !.stage = "review_implementation", !.results.strategy = Adopted])
  /\ Quiet

\* Mutant: a backtest approval left over from an earlier version is reused.
DecidedImplementationReusesBacktest(r, approved) ==
  IF ~approved
  THEN [r EXCEPT !.status = "queued", !.stage = "strategy", !.results = NoResults,
                 !.approvals["implementation"] = "no"]
  ELSE LET research == r.backtestRequired /\ r.approvals["backtest"] # "yes"
       IN  [r EXCEPT !.status = IF research THEN "queued" ELSE "awaiting_live_approval",
                     !.stage = IF research THEN "dataset" ELSE "approval",
                     !.approvals["implementation"] = "yes",
                     !.approvedFor = r.results.strategy]

\* handle_work_order_approval: the record after a decision at a gate.
DecidedImplementation(r, approved) ==
  IF ~approved
  THEN [r EXCEPT !.status = "queued", !.stage = "strategy", !.results = NoResults,
                 !.approvals["implementation"] = "no"]
  ELSE [r EXCEPT !.status = IF r.backtestRequired THEN "queued"
                            ELSE "awaiting_live_approval",
                 !.stage = IF r.backtestRequired THEN "dataset" ELSE "approval",
                 !.approvals["implementation"] = "yes",
                 !.approvedFor = r.results.strategy]

DecidedOptimization(r, approved) ==
  IF approved
  THEN [r EXCEPT !.status = "queued", !.stage = "strategy", !.operation = "build",
                 !.results = [NoResults EXCEPT !.optimization = "approved"],
                 !.attempts = 0, !.issues = NoIssues, !.approvals = NoApprovals]
  ELSE [r EXCEPT !.status = "awaiting_backtest_approval",
                 !.approvals["optimization"] = "no"]

\* Mutant: rejected evidence is dropped and only its review repeated.
DecidedBacktestRepeatsReview(r, approved) ==
  IF ~approved
  THEN [r EXCEPT !.status = "queued", !.stage = "review_backtest",
                 !.results.backtest = NoEvidence,
                 !.approvals["backtest"] = "no"]
  ELSE [r EXCEPT !.status = "awaiting_live_approval", !.approvals["backtest"] = "yes"]

DecidedBacktest(r, approved) ==
  IF ~approved
  THEN [r EXCEPT !.status = "queued", !.stage = "backtest",
                 !.results = [r.results EXCEPT !.backtest = NoEvidence,
                                !.review_backtest = NoResults.review_backtest,
                                !.optimization = "none"],
                 !.approvals = [r.approvals EXCEPT !["backtest"] = "no",
                                                   !["optimization"] = "none"]]
  ELSE [r EXCEPT !.status = "awaiting_live_approval", !.approvals["backtest"] = "yes"]

DecidedLive(r, approved) ==
  IF ~approved
  THEN [r EXCEPT !.status = "awaiting_implementation_approval",
                 !.approvals["live"] = "no"]
  ELSE [r EXCEPT !.status = "approved", !.stage = "released", !.approvals["live"] = "yes"]

Decided(r, gate, approved) ==
  CASE gate = "implementation" -> DecidedImplementation(r, approved)
    [] gate = "optimization"   -> DecidedOptimization(r, approved)
    [] gate = "backtest"       -> DecidedBacktest(r, approved)
    [] OTHER                   -> DecidedLive(r, approved)

Decide(o, gate, approved) ==
  /\ GatewayUp
  /\ order[o].status = AwaitingStatus(gate)
  /\ Put(o, Decided(order[o], gate, approved))
  /\ Quiet

\* cancel: an order that is not being executed is cancelled in the store.
\* The active one is cancelled through its task.  During a turn _execute
\* records it and raises, which ends the worker; a task that has not started
\* just disappears, which also ends the worker; while the heartbeat is being
\* awaited the cancellation is swallowed.
Cancel(o) ==
  /\ GatewayUp /\ "cancel" \in Events
  /\ order[o].status \in {"queued", "working"}
  /\ \/ /\ active # o
        /\ Put(o, [order[o] EXCEPT !.status = "cancelled", !.stage = "cancelled"])
        /\ UNCHANGED <<worker, active, cancelRequested>>
     \/ /\ active = o /\ worker \in {"dataset", "turn"}
        /\ Put(o, Cancelled(order[o]))
        /\ worker' = "raising"
        /\ UNCHANGED <<active, cancelRequested>>
     \/ /\ active = o /\ worker = "created"
        /\ worker' = "dead" /\ active' = 0
        /\ cancelRequested' = cancelRequested \cup {o}
        /\ UNCHANGED order
     \/ /\ active = o /\ worker = "closing"
        /\ cancelRequested' = cancelRequested \cup {o}
        /\ UNCHANGED <<order, worker, active>>
  /\ UNCHANGED <<circuit, deadLetters, blocked, faults>>

\* Mutant: any reviewed implementation counts as an approved one.
PreservesAnyReviewed(r, version) ==
  /\ r.agent = "strategy"
  /\ r.version = version
  /\ r.results.strategy # 0
  /\ r.results.review_implementation.verdict # "none"

\* Only backtest evidence needs work: the approved implementation stays.
PreservesImplementation(r, version) ==
  /\ r.agent = "strategy"
  /\ r.stage \in {"backtest", "review_backtest"}
  /\ r.approvals["implementation"] = "yes"
  /\ r.version = version
  /\ r.results.strategy # 0
  /\ r.results.review_implementation.verdict # "none"

\* Mutant: the order resumes where it stopped, with its approvals dropped.
RemediatedInPlace(r, version) ==
  [r EXCEPT !.status = "queued", !.attempts = 0, !.issues = NoIssues,
            !.version = version, !.error = "none", !.delayed = FALSE,
            !.approvals = NoApprovals]

\* Mutant: the counts of repeated issues survive the operator's retry.
RemediatedKeepsIssues(r, version) ==
  [r EXCEPT !.status = "queued", !.attempts = 0, !.version = version,
            !.error = "none", !.delayed = FALSE, !.stage = r.agent,
            !.approvals = NoApprovals]

Remediated(r, version) ==
  LET fresh == [r EXCEPT !.status = "queued", !.attempts = 0, !.issues = NoIssues,
                         !.version = version, !.error = "none", !.delayed = FALSE]
  IN  IF PreservesImplementation(r, version)
      THEN [fresh EXCEPT
              !.stage = "backtest",
              !.results = [r.results EXCEPT !.backtest = NoEvidence,
                             !.review_backtest = NoResults.review_backtest],
              !.approvals = [NoApprovals EXCEPT !["implementation"] = "yes"]]
      ELSE [fresh EXCEPT
              !.stage = r.agent,
              !.approvals = IF r.agent = "strategy" THEN NoApprovals ELSE r.approvals]

\* Mutant: the request to the user stays active.
RetryDeadLetterKeepsBlocker(o, version) ==
  /\ GatewayUp /\ "retry" \in Events
  /\ order[o].status \in {"dead_letter", "failed", "awaiting_user_input"}
  /\ order[o].stage \in RetryStages
  /\ version \in order[o].manifests
  /\ Put(o, Remediated(order[o], version))
  /\ deadLetters' = [deadLetters EXCEPT ![o] = 0]
  /\ UNCHANGED <<circuit, blocked, worker, active, cancelRequested, faults>>

\* retry_dead_letter_after_remediation, for a version whose manifest exists.
RetryDeadLetter(o, version) ==
  /\ GatewayUp /\ "retry" \in Events
  /\ order[o].status \in {"dead_letter", "failed", "awaiting_user_input"}
  /\ order[o].stage \in RetryStages
  /\ version \in order[o].manifests
  /\ Put(o, Remediated(order[o], version))
  /\ deadLetters' = [deadLetters EXCEPT ![o] = 0]
  /\ blocked' = blocked \ {o}
  /\ UNCHANGED <<circuit, worker, active, cancelRequested, faults>>

-----------------------------------------------------------------------------
(* The recovery pass at the start of _run                                  *)

\* A stage nobody executes falls back to the first one of the agent.
ResumeStage(r) == IF r.stage \in ExecutableStages THEN r.stage ELSE r.agent

\* Mutant: orders that were being executed are left as they are.
RecoverInterruptedNot(r) == r

\* _recover_interrupted_orders
RecoverInterrupted(r) ==
  IF r.status = "working" THEN [r EXCEPT !.status = "queued", !.stage = ResumeStage(r)]
  ELSE r

\* The orders _recover_optimizer_stage_regressions takes for orders whose
\* optimizer stage an older Gateway rewrote to "strategy".
OptimizerRegressed(r) ==
  /\ r.status = "dead_letter" /\ r.agent = "strategy" /\ r.stage = "strategy"
  /\ OptimizationRequired(r)
  /\ r.results.optimization = "none"
  /\ r.results.review_backtest.verdict = "pass"
  /\ r.optimizeSeen
  /\ r.error = "timeout"

StrategyTimeout == <<"strategy", "timeout">>

RecoverOptimizer(r) ==
  IF OptimizerRegressed(r)
  THEN [r EXCEPT !.status = "queued", !.stage = "optimize", !.error = "none",
                 !.attempts = IF @ > r.issues[StrategyTimeout]
                              THEN @ - r.issues[StrategyTimeout] ELSE 0,
                 !.issues[StrategyTimeout] = 0,
                 !.delayed = FALSE]
  ELSE r

\* _recover_passed_review_dead_letters: a PASS that an older Gateway misread.
\* The order returns to its gate with the failures it has used up.
PassMisread(r) ==
  /\ r.status = "dead_letter" /\ r.error = "misread"
  /\ FirstLinePasses(r.results.review_implementation.verdict)
  /\ r.approvals["implementation"] = "none"

RecoverPassed(r) ==
  IF PassMisread(r)
  THEN [r EXCEPT !.status = AwaitingStatus("implementation"), !.stage = "approval",
                 !.error = "none"]
  ELSE r

\* The review on which an order at a gate rests.
GateReview(r) ==
  CASE r.status = AwaitingStatus("implementation") -> "review_implementation"
    [] r.status = AwaitingStatus("backtest")       -> "review_backtest"
    [] OTHER                                       -> "none"

FailedReviewShown(r) ==
  /\ GateReview(r) # "none"
  /\ r.results[GateReview(r)].verdict # "none"
  /\ ~FirstLinePasses(r.results[GateReview(r)].verdict)

\* Mutant: an order at a gate is taken for a reviewed one.
RecoverFailedNot(r, userAction) == r

\* _recover_failed_review_orders: a gate that an older Gateway opened on a
\* report whose first line is no PASS is closed, and the failure counted like
\* that of a live review.  An unchecked report stays at its gate.
RecoverFailed(r, userAction) ==
  LET review == GateReview(r)
      issues == IF r.results[review].verdict = "fail" THEN Findings ELSE {"legacy"}
  IN  IF FailedReviewShown(r)
      THEN Requeued(r, ReturnStage(review), {review} \X issues, "other", FALSE, userAction)
      ELSE r

\* The orders whose backtest a quota error interrupted and for which a
\* complete report is on disk.
BacktestLeftBehind(r) ==
  /\ r.agent = "strategy" /\ r.status = "queued" /\ r.stage = "backtest"
  /\ r.backtestRequired
  /\ r.results.strategy # 0
  /\ r.error = "quota"
  /\ r.report # NoEvidence

\* Mutant: the evidence is restored, its review is not.
RecoverBacktestUnreviewed(r) ==
  LET found == [r EXCEPT !.results.backtest = r.report]
  IN  IF ~BacktestLeftBehind(r) THEN r
      ELSE IF OptimizationRequired(r) THEN Checkpoint(found, "optimize")
      ELSE Recorded(Finished(found, "awaiting_backtest_approval", "approval"))

\* Mutant: recovered evidence counts as approved.
RecoverBacktestToLive(r) ==
  IF ~BacktestLeftBehind(r) THEN r
  ELSE Recorded(Finished([r EXCEPT !.results.backtest = r.report],
                         "awaiting_live_approval", "approval"))

\* _recover_completed_backtest_orders: the report becomes the evidence, and a
\* fixed text beginning with PASS its review.  An order that has reached its
\* backtest is bound to a version with a manifest, so the registry write of
\* _finish does not raise here.
RecoverBacktest(r) ==
  LET native == [r EXCEPT !.results.backtest = r.report,
                   !.results.review_backtest = [of |-> r.report.run, verdict |-> "native"]]
  IN  IF ~BacktestLeftBehind(r) THEN r
      ELSE IF OptimizationRequired(r) THEN Checkpoint(native, "optimize")
      ELSE Recorded(Finished(native, "awaiting_backtest_approval", "approval"))

\* _clear_terminal_retry_metadata
ClearRetry(r) == [r EXCEPT !.delayed = @ /\ r.status \in {"queued", "working"}]

\* The passes before the Codex work is read again, in the order of _run.
\* _migrate_optimization_workflow changes nothing here: _create_work_order
\* stores optimization_required.
Repaired(r, userAction) ==
  RecoverFailed(RecoverPassed(RecoverOptimizer(RecoverInterrupted(r))), userAction)

\* Mutant: only the orders of the optimizer pass leave the dead-letter queue.
RevivedByOptimizer(r) == OptimizerRegressed(r)

\* The passes that take an order out of the dead-letter queue.
Revived(r) == OptimizerRegressed(r) \/ PassMisread(r)

StartWorker(stored) ==
  \E asking \in SUBSET {o \in Orders : FailedReviewShown(stored[o])} :
    LET repaired == [o \in Orders |-> Repaired(stored[o], o \in asking)] IN
    /\ order' = [o \in Orders |-> ClearRetry(RecoverBacktest(repaired[o]))]
    /\ deadLetters' = [o \in Orders |->
         IF Revived(stored[o]) THEN 0
         ELSE IF FailedReviewShown(stored[o]) /\ repaired[o].status = "dead_letter"
         THEN deadLetters[o] + 1 ELSE deadLetters[o]]
    /\ blocked' = blocked \cup {o \in asking : repaired[o].status = "awaiting_user_input"}
    /\ worker' = "polling" /\ active' = 0

\* start_service
GatewayStart ==
  /\ worker = "down"
  /\ StartWorker(order)
  /\ UNCHANGED <<circuit, cancelRequested, faults>>

\* resume_after_quota_reset: close the circuit and restart the worker.
ResumeAfterQuota(selected) ==
  /\ "resume" \in Events
  /\ worker \in {"polling", "dead"}
  /\ circuit' = "closed"
  /\ StartWorker([o \in Orders |->
       IF o \in selected /\ order[o].status = "queued" /\ order[o].error = "quota"
       THEN [order[o] EXCEPT !.delayed = FALSE] ELSE order[o]])
  /\ UNCHANGED <<cancelRequested, faults>>

\* close_service: the active order is cancelled through the worker task.
GatewayStop ==
  /\ GatewayUp /\ "stop" \in Events /\ Fault
  /\ order' = IF worker \in {"dataset", "turn"}
              THEN [order EXCEPT ![active] =
                      IF active \in cancelRequested THEN Cancelled(@)
                      ELSE Paused(@, "other", FALSE)]
              ELSE order
  /\ worker' = "down" /\ active' = 0 /\ cancelRequested' = {}
  /\ UNCHANGED <<circuit, deadLetters, blocked>>

\* The process is killed: only the store survives.
Crash ==
  /\ GatewayUp /\ "crash" \in Events /\ Fault
  /\ worker' = "down" /\ active' = 0 /\ cancelRequested' = {}
  /\ UNCHANGED <<order, circuit, deadLetters, blocked>>

-----------------------------------------------------------------------------
(* The worker                                                              *)

Claimable == {o \in Orders : order[o].status = "queued" /\ ~order[o].delayed}

\* Mutant: the circuit is not consulted before a claim.
ClaimIgnoresCircuit(o) ==
  /\ worker = "polling"
  /\ Claimable # {} /\ o = Min(Claimable)
  /\ Put(o, [order[o] EXCEPT !.status = "working", !.error = "none"])
  /\ worker' = "created" /\ active' = o
  /\ blocked' = blocked \ {Login}
  /\ UNCHANGED <<circuit, deadLetters, cancelRequested, faults>>

\* The readiness probe succeeds, _claim_next takes the first order that may
\* run, and _run creates its execution task.
Claim(o) ==
  /\ worker = "polling" /\ circuit = "closed"
  /\ Claimable # {} /\ o = Min(Claimable)
  /\ Put(o, Checkpoint([order[o] EXCEPT !.status = "working", !.error = "none"],
                       ResumeStage(order[o])))
  /\ worker' = "created" /\ active' = o
  /\ blocked' = blocked \ {Login}
  /\ UNCHANGED <<circuit, deadLetters, cancelRequested, faults>>

\* The readiness probe fails: the user is asked to log in to Codex, once.
ReadinessFails ==
  /\ worker = "polling" /\ circuit = "closed" /\ "login" \in Events
  /\ Login \notin blocked /\ Fault
  /\ blocked' = blocked \cup {Login}
  /\ UNCHANGED <<order, circuit, deadLetters, worker, active, cancelRequested>>

\* The probe succeeds and there is nothing to claim.
ReadinessReturns ==
  /\ worker = "polling" /\ circuit = "closed"
  /\ Login \in blocked /\ Claimable = {}
  /\ blocked' = blocked \ {Login}
  /\ UNCHANGED <<order, circuit, deadLetters, worker, active, cancelRequested, faults>>

\* _execute, up to its first await.
Begin(o) ==
  LET r == order[o] IN
  /\ worker = "created" /\ active = o
  /\ IF ~HandoffPresent(r) THEN Fail(o)
     ELSE IF r.agent = "strategy" /\ r.stage \in {"dataset", "backtest"}
             /\ r.results.dataset = 0
     THEN /\ worker' = "dataset"
          /\ UNCHANGED <<order, circuit, deadLetters, blocked, active, cancelRequested, faults>>
     ELSE HandOver(o, IF r.stage = "dataset" THEN Checkpoint(r, "backtest") ELSE r)

\* StrategyDatasetMaterializer looks the exact version up among the
\* implemented strategies before it acquires anything.
DatasetReady(o) ==
  LET r == order[o] IN
  /\ worker = "dataset" /\ active = o
  /\ IF r.version # 0 /\ r.kind \in MaterializedKinds
     THEN HandOver(o, Checkpoint([r EXCEPT !.results.dataset = r.version], "backtest"))
     ELSE Fail(o)

\* MarketDataAcquisitionError
AcquisitionError(o) ==
  /\ worker = "dataset" /\ active = o /\ "acquisition" \in Events
  /\ order[o].version # 0 /\ order[o].kind \in MaterializedKinds
  /\ Requeue(o, Requeued(order[o], "dataset", {<<"dataset", "acquisition">>},
                         "other", TRUE, FALSE))
  /\ UNCHANGED <<circuit, faults>>

\* _bind_artifact_identity_from_evidence: a bound order keeps its version; the
\* only manifest is taken; of several, the one the handoff names, if it names
\* exactly one; without a manifest the order stays unbound.
Bindings(r) ==
  CASE r.version # 0 -> {r.version}
    [] r.version = 0 /\ r.manifests # {} /\ Recordable(r) -> r.manifests
    [] OTHER -> {0} \cup r.manifests

\* The Strategy Agent hands in its work, with or without a manifest.  The
\* checkpoint of its review writes the registry record when the order is bound.
StrategyTurn(o) ==
  LET version == order[o].made + 1 IN
  /\ InTurn(o, {"strategy"}) /\ version <= MaxVersions
  /\ \E manifests \in {order[o].manifests, order[o].manifests \cup {version}} :
     LET written == [order[o] EXCEPT !.made = version, !.manifests = manifests,
                                     !.results.strategy = version] IN
     \E bound \in Bindings(written) :
       LET next == Checkpoint([written EXCEPT !.version = bound], "review_implementation")
       IN  IF bound = 0 THEN HandOver(o, next)
           ELSE IF Recordable(next) THEN HandOver(o, Recorded(next))
           ELSE /\ Put(o, Failed(next))
                /\ worker' = "raising"
                /\ UNCHANGED <<circuit, deadLetters, blocked, active, cancelRequested, faults>>

\* The review report that _execute stores under its stage.
Reviewed(r, verdict) ==
  IF r.stage = "review_implementation"
  THEN [r EXCEPT !.results.review_implementation = [of |-> r.results.strategy,
                                                    verdict |-> verdict]]
  ELSE [r EXCEPT !.results.review_backtest = [of |-> r.results.backtest.run,
                                              verdict |-> verdict]]

\* _complete_review, PASS
ReviewPasses(o) ==
  LET r == Reviewed(order[o], "pass") IN
  /\ InTurn(o, ReviewStages)
  /\ IF r.stage = "review_backtest" /\ OptimizationRequired(r)
     THEN HandOver(o, Checkpoint(r, "optimize"))
     ELSE Present(o, r, IF r.stage = "review_implementation" THEN "implementation"
                        ELSE "backtest")

\* _complete_review, FAIL or BLOCKED: the whole list of findings is counted.
ReviewFails(o, findings, userAction) ==
  LET r == Reviewed(order[o], "fail") IN
  /\ InTurn(o, ReviewStages)
  /\ Requeue(o, Requeued(r, ReturnStage(r.stage), {r.stage} \X findings,
                         "other", FALSE, userAction))
  /\ UNCHANGED <<circuit, faults>>

\* Mutant: a report without a verdict opens the gate.
ReviewIncompleteOpensGate(o, verdict) ==
  LET r == Reviewed(order[o], verdict) IN
  /\ InTurn(o, ReviewStages) /\ "incomplete" \in Events
  /\ Present(o, r, IF r.stage = "review_implementation" THEN "implementation"
                   ELSE "backtest")

\* _complete_review, a partial or malformed report, whatever its first line.
ReviewIncomplete(o, verdict) ==
  LET r == Reviewed(order[o], verdict) IN
  /\ InTurn(o, ReviewStages) /\ "incomplete" \in Events
  /\ Requeue(o, Requeued(r, r.stage, {<<r.stage, "incomplete">>}, "other", FALSE, FALSE))
  /\ UNCHANGED <<circuit, faults>>

BacktestTurn(o) ==
  LET r == order[o]
      new == [of |-> r.results.strategy, run |-> r.runs + 1]
  IN
  /\ InTurn(o, {"backtest"}) /\ r.runs < MaxRuns
  /\ \E first \in FirstReports(r, new) :
       HandOver(o, Checkpoint([r EXCEPT !.runs = new.run, !.results.backtest = new,
                                        !.report = first], "review_backtest"))

\* _run_optimization
OptimizationTurn(o, complete) ==
  LET r == [order[o] EXCEPT !.results.optimization =
              IF complete THEN "proposal" ELSE "incomplete"]
  IN
  /\ InTurn(o, {"optimize"})
  /\ \/ complete /\ Present(o, r, "optimization")
     \/ /\ ~complete /\ "incomplete" \in Events
        /\ Requeue(o, Requeued(r, "optimize", {<<"optimize", "incomplete">>},
                               "other", FALSE, FALSE))
        /\ UNCHANGED <<circuit, faults>>

\* The result of a maintenance turn stays in a local variable of _execute.
MaintenanceTurn(o) ==
  /\ InTurn(o, {"maintenance"})
  /\ worker' = "closing"
  /\ UNCHANGED <<order, circuit, deadLetters, blocked, active, cancelRequested, faults>>

\* An interrupted turn may have written its manifest or its report already.
Interrupted(r) ==
  {r} \cup
  IF r.stage = "strategy" /\ r.made < MaxVersions
  THEN {[r EXCEPT !.made = @ + 1, !.manifests = @ \cup {r.made + 1}]}
  ELSE IF r.stage = "backtest" /\ r.runs < MaxRuns
  THEN {[r EXCEPT !.runs = @ + 1, !.report = first] :
          first \in FirstReports(r, [of |-> r.results.strategy, run |-> r.runs + 1])}
  ELSE {}

\* asyncio.wait_for raises TimeoutError.
TurnTimeout(o) ==
  /\ InTurn(o, ExecutableStages) /\ "timeout" \in Events
  /\ \E r \in Interrupted(order[o]) :
       Requeue(o, Requeued(r, r.stage, {<<r.stage, "timeout">>}, "timeout", FALSE, FALSE))
  /\ UNCHANGED <<circuit, faults>>

\* A retryable Codex error opens the global circuit.
TurnQuota(o) ==
  /\ InTurn(o, ExecutableStages) /\ "quota" \in Events /\ Fault
  /\ circuit' = "open"
  /\ \E r \in Interrupted(order[o]) : Requeue(o, Paused(r, "quota", TRUE))

\* Any other exception of the turn or of the materializer.
TurnError(o) ==
  /\ worker \in {"dataset", "turn"} /\ active = o /\ "error" \in Events
  /\ Fail(o)

\* The execution task ends and _run goes on, or ends with its exception.
EndExecution ==
  /\ worker \in {"closing", "raising"}
  /\ worker' = IF worker = "closing" THEN "polling" ELSE "dead"
  /\ active' = 0
  /\ UNCHANGED <<order, circuit, deadLetters, blocked, cancelRequested, faults>>

\* _circuit_delay, once open_until has passed.
CloseCircuit ==
  /\ worker = "polling" /\ circuit = "open"
  /\ circuit' = "closed"
  /\ UNCHANGED <<order, deadLetters, blocked, worker, active, cancelRequested, faults>>

\* retry_not_before has passed.
DelayElapses(o) ==
  /\ order[o].delayed
  /\ Put(o, [order[o] EXCEPT !.delayed = FALSE])
  /\ Quiet

-----------------------------------------------------------------------------
UserStep(o) ==
  \/ \E profile \in Profiles : Submit(o, profile)
  \/ \E kind \in {"signal", "strategy"}, required \in BOOLEAN : Adopt(o, kind, required)
  \/ \E gate \in Gates, approved \in BOOLEAN : Decide(o, gate, approved)
  \/ Cancel(o)
  \/ \E version \in 1..MaxVersions : RetryDeadLetter(o, version)

TurnEnds(o) ==
  \/ DatasetReady(o) \/ AcquisitionError(o)
  \/ StrategyTurn(o) \/ BacktestTurn(o) \/ MaintenanceTurn(o)
  \/ ReviewPasses(o)
  \/ \E verdict \in {"incomplete", "unchecked"} : ReviewIncomplete(o, verdict)
  \/ \E findings \in (SUBSET Findings) \ {{}}, userAction \in BOOLEAN :
       ReviewFails(o, findings, userAction /\ "user_action" \in Events)
  \/ \E complete \in BOOLEAN : OptimizationTurn(o, complete)
  \/ TurnTimeout(o) \/ TurnQuota(o) \/ TurnError(o)

WorkerStep(o) == Claim(o) \/ Begin(o) \/ TurnEnds(o)

GatewayStep ==
  \/ GatewayStart \/ GatewayStop \/ Crash
  \/ \E selected \in {Orders} \cup {{o} : o \in Orders} : ResumeAfterQuota(selected)
  \/ EndExecution \/ CloseCircuit \/ ReadinessFails \/ ReadinessReturns

Next ==
  \/ \E o \in Orders : UserStep(o) \/ WorkerStep(o) \/ DelayElapses(o)
  \/ GatewayStep

Spec == Init /\ [][Next]_vars

-----------------------------------------------------------------------------
(* What work orders promise                                                *)

\* The statuses that rest on an implementation the user has approved.
Downstream(r) ==
  \/ r.status \in {"queued", "working"} /\ r.stage \in ResearchStages
  \/ r.status \in {"awaiting_optimization_approval", "awaiting_backtest_approval",
                   "awaiting_live_approval", "approved"}

ApprovedSoFar(r) ==
  /\ Downstream(r) => /\ r.approvals["implementation"] = "yes"
                      /\ r.results.strategy # 0
                      /\ r.approvedFor = r.results.strategy
  /\ r.status \in {"awaiting_live_approval", "approved"} /\ r.backtestRequired
       => r.approvals["backtest"] = "yes"
  /\ r.status = "approved" => r.approvals["live"] = "yes"

\* No order is researched without the user's approval of the very
\* implementation under research, and none is live-ready without every
\* approval that applies to it, whatever was rejected, retried, interrupted
\* and recovered on the way.  (STUDIO_WORKFLOW.md: "No work reaches Backtest
\* before implementation approval", "No work reaches live-ready state before
\* all applicable approvals".)
ApprovalsInOrder == \A o \in Orders : ApprovedSoFar(order[o])

\* What a gate shows the user has passed an independent review of exactly
\* that work: the implementation review is a PASS of the current handoff, the
\* backtest review a PASS of the current run, and the run is one of the
\* current implementation.  (STUDIO_WORKFLOW.md, Review Agent: "before the
\* associated user gate becomes available".)
GatesShowReviewedWork ==
  \A o \in Orders :
    LET r == order[o] IN
    /\ r.status \in GateStatuses \cup {"approved"} =>
         r.results.review_implementation = [of |-> r.results.strategy, verdict |-> "pass"]
    /\ \/ r.status \in {"awaiting_optimization_approval", "awaiting_backtest_approval"}
       \/ r.status \in {"awaiting_live_approval", "approved"} /\ r.backtestRequired
       => /\ r.results.review_backtest = [of |-> r.results.backtest.run, verdict |-> "pass"]
          /\ r.results.backtest.of = r.results.strategy

\* The verdicts a gate may rest on.  A report that an older Gateway left needs
\* a first line that says PASS; one of this Gateway has every check as well.
Acceptable(r) == IF r.inherited THEN {"pass", "unchecked"} ELSE {"pass"}

\* While the Gateway can take a decision, no gate of any order rests on a review
\* that failed: not after a restart either, for whatever an older Gateway had
\* left in the store.  A gate of an order of this Gateway rests on a complete
\* report, or on the fixed text beside a recovered backtest; an inherited order
\* may stay at its gate with a report that says PASS and is incomplete.
\* (_recover_failed_review_orders: "Repair legacy states that exposed a failed
\* review as an approval gate"; it asks _review_passed, not _review_outcome.)
NoGateOnFailedReview ==
  GatewayUp => \A o \in Orders :
    LET r == order[o] IN
    /\ r.status \in GateStatuses \cup {"approved"} =>
         r.results.review_implementation.verdict \in Acceptable(r)
    /\ r.status = "awaiting_backtest_approval" =>
         r.results.review_backtest.verdict \in Acceptable(r) \cup {"native"}

\* Whatever was kept, dropped or restored on the way, an order that waits for
\* the worker or runs has the handoffs its stage reads: _execute never meets
\* its "missing handoff" and "unsupported stage" errors.
HandoffsSurvive ==
  \A o \in Orders :
    order[o].status \in {"queued", "working"} => HandoffPresent(order[o])

\* The retry budget: an order is in the dead-letter queue exactly when its
\* counted failures have reached a limit, across requeues, restarts, operator
\* retries and the refund that _recover_optimizer_stage_regressions makes.
BudgetRespected ==
  \A o \in Orders :
    order[o].status = "dead_letter"
      <=> Exhausted(order[o].attempts, order[o].issues, IssueKeys)

\* The lists on the dashboard agree with the orders: one dead letter for each
\* order in the dead-letter queue, one active request to the user for each
\* order that waits for one.
OperatorQueuesAgree ==
  \A o \in Orders :
    /\ deadLetters[o] = IF order[o].status = "dead_letter" THEN 1 ELSE 0
    /\ o \in blocked <=> order[o].status = "awaiting_user_input"

\* The stored state can be worked with at any time: orders are well-formed,
\* have the handoffs of their stage, and the dashboard's lists agree with them.
StoreIsSound == TypeOK /\ HandoffsSurvive /\ OperatorQueuesAgree

\* While the worker polls or executes, an order marked "working" is the one it
\* executes; an execution holds exactly such an order until it has stored its
\* outcome.
WorkingIsOwned ==
  /\ worker \in {"created", "dataset", "turn"} =>
       active # 0 /\ order[active].status = "working"
  /\ worker \in {"polling"} \cup Executing =>
       \A o \in Orders : order[o].status = "working" => o = active

\* One quota error stops all Codex work, and so does a missing login: while the
\* circuit is open or the user is asked to log in no order is claimed or
\* executed, also after a crash, a restart or a cancellation.
\* (STUDIO_WORKFLOW.md: "All Codex work waits until the provider's stated
\* recovery time instead of retrying per work order".)
WorkWaitsForCodex ==
  circuit = "open" \/ Login \in blocked => worker \notin {"created", "dataset", "turn"}

\* What is live-approved is what the registry records: the order's record names
\* the version that is bound, which is where _approved_signal_versions looks for
\* it, and that version has its manifest.  An order becomes live-ready without a
\* version only if no Strategy handoff or interrupted turn ever left a manifest
\* for it and the user required no backtest; its record names none either.
ReleaseIsRegistered ==
  \A o \in Orders :
    LET r == order[o] IN
    r.status = "approved" =>
      /\ r.recorded = r.version
      /\ IF r.version # 0 THEN r.version \in r.manifests
         ELSE r.manifests = {} /\ ~r.backtestRequired

\* The contract covers the orders this Gateway created.
Phase(r) ==
  IF r.inherited THEN "absent" ELSE
  CASE r.status = "approved" -> "released"
    [] r.status = "awaiting_implementation_approval" -> "implementation_gate"
    [] r.status = "awaiting_backtest_approval" -> "backtest_gate"
    [] r.status = "awaiting_live_approval" -> "live_gate"
    [] r.status = "awaiting_optimization_approval" -> "researching"
    [] r.status \in {"absent", "failed", "cancelled"} -> r.status
    [] r.status = "dead_letter" ->
         IF r.stage \in ResearchStages THEN "research_failed" ELSE "failed"
    [] OTHER -> IF r.stage \in ResearchStages THEN "researching" ELSE "building"

Release == INSTANCE ReleaseGates WITH
  Items <- Orders,
  phase <- [o \in Orders |-> Phase(order[o])],
  backtestRequired <- [o \in Orders |-> order[o].backtestRequired]

\* Every behaviour of the work orders, with its retries, faults and
\* recoveries, is a behaviour of the release contract.
GatesRespected == Release!Spec

-----------------------------------------------------------------------------
(* Progress                                                                *)

\* The worker's own steps happen: _run polls, a turn ends by itself or by its
\* timeout, delays pass, and the Gateway is started again after it went down.
Fairness ==
  /\ \A o \in Orders : /\ WF_vars(Claim(o)) /\ WF_vars(Begin(o)) /\ WF_vars(TurnEnds(o))
                       /\ WF_vars(DelayElapses(o))
  /\ WF_vars(EndExecution) /\ WF_vars(CloseCircuit) /\ WF_vars(GatewayStart)

FairSpec == Spec /\ Fairness

Unsettled(o) == order[o].status \in {"queued", "working"}

\* Work never silently stalls: an order that waits or runs reaches a gate, a
\* terminal status or a request to the user.
EventuallySettled == \A o \in Orders : Unsettled(o) ~> ~Unsettled(o)

\* Work never silently stalls while there is a worker: the one known way for
\* the worker to end is that a user cancels the order in execution.
SettledWhileWorkerLives ==
  \A o \in Orders : Unsettled(o) ~> (~Unsettled(o) \/ worker = "dead")
=============================================================================
