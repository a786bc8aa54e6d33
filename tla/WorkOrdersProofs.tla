-------------------------- MODULE WorkOrdersProofs --------------------------
(***************************************************************************)
(* Proofs about WorkOrders, for any number of orders, findings, versions,  *)
(* backtests and faults and any limits.                                    *)
(*                                                                         *)
(* Most properties speak of one order at a time.  StoreInv and GateInv say *)
(* what holds of one stored record, stage by stage; the lemmas show that   *)
(* each update of a record keeps them, and each action is such an update   *)
(* of one record or, when the worker starts, of every record.              *)
(***************************************************************************)
EXTENDS WorkOrdersInvariant, WellFoundedInduction, TLAPS

\* The passing runs do not retry an order at its optimizer stage (README).
NoOptimizerRetry == "optimize" \notin RetryStages

\* While the worker holds an order, that order is being worked on.
OwnInv ==
  /\ worker \in {"created", "dataset", "turn"} =>
       active \in Orders /\ order[active].status = "working"
  /\ worker = "dataset" => order[active].stage \in {"dataset", "backtest"}

\* And no other order is.
OwnedInv ==
  /\ \A o \in Orders : order[o].agent = "strategy"
  /\ worker \in {"polling", "closing", "raising"} => \A o \in Orders : order[o].status # "working"
  /\ worker \in {"created", "dataset", "turn"} => \A o \in Orders : order[o].status = "working" => o = active

-----------------------------------------------------------------------------
(* Types                                                                   *)

LEMMA StatusSets ==
  /\ AwaitingStatus("implementation") = "awaiting_implementation_approval"
  /\ AwaitingStatus("optimization") = "awaiting_optimization_approval"
  /\ AwaitingStatus("backtest") = "awaiting_backtest_approval"
  /\ AwaitingStatus("live") = "awaiting_live_approval"
  /\ GateStatuses = {"awaiting_implementation_approval", "awaiting_optimization_approval",
                     "awaiting_backtest_approval", "awaiting_live_approval"}
BY DEF AwaitingStatus, GateStatuses, Gates

LEMMA InitialValues ==
  /\ NoResults \in Results /\ NoEvidence \in Evidence
  /\ NoApprovals \in [Gates -> Decisions] /\ NoIssues \in [IssueKeys -> Nat]
<1>1. NoResults \in Results /\ NoEvidence \in Evidence
  BY DEF NoResults, NoEvidence, Results, Evidence, Verdicts
<1>2. NoApprovals \in [Gates -> Decisions] /\ NoIssues \in [IssueKeys -> Nat]
  BY DEF NoApprovals, NoIssues, Decisions
<1>. QED
  BY <1>1, <1>2

LEMMA OrderTypes ==
  ASSUME NEW r \in WorkOrder
  PROVE  /\ r.status \in Statuses /\ r.stage \in Stages /\ r.backtestRequired \in BOOLEAN
         /\ r.agent \in {"strategy", "maintenance"} /\ r.kind \in {"signal", "strategy"}
         /\ r.inherited \in BOOLEAN
         /\ r.results \in Results /\ r.approvals \in [Gates -> Decisions]
         /\ r.attempts \in Nat /\ r.issues \in [IssueKeys -> Nat]
         /\ r.version \in Int /\ r.recorded \in Int /\ r.made \in Nat /\ r.runs \in Nat
         /\ r.manifests \in SUBSET Nat
         /\ r.report \in Evidence /\ r.approvedFor \in Int
         /\ r.optimizeSeen \in BOOLEAN /\ r.delayed \in BOOLEAN
         /\ r.error \in {"none", "timeout", "quota", "misread", "other"}
BY DEF WorkOrder

LEMMA ResultTypes ==
  ASSUME NEW x \in Results
  PROVE  /\ x.strategy \in Int /\ x.dataset \in Int
         /\ x.review_implementation \in [of : Int, verdict : Verdicts]
         /\ x.backtest \in Evidence
         /\ x.review_backtest \in [of : Nat, verdict : Verdicts]
         /\ x.optimization \in {"none", "incomplete", "proposal", "approved"}
BY DEF Results

\* The parts of a record an update may leave alone.
SameOwner(r, n) ==
  /\ n.agent = r.agent /\ n.kind = r.kind /\ n.backtestRequired = r.backtestRequired
  /\ n.inherited = r.inherited
SameGrants(r, n) == n.approvals = r.approvals /\ n.approvedFor = r.approvedFor
SameBudget(r, n) == n.attempts = r.attempts /\ n.issues = r.issues
SameVersion(r, n) ==
  /\ n.version = r.version /\ n.recorded = r.recorded
  /\ n.made = r.made /\ n.manifests = r.manifests
SameRuns(r, n) == n.runs = r.runs /\ n.report = r.report

\* _claim_next: there is a first order among those that may run.
LEMMA MinIsMember ==
  ASSUME NEW S \in SUBSET Nat, S # {}
  PROVE  Min(S) \in S
<1>. DEFINE R == OpToRel(<, Nat)
<1>1. \E x \in S : \A y \in S : ~ (<<y, x>> \in R)
  <2>1. IsWellFoundedOn(R, Nat)
    BY NatLessThanWellFounded
  <2>. HIDE DEF R
  <2>. QED
    BY <2>1, WFMin
<1>2. \A x, y \in Nat : <<y, x>> \in R <=> y < x
  BY DEF OpToRel
<1>. HIDE DEF R
<1>3. \E x \in S : \A y \in S : x <= y
  <2>1. PICK x \in S : \A y \in S : ~ (<<y, x>> \in R)
    BY <1>1
  <2>2. \A y \in S : ~ (y < x)
    BY <1>2, <2>1
  <2>3. \A y \in S : x <= y
    BY <2>2
  <2>. QED
    BY <2>3
<1>. QED
  BY <1>3 DEF Min

\* Nothing but the status, the stage and the error differs.
SameWork(r, n) ==
  /\ SameOwner(r, n) /\ SameGrants(r, n) /\ SameBudget(r, n) /\ SameVersion(r, n)
  /\ SameRuns(r, n) /\ n.results = r.results

-----------------------------------------------------------------------------
(* What each update changes                                                *)

LEMMA NewFields ==
  ASSUME NEW agent \in {"strategy", "maintenance"}, NEW kind \in {"signal", "strategy"},
         NEW required \in BOOLEAN
  PROVE  LET n == NewOrder(agent, kind, required) IN
         /\ n \in WorkOrder /\ n.status = "queued" /\ n.stage = agent /\ n.agent = agent
         /\ n.kind = kind /\ n.backtestRequired = required /\ n.results = NoResults
         /\ n.approvals = NoApprovals /\ n.attempts = 0 /\ n.issues = NoIssues
         /\ n.error = "none" /\ n.version = 0 /\ n.made = 0 /\ n.manifests = {} /\ ~n.inherited
BY InitialValues DEF NewOrder, WorkOrder, Statuses, Stages, ExecutableStages

LEMMA AbsentFields ==
  /\ AbsentOrder \in WorkOrder /\ AbsentOrder.status = "absent" /\ AbsentOrder.stage = "absent"
  /\ AbsentOrder.agent = "strategy" /\ AbsentOrder.results = NoResults
  /\ AbsentOrder.attempts = 0 /\ AbsentOrder.issues = NoIssues /\ AbsentOrder.error = "none"
  /\ AbsentOrder.version = 0 /\ AbsentOrder.made = 0 /\ AbsentOrder.manifests = {}
  /\ ~AbsentOrder.inherited
<1>. DEFINE n == NewOrder("strategy", "strategy", TRUE)
<1>1. /\ n \in WorkOrder /\ n.agent = "strategy" /\ n.results = NoResults
      /\ n.attempts = 0 /\ n.issues = NoIssues /\ n.error = "none"
      /\ n.version = 0 /\ n.made = 0 /\ n.manifests = {} /\ ~n.inherited
  BY NewFields
<1>. HIDE DEF n
<1>2. AbsentOrder = [n EXCEPT !.status = "absent", !.stage = "absent"]
  BY DEF AbsentOrder, n
<1>. QED
  BY <1>1, <1>2 DEF WorkOrder, Statuses, Stages

AdoptedOrder(kind, required) ==
  [NewOrder("strategy", kind, required) EXCEPT
     !.operation = "adopt", !.version = Adopted,
     !.stage = "review_implementation", !.results.strategy = Adopted]

LEMMA AdoptFields ==
  ASSUME NEW kind \in {"signal", "strategy"}, NEW required \in BOOLEAN
  PROVE  LET n == AdoptedOrder(kind, required) IN
         /\ n \in WorkOrder /\ n.status = "queued" /\ n.stage = "review_implementation"
         /\ n.agent = "strategy" /\ n.backtestRequired = required
         /\ n.results = [NoResults EXCEPT !.strategy = Adopted]
         /\ n.attempts = 0 /\ n.issues = NoIssues /\ n.error = "none"
         /\ n.version = Adopted /\ n.made = 0 /\ n.manifests = {} /\ ~n.inherited
<1>. DEFINE m == NewOrder("strategy", kind, required)
            x == [NoResults EXCEPT !.strategy = Adopted]
<1>1. /\ m \in WorkOrder /\ m.status = "queued" /\ m.agent = "strategy"
      /\ m.backtestRequired = required /\ m.results = NoResults
      /\ m.attempts = 0 /\ m.issues = NoIssues /\ m.error = "none" /\ m.made = 0
      /\ m.manifests = {} /\ ~m.inherited
  BY NewFields
<1>2. x \in Results
  BY InitialValues DEF Results, Adopted
<1>. DEFINE n == [m EXCEPT !.operation = "adopt", !.version = Adopted,
                           !.stage = "review_implementation", !.results = x]
<1>. HIDE DEF m, x
<1>3. n \in WorkOrder
  <2>1. Adopted \in Int /\ "review_implementation" \in Stages
    BY DEF Adopted, Stages, ExecutableStages
  <2>. QED
    BY <1>1, <1>2, <2>1 DEF WorkOrder
<1>4. /\ n.status = m.status /\ n.stage = "review_implementation" /\ n.agent = m.agent
      /\ n.backtestRequired = m.backtestRequired /\ n.results = x
      /\ n.attempts = m.attempts /\ n.issues = m.issues /\ n.error = m.error
      /\ n.version = Adopted /\ n.made = m.made /\ n.manifests = m.manifests
      /\ n.inherited = m.inherited
  BY <1>1 DEF WorkOrder
<1>5. n = AdoptedOrder(kind, required)
  BY <1>1 DEF AdoptedOrder, m, x
<1>. HIDE DEF n
<1>6. /\ n \in WorkOrder /\ n.status = "queued" /\ n.stage = "review_implementation"
      /\ n.agent = "strategy" /\ n.backtestRequired = required /\ n.results = x
      /\ n.attempts = 0 /\ n.issues = NoIssues /\ n.error = "none"
      /\ n.version = Adopted /\ n.made = 0 /\ n.manifests = {} /\ ~n.inherited
  BY <1>1, <1>3, <1>4
<1>. QED
  BY <1>5, <1>6 DEF x

LEMMA FinishedFields ==
  ASSUME NEW r \in WorkOrder, NEW status \in Statuses, NEW stage \in Stages
  PROVE  LET n == Finished(r, status, stage) IN
         /\ n \in WorkOrder /\ n.status = status /\ n.stage = stage /\ n.error = "none"
         /\ SameWork(r, n)
BY DEF Finished, WorkOrder, SameWork, SameOwner, SameGrants, SameBudget, SameVersion,
   SameRuns

LEMMA RecordedFields ==
  ASSUME NEW r \in WorkOrder
  PROVE  LET n == Recorded(r) IN
         /\ n \in WorkOrder /\ n.status = r.status /\ n.stage = r.stage /\ n.error = r.error
         /\ SameOwner(r, n) /\ SameGrants(r, n) /\ SameBudget(r, n) /\ SameRuns(r, n)
         /\ n.results = r.results /\ n.version = r.version /\ n.made = r.made
         /\ n.manifests = r.manifests
         /\ Recordable(r) /\ Identified(r) => n.recorded = r.version
<1>1. RecordedVersion(r) \in Int /\ (Identified(r) => RecordedVersion(r) = r.version)
  BY OrderTypes DEF RecordedVersion, Identified
<1>. QED
  BY <1>1 DEF Recorded, WorkOrder, SameOwner, SameGrants, SameBudget, SameRuns

\* Both together: _finish.
LEMMA FinishFields ==
  ASSUME NEW r \in WorkOrder, NEW status \in Statuses, NEW stage \in Stages
  PROVE  LET n == Recorded(Finished(r, status, stage)) IN
         /\ n \in WorkOrder /\ n.status = status /\ n.stage = stage /\ n.error = "none"
         /\ SameOwner(r, n) /\ SameGrants(r, n) /\ SameBudget(r, n) /\ SameRuns(r, n)
         /\ n.results = r.results /\ n.version = r.version /\ n.made = r.made
         /\ n.manifests = r.manifests
         /\ Recordable(r) /\ Identified(r) => n.recorded = r.version
<1>. DEFINE f == Finished(r, status, stage)
            n == Recorded(f)
<1>1. /\ f \in WorkOrder /\ f.status = status /\ f.stage = stage /\ f.error = "none"
      /\ SameWork(r, f)
  BY FinishedFields
<1>. HIDE DEF f
<1>2. /\ n \in WorkOrder /\ n.status = f.status /\ n.stage = f.stage /\ n.error = f.error
      /\ SameOwner(f, n) /\ SameGrants(f, n) /\ SameBudget(f, n) /\ SameRuns(f, n)
      /\ n.results = f.results /\ n.version = f.version /\ n.made = f.made
      /\ n.manifests = f.manifests
      /\ Recordable(f) /\ Identified(f) => n.recorded = f.version
  BY <1>1, RecordedFields
<1>3. (Recordable(f) <=> Recordable(r)) /\ (Identified(f) <=> Identified(r))
  BY <1>1 DEF Recordable, Identified, SameWork, SameVersion
<1>. QED
  BY <1>1, <1>2, <1>3
     DEF f, SameWork, SameOwner, SameGrants, SameBudget, SameVersion, SameRuns

LEMMA FailedFields ==
  ASSUME NEW r \in WorkOrder
  PROVE  LET n == Failed(r) IN
         /\ n \in WorkOrder /\ n.status = "failed" /\ n.stage = "failed"
         /\ n.results = NoResults /\ n.error = "none"
         /\ SameOwner(r, n) /\ SameBudget(r, n) /\ n.version = r.version /\ n.made = r.made
         /\ n.manifests = r.manifests
<1>. DEFINE f == [Finished(r, "failed", "failed") EXCEPT !.results = NoResults]
            n == Recorded(f)
<1>1. f \in WorkOrder
  BY InitialValues DEF Finished, WorkOrder, Statuses, Stages
<1>2. /\ f.status = "failed" /\ f.stage = "failed" /\ f.results = NoResults /\ f.error = "none"
      /\ SameOwner(r, f) /\ SameBudget(r, f) /\ SameVersion(r, f)
  BY DEF Finished, WorkOrder, SameOwner, SameBudget, SameVersion
<1>. HIDE DEF f
<1>3. /\ n \in WorkOrder /\ n.status = f.status /\ n.stage = f.stage /\ n.error = f.error
      /\ SameOwner(f, n) /\ SameBudget(f, n)
      /\ n.results = f.results /\ n.version = f.version /\ n.made = f.made
      /\ n.manifests = f.manifests
  BY <1>1, RecordedFields
<1>. QED
  BY <1>2, <1>3 DEF f, Failed, SameOwner, SameBudget, SameVersion

LEMMA CheckpointFields ==
  ASSUME NEW r \in WorkOrder, NEW stage \in Stages
  PROVE  LET n == Checkpoint(r, stage) IN
         /\ n \in WorkOrder /\ n.status = r.status /\ n.stage = stage /\ n.error = r.error
         /\ SameWork(r, n)
BY DEF Checkpoint, WorkOrder, SameWork, SameOwner, SameGrants, SameBudget, SameVersion,
   SameRuns

LEMMA PausedFields ==
  ASSUME NEW r \in WorkOrder, NEW error \in {"quota", "other"}, NEW delayed \in BOOLEAN
  PROVE  LET n == Paused(r, error, delayed) IN
         /\ n \in WorkOrder /\ n.status = "queued" /\ n.stage = r.stage /\ n.error = error
         /\ SameWork(r, n)
BY DEF Paused, WorkOrder, Statuses, SameWork, SameOwner, SameGrants, SameBudget,
   SameVersion, SameRuns

\* A counted failure: the order dies exactly when a limit is reached.
Counted(r, n, keys) ==
  /\ n.status \in {"dead_letter", "awaiting_user_input", "queued"}
  /\ n.status = "dead_letter" <=> Exhausted(n.attempts, n.issues, keys)
  /\ n.attempts = r.attempts + 1
  /\ \A key \in IssueKeys :
       n.issues[key] = r.issues[key] + (IF key \in keys THEN 1 ELSE 0)
  /\ SameOwner(r, n) /\ SameGrants(r, n) /\ SameVersion(r, n) /\ SameRuns(r, n)
  /\ n.results = r.results

CountedAt(r, n, stage, keys, error) ==
  n \in WorkOrder /\ n.stage = stage /\ n.error = error /\ Counted(r, n, keys)

LEMMA RequeuedFields ==
  ASSUME NEW r \in WorkOrder, NEW stage \in ExecutableStages, NEW keys \in SUBSET IssueKeys,
         NEW error \in {"timeout", "other"}, NEW delayed \in BOOLEAN, NEW ask \in BOOLEAN
  PROVE  CountedAt(r, Requeued(r, stage, keys, error, delayed, ask), stage, keys, error)
<1>. DEFINE attempts == r.attempts + 1
            counts == [key \in IssueKeys |-> r.issues[key] + (IF key \in keys THEN 1 ELSE 0)]
            dead == Exhausted(attempts, counts, keys)
            status == IF dead THEN "dead_letter"
                      ELSE IF ask THEN "awaiting_user_input" ELSE "queued"
            late == r.delayed \/ (delayed /\ ~dead)
            n == [r EXCEPT !.status = status, !.stage = stage, !.attempts = attempts,
                           !.issues = counts, !.error = error, !.delayed = late]
<1>1. Requeued(r, stage, keys, error, delayed, ask) = n
  BY DEF Requeued
<1>2. attempts \in Nat /\ counts \in [IssueKeys -> Nat]
  BY OrderTypes
<1>3. status \in {"dead_letter", "awaiting_user_input", "queued"} /\ late \in BOOLEAN
      /\ (status = "dead_letter" <=> dead)
  BY OrderTypes DEF Exhausted
<1>4. \A key \in IssueKeys :
        counts[key] = r.issues[key] + (IF key \in keys THEN 1 ELSE 0)
  OBVIOUS
<1>. HIDE DEF attempts, counts, dead, status, late
<1>5. n \in WorkOrder
  BY <1>2, <1>3, ZenonT(60) DEF WorkOrder, Statuses, Stages
<1>6. /\ n.stage = stage /\ n.error = error /\ n.status = status
      /\ n.attempts = attempts /\ n.issues = counts
      /\ SameOwner(r, n) /\ SameGrants(r, n) /\ SameVersion(r, n) /\ SameRuns(r, n)
      /\ n.results = r.results
  BY DEF WorkOrder, SameOwner, SameGrants, SameVersion, SameRuns
<1>. HIDE DEF n
<1>7. dead = Exhausted(n.attempts, n.issues, keys) /\ n.attempts = r.attempts + 1
  BY <1>6 DEF dead, attempts
<1>. QED
  BY <1>1, <1>3, <1>4, <1>5, <1>6, <1>7 DEF Counted, CountedAt

LEMMA RequeuedAsks ==
  ASSUME NEW r \in WorkOrder, NEW stage, NEW keys, NEW error, NEW delayed, NEW ask, ~ask
  PROVE  Requeued(r, stage, keys, error, delayed, ask).status # "awaiting_user_input"
<1>. DEFINE n == Requeued(r, stage, keys, error, delayed, ask)
<1>1. n.status = "dead_letter" \/ n.status = "queued"
  BY DEF Requeued, WorkOrder
<1>. QED
  BY <1>1

LEMMA ReviewedFields ==
  ASSUME NEW r \in WorkOrder, NEW verdict \in Verdicts
  PROVE  LET n == Reviewed(r, verdict) IN
         /\ n \in WorkOrder /\ n.status = r.status /\ n.stage = r.stage /\ n.error = r.error
         /\ SameOwner(r, n) /\ SameGrants(r, n) /\ SameBudget(r, n) /\ SameVersion(r, n)
         /\ SameRuns(r, n)
         /\ n.results.strategy = r.results.strategy /\ n.results.backtest = r.results.backtest
         /\ n.results.optimization = r.results.optimization
         /\ n.results.dataset = r.results.dataset
         /\ r.stage = "review_implementation" =>
              /\ n.results.review_implementation = [of |-> r.results.strategy, verdict |-> verdict]
              /\ n.results.review_backtest = r.results.review_backtest
         /\ r.stage # "review_implementation" =>
              /\ n.results.review_implementation = r.results.review_implementation
              /\ n.results.review_backtest = [of |-> r.results.backtest.run, verdict |-> verdict]
<1>. DEFINE x == IF r.stage = "review_implementation"
                 THEN [r.results EXCEPT !.review_implementation =
                         [of |-> r.results.strategy, verdict |-> verdict]]
                 ELSE [r.results EXCEPT !.review_backtest =
                         [of |-> r.results.backtest.run, verdict |-> verdict]]
            n == [r EXCEPT !.results = x]
<1>1. Reviewed(r, verdict) = n
  BY DEF Reviewed
<1>2. x \in Results
  <2>1. /\ [of |-> r.results.strategy, verdict |-> verdict] \in [of : Int, verdict : Verdicts]
        /\ [of |-> r.results.backtest.run, verdict |-> verdict] \in [of : Nat, verdict : Verdicts]
    BY OrderTypes, ResultTypes DEF Evidence
  <2>. QED
    BY <2>1, OrderTypes DEF Results
<1>3. /\ x.strategy = r.results.strategy /\ x.backtest = r.results.backtest
      /\ x.optimization = r.results.optimization /\ x.dataset = r.results.dataset
      /\ r.stage = "review_implementation" =>
           /\ x.review_implementation = [of |-> r.results.strategy, verdict |-> verdict]
           /\ x.review_backtest = r.results.review_backtest
      /\ r.stage # "review_implementation" =>
           /\ x.review_implementation = r.results.review_implementation
           /\ x.review_backtest = [of |-> r.results.backtest.run, verdict |-> verdict]
  BY OrderTypes DEF Results
<1>. HIDE DEF x
<1>4. /\ n \in WorkOrder /\ n.results = x
      /\ n.status = r.status /\ n.stage = r.stage /\ n.error = r.error
      /\ SameOwner(r, n) /\ SameGrants(r, n) /\ SameBudget(r, n) /\ SameVersion(r, n)
      /\ SameRuns(r, n)
  BY <1>2 DEF WorkOrder, SameOwner, SameGrants, SameBudget, SameVersion, SameRuns
<1>. QED
  BY <1>1, <1>3, <1>4

\* The version and the report of an interrupted turn are on disk.
LEMMA InterruptedFields ==
  ASSUME NEW r \in WorkOrder, NEW n \in Interrupted(r)
  PROVE  /\ n \in WorkOrder /\ n.status = r.status /\ n.stage = r.stage /\ n.error = r.error
         /\ SameOwner(r, n) /\ SameGrants(r, n) /\ SameBudget(r, n)
         /\ n.results = r.results /\ n.version = r.version /\ n.recorded = r.recorded
         /\ \/ n.made = r.made /\ n.manifests = r.manifests
            \/ /\ r.stage = "strategy" /\ n.made = r.made + 1
               /\ n.manifests = r.manifests \cup {r.made + 1}
<1>1. CASE n = r
  BY <1>1, OrderTypes DEF SameOwner, SameGrants, SameBudget
<1>2. CASE /\ r.stage = "strategy"
           /\ n = [r EXCEPT !.made = @ + 1, !.manifests = @ \cup {r.made + 1}]
  <2>1. r.made + 1 \in Nat /\ r.manifests \cup {r.made + 1} \in SUBSET Nat
    BY OrderTypes
  <2>2. n \in WorkOrder
    BY <1>2, <2>1 DEF WorkOrder
  <2>. QED
    BY <1>2, <2>2 DEF WorkOrder, SameOwner, SameGrants, SameBudget
<1>3. ASSUME NEW first \in FirstReports(r, [of |-> r.results.strategy, run |-> r.runs + 1]),
             n = [r EXCEPT !.runs = @ + 1, !.report = first]
      PROVE  /\ n \in WorkOrder /\ n.status = r.status /\ n.stage = r.stage /\ n.error = r.error
             /\ SameOwner(r, n) /\ SameGrants(r, n) /\ SameBudget(r, n)
             /\ n.results = r.results /\ n.version = r.version /\ n.recorded = r.recorded
             /\ n.made = r.made /\ n.manifests = r.manifests
  <2>1. first \in Evidence /\ r.runs + 1 \in Nat
    BY OrderTypes, ResultTypes DEF FirstReports, Evidence
  <2>2. n \in WorkOrder
    BY <1>3, <2>1 DEF WorkOrder
  <2>3. /\ n.status = r.status /\ n.stage = r.stage /\ n.error = r.error
        /\ SameOwner(r, n) /\ SameGrants(r, n) /\ SameBudget(r, n)
        /\ n.results = r.results /\ n.version = r.version /\ n.recorded = r.recorded
        /\ n.made = r.made /\ n.manifests = r.manifests
    BY <1>3 DEF WorkOrder, SameOwner, SameGrants, SameBudget
  <2>. QED
    BY <2>2, <2>3, OrderTypes
<1>. QED
  BY <1>1, <1>2, <1>3 DEF Interrupted

LEMMA DecidedImplementationFields ==
  ASSUME NEW r \in WorkOrder, NEW approved \in BOOLEAN
  PROVE  LET n == DecidedImplementation(r, approved) IN
         /\ n \in WorkOrder /\ n.error = r.error
         /\ SameOwner(r, n) /\ SameBudget(r, n) /\ SameVersion(r, n) /\ SameRuns(r, n)
         /\ ~approved => n.status = "queued" /\ n.stage = "strategy" /\ n.results = NoResults
         /\ approved =>
              /\ n.results = r.results /\ n.approvedFor = r.results.strategy
              /\ n.approvals = [r.approvals EXCEPT !["implementation"] = "yes"]
              /\ r.backtestRequired => n.status = "queued" /\ n.stage = "dataset"
              /\ ~r.backtestRequired =>
                   n.status = "awaiting_live_approval" /\ n.stage = "approval"
<1>1. /\ [r.approvals EXCEPT !["implementation"] = "no"] \in [Gates -> Decisions]
      /\ [r.approvals EXCEPT !["implementation"] = "yes"] \in [Gates -> Decisions]
  BY OrderTypes DEF Decisions
<1>2. r.results.strategy \in Int
  BY OrderTypes, ResultTypes
<1>3. CASE ~approved
  BY <1>1, <1>3, InitialValues
     DEF DecidedImplementation, WorkOrder, Statuses, Stages, ExecutableStages,
     SameOwner, SameBudget, SameVersion, SameRuns
<1>4. CASE approved /\ r.backtestRequired
  BY <1>1, <1>2, <1>4
     DEF DecidedImplementation, WorkOrder, Statuses, Stages, ExecutableStages,
     ResearchStages, SameOwner, SameBudget, SameVersion, SameRuns
<1>5. CASE approved /\ ~r.backtestRequired
  BY <1>1, <1>2, <1>5, StatusSets, ZenonT(60)
     DEF DecidedImplementation, WorkOrder, Statuses, Stages, SameOwner, SameBudget,
     SameVersion, SameRuns
<1>. QED
  BY <1>3, <1>4, <1>5, OrderTypes

LEMMA DecidedOptimizationFields ==
  ASSUME NEW r \in WorkOrder, NEW approved \in BOOLEAN
  PROVE  LET n == DecidedOptimization(r, approved) IN
         /\ n \in WorkOrder /\ n.error = r.error
         /\ SameOwner(r, n) /\ SameVersion(r, n) /\ SameRuns(r, n)
         /\ approved =>
              /\ n.status = "queued" /\ n.stage = "strategy"
              /\ n.results = [NoResults EXCEPT !.optimization = "approved"]
              /\ n.attempts = 0 /\ n.issues = NoIssues
         /\ ~approved =>
              /\ n.status = "awaiting_backtest_approval" /\ n.stage = r.stage
              /\ n.approvals = [r.approvals EXCEPT !["optimization"] = "no"]
              /\ n.approvedFor = r.approvedFor /\ n.results = r.results /\ SameBudget(r, n)
<1>. DEFINE x == [NoResults EXCEPT !.optimization = "approved"]
<1>1. /\ [r.approvals EXCEPT !["optimization"] = "no"] \in [Gates -> Decisions]
      /\ x \in Results
  BY OrderTypes, InitialValues DEF Decisions, Results
<1>. HIDE DEF x
<1>2. CASE approved
  <2>1. DecidedOptimization(r, approved) =
          [r EXCEPT !.status = "queued", !.stage = "strategy", !.operation = "build",
                    !.results = x, !.attempts = 0, !.issues = NoIssues,
                    !.approvals = NoApprovals]
    BY <1>2 DEF DecidedOptimization, x
  <2>. DEFINE m == [r EXCEPT !.status = "queued", !.stage = "strategy", !.operation = "build"]
              n == [m EXCEPT !.results = x, !.attempts = 0, !.issues = NoIssues,
                             !.approvals = NoApprovals]
  <2>2. DecidedOptimization(r, approved) = n
    BY <2>1
  <2>3. /\ m \in WorkOrder /\ m.status = "queued" /\ m.stage = "strategy" /\ m.error = r.error
        /\ SameOwner(r, m) /\ SameVersion(r, m) /\ SameRuns(r, m)
    BY DEF WorkOrder, Statuses, Stages, ExecutableStages, SameOwner, SameVersion,
       SameRuns
  <2>. HIDE DEF m
  <2>4. n \in WorkOrder
    BY <1>1, <2>3, InitialValues DEF WorkOrder
  <2>5. /\ n.status = m.status /\ n.stage = m.stage /\ n.error = m.error
        /\ n.results = x /\ n.attempts = 0 /\ n.issues = NoIssues
        /\ SameOwner(m, n) /\ SameVersion(m, n) /\ SameRuns(m, n)
    BY <2>3 DEF WorkOrder, SameOwner, SameVersion, SameRuns
  <2>. HIDE DEF n
  <2>. QED
    BY <1>2, <2>2, <2>3, <2>4, <2>5 DEF x, SameOwner, SameVersion, SameRuns
<1>3. CASE ~approved
  BY <1>1, <1>3, StatusSets, ZenonT(60)
     DEF DecidedOptimization, WorkOrder, Statuses, SameOwner, SameVersion, SameRuns,
     SameBudget
<1>. QED
  BY <1>2, <1>3

LEMMA DecidedBacktestFields ==
  ASSUME NEW r \in WorkOrder, NEW approved \in BOOLEAN
  PROVE  LET n == DecidedBacktest(r, approved) IN
         /\ n \in WorkOrder /\ n.error = r.error /\ n.approvedFor = r.approvedFor
         /\ SameOwner(r, n) /\ SameBudget(r, n) /\ SameVersion(r, n) /\ SameRuns(r, n)
         /\ n.approvals["implementation"] = r.approvals["implementation"]
         /\ n.results.strategy = r.results.strategy
         /\ n.results.review_implementation = r.results.review_implementation
         /\ ~approved =>
              /\ n.status = "queued" /\ n.stage = "backtest"
              /\ n.results.backtest = NoEvidence
              /\ n.results.review_backtest = NoResults.review_backtest
         /\ approved =>
              /\ n.status = "awaiting_live_approval" /\ n.stage = r.stage
              /\ n.approvals["backtest"] = "yes" /\ n.results = r.results
<1>. DEFINE x == [r.results EXCEPT !.backtest = NoEvidence,
                                   !.review_backtest = NoResults.review_backtest,
                                   !.optimization = "none"]
            a == [r.approvals EXCEPT !["backtest"] = "no", !["optimization"] = "none"]
            b == [r.approvals EXCEPT !["backtest"] = "yes"]
<1>1. /\ a \in [Gates -> Decisions] /\ b \in [Gates -> Decisions]
      /\ a["implementation"] = r.approvals["implementation"]
      /\ b["implementation"] = r.approvals["implementation"] /\ b["backtest"] = "yes"
  BY OrderTypes DEF Decisions, Gates
<1>2. x \in Results
  BY OrderTypes, InitialValues, ResultTypes DEF Results
<1>3. /\ x.strategy = r.results.strategy
      /\ x.review_implementation = r.results.review_implementation
      /\ x.backtest = NoEvidence /\ x.review_backtest = NoResults.review_backtest
  BY OrderTypes DEF Results
<1>. HIDE DEF x, a, b
<1>4. CASE ~approved
  <2>1. DecidedBacktest(r, approved) =
          [r EXCEPT !.status = "queued", !.stage = "backtest", !.results = x, !.approvals = a]
    BY <1>4 DEF DecidedBacktest, x, a
  <2>2. DecidedBacktest(r, approved) \in WorkOrder
    BY <1>1, <1>2, <2>1, ZenonT(60)
       DEF WorkOrder, Statuses, Stages, ExecutableStages, ResearchStages
  <2>. QED
    BY <1>1, <1>3, <1>4, <2>1, <2>2
       DEF WorkOrder, SameOwner, SameBudget, SameVersion, SameRuns
<1>5. CASE approved
  <2>1. DecidedBacktest(r, approved) =
          [r EXCEPT !.status = "awaiting_live_approval", !.approvals = b]
    BY <1>5 DEF DecidedBacktest, b
  <2>2. DecidedBacktest(r, approved) \in WorkOrder
    BY <1>1, <2>1, StatusSets, ZenonT(60) DEF WorkOrder, Statuses
  <2>. QED
    BY <1>1, <1>5, <2>1, <2>2, ZenonT(60)
       DEF WorkOrder, SameOwner, SameBudget, SameVersion, SameRuns
<1>. QED
  BY <1>4, <1>5

LEMMA DecidedLiveFields ==
  ASSUME NEW r \in WorkOrder, NEW approved \in BOOLEAN
  PROVE  LET n == DecidedLive(r, approved) IN
         /\ n \in WorkOrder /\ n.error = r.error /\ n.approvedFor = r.approvedFor
         /\ SameOwner(r, n) /\ SameBudget(r, n) /\ SameVersion(r, n) /\ SameRuns(r, n)
         /\ n.results = r.results
         /\ n.approvals["implementation"] = r.approvals["implementation"]
         /\ n.approvals["backtest"] = r.approvals["backtest"]
         /\ ~approved => n.status = "awaiting_implementation_approval" /\ n.stage = r.stage
         /\ approved => /\ n.status = "approved" /\ n.stage = "released"
                        /\ n.approvals["live"] = "yes"
<1>. DEFINE a == [r.approvals EXCEPT !["live"] = IF approved THEN "yes" ELSE "no"]
<1>1. /\ a \in [Gates -> Decisions] /\ a["live"] = IF approved THEN "yes" ELSE "no"
      /\ a["implementation"] = r.approvals["implementation"]
      /\ a["backtest"] = r.approvals["backtest"]
  BY OrderTypes DEF Decisions, Gates
<1>2. CASE ~approved
  <2>1. DecidedLive(r, approved) =
          [r EXCEPT !.status = "awaiting_implementation_approval", !.approvals = a]
    BY <1>2 DEF DecidedLive
  <2>. HIDE DEF a
  <2>2. DecidedLive(r, approved) \in WorkOrder
    BY <1>1, <2>1, StatusSets, ZenonT(60) DEF WorkOrder, Statuses
  <2>. QED
    BY <1>1, <1>2, <2>1, <2>2
       DEF WorkOrder, SameOwner, SameBudget, SameVersion, SameRuns
<1>3. CASE approved
  <2>1. DecidedLive(r, approved) =
          [r EXCEPT !.status = "approved", !.stage = "released", !.approvals = a]
    BY <1>3 DEF DecidedLive
  <2>. HIDE DEF a
  <2>2. DecidedLive(r, approved) \in WorkOrder
    BY <1>1, <2>1, ZenonT(60) DEF WorkOrder, Statuses, Stages
  <2>. DEFINE n == DecidedLive(r, approved)
  <2>3. /\ n.error = r.error /\ n.approvedFor = r.approvedFor /\ n.results = r.results
        /\ n.approvals = a /\ n.status = "approved" /\ n.stage = "released"
        /\ SameOwner(r, n) /\ SameBudget(r, n) /\ SameVersion(r, n) /\ SameRuns(r, n)
    BY <2>1 DEF WorkOrder, SameOwner, SameBudget, SameVersion, SameRuns
  <2>. HIDE DEF n
  <2>. QED
    BY <1>1, <1>3, <2>2, <2>3 DEF n
<1>. QED
  BY <1>2, <1>3

\* What an operator's retry keeps.
LEMMA RemediatedFields ==
  ASSUME NEW r \in WorkOrder, NEW version \in Int
  PROVE  LET n == Remediated(r, version) IN
         /\ n \in WorkOrder /\ n.status = "queued" /\ n.attempts = 0 /\ n.issues = NoIssues
         /\ n.version = version /\ n.error = "none" /\ n.made = r.made
         /\ n.manifests = r.manifests
         /\ n.recorded = r.recorded /\ n.approvedFor = r.approvedFor /\ SameOwner(r, n)
         /\ n.results.strategy = r.results.strategy
         /\ n.results.review_implementation = r.results.review_implementation
         /\ PreservesImplementation(r, version) =>
              /\ n.stage = "backtest" /\ n.approvals["implementation"] = "yes"
              /\ n.results.backtest = NoEvidence
              /\ n.results.review_backtest = NoResults.review_backtest
         /\ ~PreservesImplementation(r, version) => n.stage = r.agent /\ n.results = r.results
<1>. DEFINE x == [r.results EXCEPT !.backtest = NoEvidence,
                                   !.review_backtest = NoResults.review_backtest]
            a == [NoApprovals EXCEPT !["implementation"] = "yes"]
            b == IF r.agent = "strategy" THEN NoApprovals ELSE r.approvals
<1>1. /\ a \in [Gates -> Decisions] /\ a["implementation"] = "yes"
      /\ b \in [Gates -> Decisions]
  BY OrderTypes, InitialValues DEF Decisions, Gates
<1>2. x \in Results
  BY OrderTypes, InitialValues, ResultTypes DEF Results
<1>3. /\ x.strategy = r.results.strategy
      /\ x.review_implementation = r.results.review_implementation
      /\ x.backtest = NoEvidence /\ x.review_backtest = NoResults.review_backtest
  BY OrderTypes DEF Results
<1>4. r.agent \in Stages /\ r.results \in Results
  BY OrderTypes DEF Stages, ExecutableStages
<1>. DEFINE fresh == [r EXCEPT !.status = "queued", !.attempts = 0, !.issues = NoIssues,
                               !.version = version, !.error = "none", !.delayed = FALSE]
<1>5. fresh \in WorkOrder
  BY InitialValues DEF WorkOrder, Statuses
<1>6. /\ fresh.status = "queued" /\ fresh.attempts = 0 /\ fresh.issues = NoIssues
      /\ fresh.version = version /\ fresh.error = "none" /\ fresh.made = r.made
      /\ fresh.manifests = r.manifests
      /\ fresh.recorded = r.recorded /\ fresh.approvedFor = r.approvedFor
      /\ SameOwner(r, fresh) /\ fresh.results = r.results
  BY DEF WorkOrder, SameOwner
<1>7. Remediated(r, version) =
        IF PreservesImplementation(r, version)
        THEN [fresh EXCEPT !.stage = "backtest", !.results = x, !.approvals = a]
        ELSE [fresh EXCEPT !.stage = r.agent, !.approvals = b]
  BY DEF Remediated
<1>. HIDE DEF x, a, b, fresh
<1>8. CASE PreservesImplementation(r, version)
  <2>. DEFINE n == [fresh EXCEPT !.stage = "backtest", !.results = x, !.approvals = a]
  <2>1. n \in WorkOrder
    BY <1>1, <1>2, <1>5 DEF WorkOrder, Stages, ExecutableStages, ResearchStages
  <2>2. /\ n.stage = "backtest" /\ n.results = x /\ n.approvals = a
        /\ n.status = fresh.status /\ n.attempts = fresh.attempts /\ n.issues = fresh.issues
        /\ n.version = fresh.version /\ n.error = fresh.error /\ n.made = fresh.made
        /\ n.manifests = fresh.manifests
        /\ n.recorded = fresh.recorded /\ n.approvedFor = fresh.approvedFor
        /\ SameOwner(fresh, n)
    BY <1>5 DEF WorkOrder, SameOwner
  <2>3. Remediated(r, version) = n
    BY <1>7, <1>8
  <2>. HIDE DEF n
  <2>. QED
    BY <1>1, <1>3, <1>6, <1>8, <2>1, <2>2, <2>3 DEF SameOwner
<1>9. CASE ~PreservesImplementation(r, version)
  <2>. DEFINE n == [fresh EXCEPT !.stage = r.agent, !.approvals = b]
  <2>1. n \in WorkOrder
    BY <1>1, <1>4, <1>5 DEF WorkOrder
  <2>2. /\ n.stage = r.agent /\ n.results = fresh.results
        /\ n.status = fresh.status /\ n.attempts = fresh.attempts /\ n.issues = fresh.issues
        /\ n.version = fresh.version /\ n.error = fresh.error /\ n.made = fresh.made
        /\ n.manifests = fresh.manifests
        /\ n.recorded = fresh.recorded /\ n.approvedFor = fresh.approvedFor
        /\ SameOwner(fresh, n)
    BY <1>5 DEF WorkOrder, SameOwner
  <2>3. Remediated(r, version) = n
    BY <1>7, <1>9
  <2>. HIDE DEF n
  <2>. QED
    BY <1>6, <1>9, <2>1, <2>2, <2>3 DEF SameOwner
<1>. QED
  BY <1>8, <1>9

\* An order that is claimed or picked up again keeps everything but its status.
LEMMA ClaimedFields ==
  ASSUME NEW r \in WorkOrder, r.stage \in ExecutableStages
  PROVE  LET n == Checkpoint([r EXCEPT !.status = "working", !.error = "none"], ResumeStage(r)) IN
         /\ n \in WorkOrder /\ n.status = "working" /\ n.stage = r.stage /\ n.error = "none"
         /\ SameWork(r, n)
<1>. DEFINE m == [r EXCEPT !.status = "working", !.error = "none"]
            n == Checkpoint(m, ResumeStage(r))
<1>1. /\ m \in WorkOrder /\ m.status = "working" /\ m.error = "none" /\ SameWork(r, m)
  BY DEF WorkOrder, Statuses, SameWork, SameOwner, SameGrants, SameBudget, SameVersion,
     SameRuns
<1>2. ResumeStage(r) = r.stage /\ r.stage \in Stages
  BY OrderTypes DEF ResumeStage
<1>. HIDE DEF m
<1>3. /\ n \in WorkOrder /\ n.status = m.status /\ n.stage = r.stage /\ n.error = m.error
      /\ SameWork(m, n)
  BY <1>1, <1>2, CheckpointFields
<1>. HIDE DEF n
<1>. QED
  BY <1>1, <1>3
     DEF m, n, SameWork, SameOwner, SameGrants, SameBudget, SameVersion, SameRuns

LEMMA RecoverInterruptedFields ==
  ASSUME NEW r \in WorkOrder, ShapeInv(r)
  PROVE  LET n == RecoverInterrupted(r) IN
         /\ n \in WorkOrder /\ n.stage = r.stage /\ n.error = r.error /\ SameWork(r, n)
         /\ n.optimizeSeen = r.optimizeSeen
         /\ n.status = IF r.status = "working" THEN "queued" ELSE r.status
<1>1. CASE r.status # "working"
  BY <1>1, OrderTypes
     DEF RecoverInterrupted, SameWork, SameOwner, SameGrants, SameBudget, SameVersion,
     SameRuns
<1>2. CASE r.status = "working"
  <2>1. ResumeStage(r) = r.stage
    BY <1>2 DEF ResumeStage, ShapeInv, ExecutableStatuses
  <2>2. RecoverInterrupted(r) = [r EXCEPT !.status = "queued", !.stage = r.stage]
    BY <1>2, <2>1 DEF RecoverInterrupted
  <2>. QED
    BY <1>2, <2>2
       DEF WorkOrder, Statuses, SameWork, SameOwner, SameGrants, SameBudget,
       SameVersion, SameRuns
<1>. QED
  BY <1>1, <1>2

LEMMA RecoverOptimizerFields ==
  ASSUME NEW r \in WorkOrder, OptimizerRegressed(r)
  PROVE  LET n == RecoverOptimizer(r) IN
         /\ n \in WorkOrder /\ n.status = "queued" /\ n.stage = "optimize" /\ n.error = "none"
         /\ n.attempts = IF r.attempts > r.issues[StrategyTimeout]
                         THEN r.attempts - r.issues[StrategyTimeout] ELSE 0
         /\ n.issues = [r.issues EXCEPT ![StrategyTimeout] = 0]
         /\ SameOwner(r, n) /\ SameVersion(r, n) /\ n.results = r.results
<1>. DEFINE attempts == IF r.attempts > r.issues[StrategyTimeout]
                        THEN r.attempts - r.issues[StrategyTimeout] ELSE 0
            issues == [r.issues EXCEPT ![StrategyTimeout] = 0]
            n == [r EXCEPT !.status = "queued", !.stage = "optimize", !.error = "none",
                           !.attempts = attempts, !.issues = issues, !.delayed = FALSE]
<1>1. StrategyTimeout \in IssueKeys
  BY DEF StrategyTimeout, IssueKeys, ExecutableStages
<1>2. attempts \in Nat /\ issues \in [IssueKeys -> Nat]
  <2>1. r.attempts \in Nat /\ r.issues[StrategyTimeout] \in Nat
    BY <1>1, OrderTypes
  <2>2. attempts \in Nat
    BY <2>1
  <2>3. issues \in [IssueKeys -> Nat]
    BY OrderTypes
  <2>. QED
    BY <2>2, <2>3
<1>3. RecoverOptimizer(r) = n
  BY DEF RecoverOptimizer
<1>. HIDE DEF attempts, issues
<1>4. n \in WorkOrder
  BY <1>2, ZenonT(60) DEF WorkOrder, Statuses, Stages, ExecutableStages, ResearchStages
<1>5. /\ n.status = "queued" /\ n.stage = "optimize" /\ n.error = "none"
      /\ n.attempts = attempts /\ n.issues = issues
      /\ SameOwner(r, n) /\ SameVersion(r, n) /\ n.results = r.results
  BY DEF WorkOrder, SameOwner, SameVersion
<1>. HIDE DEF n
<1>. QED
  BY <1>3, <1>4, <1>5 DEF attempts, issues

LEMMA RecoverPassedFields ==
  ASSUME NEW r \in WorkOrder, PassMisread(r)
  PROVE  LET n == RecoverPassed(r) IN
         /\ n \in WorkOrder /\ n.status = "awaiting_implementation_approval"
         /\ n.stage = "approval" /\ n.error = "none" /\ SameWork(r, n)
<1>1. RecoverPassed(r) = [r EXCEPT !.status = "awaiting_implementation_approval",
                                   !.stage = "approval", !.error = "none"]
  BY StatusSets DEF RecoverPassed
<1>2. "awaiting_implementation_approval" \in Statuses /\ "approval" \in Stages
  BY StatusSets DEF Statuses, Stages
<1>. QED
  BY <1>1, <1>2, ZenonT(60)
     DEF WorkOrder, SameWork, SameOwner, SameGrants, SameBudget, SameVersion, SameRuns

\* The evidence that RecoverBacktest finds on disk.
NativeEvidence(r) ==
  [r EXCEPT !.results.backtest = r.report,
            !.results.review_backtest = [of |-> r.report.run, verdict |-> "native"]]

LEMMA NativeFields ==
  ASSUME NEW r \in WorkOrder
  PROVE  LET n == NativeEvidence(r) IN
         /\ n \in WorkOrder /\ n.status = r.status /\ n.stage = r.stage /\ n.error = r.error
         /\ SameOwner(r, n) /\ SameGrants(r, n) /\ SameBudget(r, n) /\ SameVersion(r, n)
         /\ n.results.strategy = r.results.strategy
         /\ n.results.review_implementation = r.results.review_implementation
         /\ n.results.backtest = r.report /\ n.results.review_backtest.verdict = "native"
<1>. DEFINE x == [r.results EXCEPT
                    !.backtest = r.report,
                    !.review_backtest = [of |-> r.report.run, verdict |-> "native"]]
            n == [r EXCEPT !.results = x]
<1>1. x \in Results
  <2>1. [of |-> r.report.run, verdict |-> "native"] \in [of : Nat, verdict : Verdicts]
    BY OrderTypes DEF Evidence, Verdicts
  <2>. QED
    BY <2>1, OrderTypes DEF Results
<1>2. /\ x.strategy = r.results.strategy
      /\ x.review_implementation = r.results.review_implementation
      /\ x.backtest = r.report /\ x.review_backtest.verdict = "native"
  BY OrderTypes DEF Results
<1>3. NativeEvidence(r) = n
  BY DEF NativeEvidence, WorkOrder
<1>. HIDE DEF x
<1>4. n \in WorkOrder
  BY <1>1 DEF WorkOrder
<1>5. /\ n.results = x /\ n.status = r.status /\ n.stage = r.stage /\ n.error = r.error
      /\ SameOwner(r, n) /\ SameGrants(r, n) /\ SameBudget(r, n) /\ SameVersion(r, n)
  BY DEF WorkOrder, SameOwner, SameGrants, SameBudget, SameVersion
<1>. QED
  BY <1>2, <1>3, <1>4, <1>5

\* A delay ends or is dropped.
LEMMA DelayFields ==
  ASSUME NEW r \in WorkOrder, NEW late \in BOOLEAN
  PROVE  LET n == [r EXCEPT !.delayed = late] IN
         /\ n \in WorkOrder /\ n.status = r.status /\ n.stage = r.stage /\ n.error = r.error
         /\ SameWork(r, n) /\ n.optimizeSeen = r.optimizeSeen
BY DEF WorkOrder, SameWork, SameOwner, SameGrants, SameBudget, SameVersion, SameRuns

LEMMA CancelFields ==
  ASSUME NEW r \in WorkOrder
  PROVE  LET n == [r EXCEPT !.status = "cancelled", !.stage = "cancelled"] IN
         /\ n \in WorkOrder /\ n.status = "cancelled" /\ n.stage = "cancelled"
         /\ n.error = r.error /\ SameWork(r, n)
BY DEF WorkOrder, Statuses, Stages, SameWork, SameOwner, SameGrants, SameBudget,
   SameVersion, SameRuns

-----------------------------------------------------------------------------
(* The handoffs of the agents                                              *)

LEMMA DatasetFields ==
  ASSUME NEW r \in WorkOrder, NEW d \in Int
  PROVE  LET n == [r EXCEPT !.results.dataset = d] IN
         /\ n \in WorkOrder /\ n.status = r.status /\ n.stage = r.stage /\ n.error = r.error
         /\ SameOwner(r, n) /\ SameGrants(r, n) /\ SameBudget(r, n) /\ SameVersion(r, n)
         /\ n.results.strategy = r.results.strategy
         /\ n.results.review_implementation = r.results.review_implementation
         /\ n.results.backtest = r.results.backtest
         /\ n.results.review_backtest = r.results.review_backtest
         /\ n.results.optimization = r.results.optimization
<1>. DEFINE x == [r.results EXCEPT !.dataset = d]
<1>1. /\ x \in Results /\ x.strategy = r.results.strategy
      /\ x.review_implementation = r.results.review_implementation
      /\ x.backtest = r.results.backtest /\ x.review_backtest = r.results.review_backtest
      /\ x.optimization = r.results.optimization
  BY OrderTypes DEF Results
<1>2. [r EXCEPT !.results.dataset = d] = [r EXCEPT !.results = x]
  BY DEF WorkOrder
<1>. HIDE DEF x
<1>. QED
  BY <1>1, <1>2 DEF WorkOrder, SameOwner, SameGrants, SameBudget, SameVersion

LEMMA ProposalFields ==
  ASSUME NEW r \in WorkOrder, NEW proposal \in {"proposal", "incomplete"}
  PROVE  LET n == [r EXCEPT !.results.optimization = proposal] IN
         /\ n \in WorkOrder /\ n.status = r.status /\ n.stage = r.stage /\ n.error = r.error
         /\ SameOwner(r, n) /\ SameGrants(r, n) /\ SameBudget(r, n) /\ SameVersion(r, n)
         /\ n.results.strategy = r.results.strategy
         /\ n.results.review_implementation = r.results.review_implementation
         /\ n.results.backtest = r.results.backtest
         /\ n.results.review_backtest = r.results.review_backtest
         /\ n.results.optimization = proposal
<1>. DEFINE x == [r.results EXCEPT !.optimization = proposal]
<1>1. /\ x \in Results /\ x.strategy = r.results.strategy
      /\ x.review_implementation = r.results.review_implementation
      /\ x.backtest = r.results.backtest /\ x.review_backtest = r.results.review_backtest
      /\ x.optimization = proposal
  BY OrderTypes DEF Results
<1>2. [r EXCEPT !.results.optimization = proposal] = [r EXCEPT !.results = x]
  BY DEF WorkOrder
<1>. HIDE DEF x
<1>. QED
  BY <1>1, <1>2 DEF WorkOrder, SameOwner, SameGrants, SameBudget, SameVersion

\* A new handoff, the manifests there are now and the version that is bound.
Written(r, manifests, bound) ==
  [[r EXCEPT !.made = r.made + 1, !.manifests = manifests, !.results.strategy = r.made + 1]
     EXCEPT !.version = bound]

LEMMA WrittenFields ==
  ASSUME NEW r \in WorkOrder, NEW manifests \in SUBSET Nat, NEW bound \in Int
  PROVE  LET n == Written(r, manifests, bound) IN
         /\ n \in WorkOrder /\ n.status = r.status /\ n.stage = r.stage /\ n.error = r.error
         /\ SameOwner(r, n) /\ SameGrants(r, n) /\ SameBudget(r, n)
         /\ n.made = r.made + 1 /\ n.manifests = manifests /\ n.version = bound
         /\ n.results.strategy = r.made + 1 /\ n.results.dataset = r.results.dataset
         /\ n.results.review_implementation = r.results.review_implementation
         /\ n.results.backtest = r.results.backtest
         /\ n.results.review_backtest = r.results.review_backtest
         /\ n.results.optimization = r.results.optimization
<1>. DEFINE x == [r.results EXCEPT !.strategy = r.made + 1]
            n == [r EXCEPT !.made = r.made + 1, !.manifests = manifests, !.results = x,
                           !.version = bound]
<1>1. r.made + 1 \in Nat /\ r.results \in Results
  BY OrderTypes
<1>2. /\ x \in Results /\ x.strategy = r.made + 1 /\ x.dataset = r.results.dataset
      /\ x.review_implementation = r.results.review_implementation
      /\ x.backtest = r.results.backtest /\ x.review_backtest = r.results.review_backtest
      /\ x.optimization = r.results.optimization
  BY <1>1 DEF Results
<1>3. Written(r, manifests, bound) = n
  BY DEF Written, WorkOrder
<1>. HIDE DEF x
<1>4. n \in WorkOrder
  BY <1>1, <1>2 DEF WorkOrder
<1>5. /\ n.status = r.status /\ n.stage = r.stage /\ n.error = r.error
      /\ SameOwner(r, n) /\ SameGrants(r, n) /\ SameBudget(r, n)
      /\ n.made = r.made + 1 /\ n.manifests = manifests /\ n.version = bound /\ n.results = x
  BY DEF WorkOrder, SameOwner, SameGrants, SameBudget
<1>. QED
  BY <1>2, <1>3, <1>4, <1>5

\* A completed backtest, and the report that now comes first.
Completed(r, new, first) ==
  [r EXCEPT !.runs = new.run, !.results.backtest = new, !.report = first]

LEMMA BacktestFields ==
  ASSUME NEW r \in WorkOrder, NEW new \in Evidence, NEW first \in Evidence
  PROVE  LET n == Completed(r, new, first) IN
         /\ n \in WorkOrder /\ n.status = r.status /\ n.stage = r.stage /\ n.error = r.error
         /\ SameOwner(r, n) /\ SameGrants(r, n) /\ SameBudget(r, n) /\ SameVersion(r, n)
         /\ n.results.strategy = r.results.strategy
         /\ n.results.review_implementation = r.results.review_implementation
         /\ n.results.backtest = new
         /\ n.results.review_backtest = r.results.review_backtest
         /\ n.results.optimization = r.results.optimization
<1>. DEFINE x == [r.results EXCEPT !.backtest = new]
            n == [r EXCEPT !.runs = new.run, !.results = x, !.report = first]
<1>1. new.run \in Nat /\ r.results \in Results
  BY OrderTypes DEF Evidence
<1>2. /\ x \in Results /\ x.strategy = r.results.strategy
      /\ x.review_implementation = r.results.review_implementation
      /\ x.backtest = new /\ x.review_backtest = r.results.review_backtest
      /\ x.optimization = r.results.optimization
  BY <1>1 DEF Results
<1>3. Completed(r, new, first) = n
  BY DEF Completed, WorkOrder
<1>. HIDE DEF x
<1>4. n \in WorkOrder
  BY <1>1, <1>2 DEF WorkOrder
<1>5. /\ n.status = r.status /\ n.stage = r.stage /\ n.error = r.error
      /\ SameOwner(r, n) /\ SameGrants(r, n) /\ SameBudget(r, n) /\ SameVersion(r, n)
      /\ n.results = x
  BY DEF WorkOrder, SameOwner, SameGrants, SameBudget, SameVersion
<1>. HIDE DEF n
<1>. QED
  BY <1>2, <1>3, <1>4, <1>5

-----------------------------------------------------------------------------
(* Each update keeps what holds of a record                                *)

Keeps(r, n) ==
  /\ StoreInv(n)
  /\ GateInv(r) => GateInv(n)
  /\ GateInv(r) /\ ReviewedInv(r) => ReviewedInv(n)

LEMMA NewKeeps ==
  ASSUME NEW agent \in {"strategy", "maintenance"}, NEW kind \in {"signal", "strategy"},
         NEW required \in BOOLEAN
  PROVE  LET n == NewOrder(agent, kind, required) IN
         StoreInv(n) /\ GateInv(n) /\ ReviewedInv(n)
<1>. DEFINE n == NewOrder(agent, kind, required)
<1>1. /\ n \in WorkOrder /\ n.status = "queued" /\ n.stage = agent /\ n.agent = agent
      /\ n.results = NoResults /\ n.attempts = 0 /\ n.issues = NoIssues
      /\ n.error = "none" /\ n.version = 0 /\ n.made = 0 /\ n.manifests = {} /\ ~n.inherited
  BY NewFields
<1>. HIDE DEF n
<1>2. ShapeInv(n)
  BY <1>1, StatusSets DEF ShapeInv, ExecutableStatuses, ExecutableStages, ResearchStages
<1>3. EvidenceInv(n) /\ VersionInv(n)
  BY <1>1, StatusSets
     DEF EvidenceInv, VersionInv, Presented, PassMisread, NoResults, NoEvidence,
     ResearchStages, Researched, Identified, Recordable, FirstLinePasses
<1>4. BudgetInv(n)
  BY <1>1, BoundsAssumption DEF BudgetInv, Exhausted, NoIssues
<1>5. GateInv(n) /\ ReviewedInv(n)
  BY <1>1, StatusSets
     DEF GateInv, GrantInv, ProposalInv, ShownInv, ReviewedInv, PastApproval, Presented,
     NoResults, ResearchStages, FailedReviewShown, GateReview, Acceptable,
     FirstLinePasses
<1>. QED
  BY <1>2, <1>3, <1>4, <1>5 DEF n, StoreInv

LEMMA AbsentKeeps == StoreInv(AbsentOrder) /\ GateInv(AbsentOrder) /\ ReviewedInv(AbsentOrder)
<1>. DEFINE n == AbsentOrder
<1>1. /\ n \in WorkOrder /\ n.status = "absent" /\ n.stage = "absent" /\ n.agent = "strategy"
      /\ n.results = NoResults /\ n.attempts = 0 /\ n.issues = NoIssues
      /\ n.error = "none" /\ n.version = 0 /\ n.made = 0 /\ n.manifests = {} /\ ~n.inherited
  BY AbsentFields
<1>. HIDE DEF n
<1>2. ShapeInv(n)
  BY <1>1, StatusSets DEF ShapeInv, ExecutableStatuses, ExecutableStages, ResearchStages
<1>3. EvidenceInv(n) /\ VersionInv(n)
  BY <1>1, StatusSets
     DEF EvidenceInv, VersionInv, Presented, PassMisread, NoResults, NoEvidence,
     ResearchStages, Researched, Identified, Recordable, FirstLinePasses
<1>4. BudgetInv(n)
  BY <1>1, BoundsAssumption DEF BudgetInv, Exhausted, NoIssues
<1>5. GateInv(n) /\ ReviewedInv(n)
  BY <1>1, StatusSets
     DEF GateInv, GrantInv, ProposalInv, ShownInv, ReviewedInv, PastApproval, Presented,
     NoResults, ResearchStages, FailedReviewShown, GateReview, Acceptable,
     FirstLinePasses
<1>. QED
  BY <1>2, <1>3, <1>4, <1>5 DEF n, StoreInv

LEMMA AdoptKeeps ==
  ASSUME NEW kind \in {"signal", "strategy"}, NEW required \in BOOLEAN
  PROVE  LET n == AdoptedOrder(kind, required) IN
         StoreInv(n) /\ GateInv(n) /\ ReviewedInv(n)
<1>. DEFINE n == AdoptedOrder(kind, required)
<1>1. /\ n \in WorkOrder /\ n.status = "queued" /\ n.stage = "review_implementation"
      /\ n.agent = "strategy" /\ n.results = [NoResults EXCEPT !.strategy = Adopted]
      /\ n.attempts = 0 /\ n.issues = NoIssues /\ n.error = "none"
      /\ n.version = Adopted /\ n.made = 0 /\ n.manifests = {} /\ ~n.inherited
  BY AdoptFields
<1>2. /\ n.results.strategy = Adopted /\ n.results.backtest = NoEvidence
      /\ n.results.dataset = 0
      /\ n.results.review_implementation.verdict = "none"
      /\ n.results.review_backtest.verdict = "none"
  BY <1>1 DEF NoResults
<1>. HIDE DEF n
<1>3. ShapeInv(n)
  BY <1>1, StatusSets DEF ShapeInv, ExecutableStatuses, ExecutableStages, ResearchStages
<1>4. EvidenceInv(n) /\ VersionInv(n)
  BY <1>1, <1>2, StatusSets
     DEF EvidenceInv, VersionInv, Presented, PassMisread, ResearchStages, Adopted,
     Researched, Identified, Recordable, FirstLinePasses
<1>5. BudgetInv(n)
  BY <1>1, BoundsAssumption DEF BudgetInv, Exhausted, NoIssues
<1>6. GateInv(n) /\ ReviewedInv(n)
  BY <1>1, <1>2, StatusSets
     DEF GateInv, GrantInv, ProposalInv, ShownInv, ReviewedInv, PastApproval, Presented,
     ResearchStages, FailedReviewShown, GateReview, Acceptable, FirstLinePasses
<1>. QED
  BY <1>3, <1>4, <1>5, <1>6 DEF n, StoreInv

\* Waiting and working differ in the status only; delays play no part.
LEMMA SameWorkKeeps ==
  ASSUME NEW r \in WorkOrder, NEW n \in WorkOrder, StoreInv(r), SameWork(r, n),
         n.stage = r.stage,
         \/ n.status = r.status /\ n.error = r.error
         \/ /\ r.status \in {"queued", "working"} /\ n.status \in {"queued", "working"}
            /\ n.error \in {r.error, "none", "other", "quota"}
  PROVE  /\ StoreInv(n) /\ (GateInv(r) => GateInv(n))
         /\ ReviewedInv(r) /\ n.error # "quota" => ReviewedInv(n)
<1>1. ShapeInv(n)
  BY StatusSets DEF StoreInv, ShapeInv, SameWork, SameOwner, ExecutableStatuses
<1>2. EvidenceInv(n)
  BY StatusSets DEF StoreInv, EvidenceInv, SameWork, Presented
<1>3. VersionInv(n)
  BY StatusSets
     DEF StoreInv, VersionInv, SameWork, SameVersion, SameGrants, Presented,
     PassMisread, Researched, Identified, Recordable, FirstLinePasses, SameOwner,
     Adopted
<1>4. BudgetInv(n)
  BY DEF StoreInv, BudgetInv, SameWork, SameOwner, SameBudget
<1>5. GateInv(r) => GateInv(n)
  BY StatusSets
     DEF GateInv, GrantInv, ProposalInv, ShownInv, SameWork, SameOwner, SameGrants,
     PastApproval, FailedReviewShown, GateReview, OptimizationRequired, Acceptable,
     FirstLinePasses
<1>6. ReviewedInv(r) /\ n.error # "quota" => ReviewedInv(n)
  BY StatusSets DEF ReviewedInv, Presented, SameWork, SameOwner
<1>. QED
  BY <1>1, <1>2, <1>3, <1>4, <1>5, <1>6 DEF StoreInv

LEMMA CancelledKeeps ==
  ASSUME NEW r \in WorkOrder, NEW n \in WorkOrder, StoreInv(r),
         r.status \in {"queued", "working"}, n.status = "cancelled", n.stage = "cancelled",
         n.error \in {r.error, "none"}, SameOwner(r, n), SameBudget(r, n),
         n.results = r.results, n.version = r.version, n.made = r.made,
         n.manifests = r.manifests
  PROVE  Keeps(r, n)
<1>1. ShapeInv(n)
  BY StatusSets
     DEF StoreInv, ShapeInv, SameOwner, ExecutableStatuses, ExecutableStages,
     ResearchStages
<1>2. EvidenceInv(n) /\ VersionInv(n)
  BY StatusSets
     DEF StoreInv, EvidenceInv, VersionInv, Presented, PassMisread, ResearchStages,
     Researched, Identified, Recordable, FirstLinePasses
<1>3. BudgetInv(n)
  BY DEF StoreInv, BudgetInv, SameOwner, SameBudget
<1>4. GateInv(r) => GateInv(n)
  BY StatusSets
     DEF GateInv, GrantInv, ProposalInv, ShownInv, PastApproval, ResearchStages,
     FailedReviewShown, GateReview, Acceptable, FirstLinePasses
<1>5. ReviewedInv(r) => ReviewedInv(n)
  BY StatusSets DEF ReviewedInv, Presented, ResearchStages
<1>. QED
  BY <1>1, <1>2, <1>3, <1>4, <1>5 DEF StoreInv, Keeps

LEMMA FailedKeeps ==
  ASSUME NEW r \in WorkOrder, StoreInv(r), r.status # "dead_letter"
  PROVE  StoreInv(Failed(r)) /\ GateInv(Failed(r)) /\ ReviewedInv(Failed(r))
<1>. DEFINE n == Failed(r)
<1>1. /\ n \in WorkOrder /\ n.status = "failed" /\ n.stage = "failed"
      /\ n.results = NoResults /\ n.error = "none"
      /\ SameOwner(r, n) /\ SameBudget(r, n) /\ n.version = r.version /\ n.made = r.made
      /\ n.manifests = r.manifests
  BY FailedFields
<1>. HIDE DEF n
<1>2. ShapeInv(n)
  BY <1>1, StatusSets DEF ShapeInv, ExecutableStatuses, ExecutableStages, ResearchStages
<1>3. EvidenceInv(n) /\ VersionInv(n)
  BY <1>1, StatusSets
     DEF StoreInv, EvidenceInv, VersionInv, Presented, PassMisread, NoResults,
     NoEvidence, ResearchStages, Researched, Identified, Recordable, FirstLinePasses
<1>4. GateInv(n) /\ ReviewedInv(n)
  BY <1>1, StatusSets
     DEF GateInv, GrantInv, ProposalInv, ShownInv, ReviewedInv, PastApproval, Presented,
     NoResults, ResearchStages, FailedReviewShown, GateReview, Acceptable,
     FirstLinePasses
<1>5. BudgetInv(n)
  BY <1>1 DEF StoreInv, BudgetInv, SameOwner, SameBudget
<1>. QED
  BY <1>2, <1>3, <1>4, <1>5 DEF n, StoreInv

\* A failure that is counted: the order goes on where its stage allows, or has
\* reached a limit it had not reached before.
LEMMA RequeuedKeeps ==
  ASSUME NEW r \in WorkOrder, StoreInv(r), r.status \in {"working"} \cup GateStatuses,
         r.agent = "strategy" \/ r.status = "working",
         NEW stage \in ExecutableStages, NEW keys \in SUBSET IssueKeys,
         NEW error \in {"timeout", "other"}, NEW delayed \in BOOLEAN, NEW ask \in BOOLEAN,
         error = "timeout" => keys = {<<stage, "timeout">>},
         \/ stage = r.stage
         \/ /\ r.stage # "optimize" /\ r.agent = "strategy"
            /\ \/ stage = "strategy"
               \/ /\ stage = "dataset" \/ (stage = "backtest" /\ r.version \in r.manifests)
                  /\ PastApproval(r) /\ r.backtestRequired
  PROVE  Keeps(r, Requeued(r, stage, keys, error, delayed, ask))
<1>. DEFINE n == Requeued(r, stage, keys, error, delayed, ask)
<1>1. n \in WorkOrder /\ n.stage = stage /\ n.error = error /\ Counted(r, n, keys)
  <2>1. CountedAt(r, n, stage, keys, error)
    BY RequeuedFields
  <2>. QED
    BY <2>1 DEF CountedAt
<1>. HIDE DEF n
<1>2. ShapeInv(n)
  BY <1>1, StatusSets
     DEF Counted, StoreInv, ShapeInv, SameOwner, ExecutableStatuses, ExecutableStages,
     ResearchStages
<1>3. EvidenceInv(n)
  BY <1>1, StatusSets
     DEF Counted, StoreInv, ShapeInv, EvidenceInv, PastApproval, Presented,
     ResearchStages
<1>4. VersionInv(n)
  BY <1>1, StatusSets
     DEF Counted, StoreInv, ShapeInv, VersionInv, SameVersion, Presented, PastApproval,
     PassMisread, ResearchStages, Researched, Identified, Recordable, FirstLinePasses,
     SameOwner, Adopted
<1>5. BudgetInv(n)
  <2>. SUFFICES ASSUME ~n.inherited PROVE BudgetInv(n)
    BY DEF BudgetInv
  <2>1. /\ ~Exhausted(r.attempts, r.issues, IssueKeys) /\ r.attempts \in Nat
        /\ r.issues \in [IssueKeys -> Nat]
    BY <1>1, StatusSets, OrderTypes DEF Counted, StoreInv, BudgetInv, SameOwner
  <2>2. r.attempts < MaxAttempts /\ \A key \in IssueKeys : r.issues[key] <= SameIssueLimit
    BY <2>1, BoundsAssumption DEF Exhausted
  <2>3. n.attempts <= MaxAttempts
    BY <1>1, <2>1, <2>2, BoundsAssumption DEF Counted
  <2>4. \A key \in IssueKeys : key \notin keys => n.issues[key] <= SameIssueLimit
    BY <1>1, <2>1, <2>2 DEF Counted
  <2>5. Exhausted(n.attempts, n.issues, keys) <=> Exhausted(n.attempts, n.issues, IssueKeys)
    <3>1. n.attempts \in Nat /\ n.issues \in [IssueKeys -> Nat]
      BY <1>1, OrderTypes
    <3>. QED
      BY <2>4, <3>1, BoundsAssumption DEF Exhausted
  <2>6. ASSUME error = "timeout"
        PROVE  /\ n.issues[<<n.stage, "timeout">>] > 0
               /\ \A key \in IssueKeys :
                    key # <<n.stage, "timeout">> => n.issues[key] <= SameIssueLimit
    <3>1. keys = {<<n.stage, "timeout">>} /\ <<n.stage, "timeout">> \in IssueKeys
      BY <1>1, <2>6
    <3>. DEFINE t == <<n.stage, "timeout">>
    <3>. HIDE DEF t
    <3>2. keys = {t} /\ t \in IssueKeys
      BY <3>1 DEF t
    <3>3. n.issues[t] = r.issues[t] + 1 /\ r.issues[t] \in Nat
      BY <1>1, <2>1, <3>2 DEF Counted
    <3>. QED
      BY <2>4, <3>2, <3>3 DEF t
  <2>. QED
    BY <1>1, <2>3, <2>5, <2>6 DEF Counted, BudgetInv
<1>6. GrantInv(r) => GrantInv(n)
  BY <1>1, StatusSets
     DEF Counted, GrantInv, SameGrants, SameOwner, PastApproval, ResearchStages
<1>7. ProposalInv(r) => ProposalInv(n)
  <2>1. r.stage # "cancelled"
    BY StatusSets
       DEF StoreInv, ShapeInv, ExecutableStatuses, ExecutableStages, ResearchStages
  <2>. QED
    BY <1>1, <2>1 DEF Counted, ProposalInv, SameOwner, OptimizationRequired
<1>8. ShownInv(r) => ShownInv(n)
  BY <1>1, StatusSets
     DEF Counted, ShownInv, PastApproval, ResearchStages, FailedReviewShown, GateReview,
     Acceptable, FirstLinePasses, SameOwner
<1>9. ReviewedInv(r) => ReviewedInv(n)
  BY <1>1, StatusSets
     DEF Counted, StoreInv, ShapeInv, ReviewedInv, Presented, PastApproval,
     ResearchStages
<1>. QED
  BY <1>2, <1>3, <1>4, <1>5, <1>6, <1>7, <1>8, <1>9 DEF n, StoreInv, GateInv, Keeps

\* A verdict is stored.  A pass that awaits a proposal moves on at once.
LEMMA ReviewedKeeps ==
  ASSUME NEW r \in WorkOrder, StoreInv(r), r.status = "working", r.stage \in ReviewStages,
         NEW verdict \in {"pass", "fail", "incomplete", "unchecked"}
  PROVE  LET n == Reviewed(r, verdict) IN
         /\ StoreInv(n)
         /\ GrantInv(r) => GrantInv(n)
         /\ ShownInv(r) => ShownInv(n)
         /\ ReviewedInv(r) => ReviewedInv(n)
         /\ ProposalInv(r) /\ (r.stage = "review_backtest" =>
                                 verdict # "pass" \/ ~OptimizationRequired(r)) => ProposalInv(n)
<1>. DEFINE n == Reviewed(r, verdict)
<1>1. verdict \in Verdicts
  BY DEF Verdicts
<1>2. /\ n \in WorkOrder /\ n.status = r.status /\ n.stage = r.stage /\ n.error = r.error
      /\ SameOwner(r, n) /\ SameGrants(r, n) /\ SameBudget(r, n) /\ SameVersion(r, n)
      /\ SameRuns(r, n)
      /\ n.results.strategy = r.results.strategy /\ n.results.backtest = r.results.backtest
      /\ n.results.optimization = r.results.optimization
      /\ n.results.dataset = r.results.dataset
      /\ r.stage = "review_implementation" =>
           /\ n.results.review_implementation = [of |-> r.results.strategy, verdict |-> verdict]
           /\ n.results.review_backtest = r.results.review_backtest
      /\ r.stage # "review_implementation" =>
           /\ n.results.review_implementation = r.results.review_implementation
           /\ n.results.review_backtest = [of |-> r.results.backtest.run, verdict |-> verdict]
  BY <1>1, ReviewedFields
<1>3. r.agent = "strategy"
  BY OrderTypes DEF StoreInv, ShapeInv, ReviewStages
<1>. HIDE DEF n
<1>4. ShapeInv(n)
  BY <1>2, <1>3, StatusSets DEF StoreInv, ShapeInv, SameOwner
<1>5. EvidenceInv(n) /\ VersionInv(n)
  BY <1>2, StatusSets
     DEF StoreInv, EvidenceInv, VersionInv, SameVersion, Presented, PassMisread,
     ReviewStages, Researched, Identified, Recordable, FirstLinePasses
<1>6. BudgetInv(n)
  BY <1>2 DEF StoreInv, BudgetInv, SameOwner, SameBudget
<1>7. GrantInv(r) => GrantInv(n)
  BY <1>2, StatusSets DEF GrantInv, SameGrants, SameOwner, PastApproval
<1>8. ShownInv(r) => ShownInv(n)
  BY <1>2, StatusSets
     DEF ShownInv, PastApproval, ReviewStages, ResearchStages, FailedReviewShown,
     GateReview, Acceptable, FirstLinePasses, SameOwner
<1>9. ReviewedInv(r) => ReviewedInv(n)
  BY <1>2, StatusSets
     DEF ReviewedInv, SameOwner, Presented, ReviewStages, ResearchStages
<1>10. ProposalInv(r) /\ (r.stage = "review_backtest" =>
                            verdict # "pass" \/ ~OptimizationRequired(r)) => ProposalInv(n)
  BY <1>2 DEF ProposalInv, OptimizationRequired, SameOwner, ReviewStages
<1>. QED
  BY <1>4, <1>5, <1>6, <1>7, <1>8, <1>9, <1>10 DEF n, StoreInv

LEMMA InterruptedKeeps ==
  ASSUME NEW r \in WorkOrder, StoreInv(r), r.status = "working", NEW n \in Interrupted(r)
  PROVE  Keeps(r, n)
<1>1. /\ n \in WorkOrder /\ n.status = r.status /\ n.stage = r.stage /\ n.error = r.error
      /\ SameOwner(r, n) /\ SameGrants(r, n) /\ SameBudget(r, n)
      /\ n.results = r.results /\ n.version = r.version /\ n.recorded = r.recorded
      /\ \/ n.made = r.made /\ n.manifests = r.manifests
         \/ /\ r.stage = "strategy" /\ n.made = r.made + 1
            /\ n.manifests = r.manifests \cup {r.made + 1}
      /\ r.made \in Nat
  BY InterruptedFields, OrderTypes
<1>2. ShapeInv(n) /\ EvidenceInv(n)
  BY <1>1, StatusSets DEF StoreInv, ShapeInv, EvidenceInv, SameOwner, Presented
<1>3. VersionInv(n)
  BY <1>1, StatusSets
     DEF StoreInv, VersionInv, Presented, PassMisread, Researched, Identified,
     Recordable, FirstLinePasses
<1>4. BudgetInv(n)
  BY <1>1 DEF StoreInv, BudgetInv, SameOwner, SameBudget
<1>5. GateInv(r) => GateInv(n)
  BY <1>1, StatusSets
     DEF GateInv, GrantInv, ProposalInv, ShownInv, SameOwner, SameGrants, PastApproval,
     FailedReviewShown, GateReview, OptimizationRequired, Acceptable, FirstLinePasses
<1>6. ReviewedInv(r) => ReviewedInv(n)
  BY <1>1, StatusSets DEF ReviewedInv, Presented, SameOwner
<1>. QED
  BY <1>2, <1>3, <1>4, <1>5, <1>6 DEF StoreInv, Keeps

\* A gate opens for work that has passed the review the gate rests on.
Passed(r, gate) ==
  CASE gate = "implementation" ->
         /\ r.stage = "review_implementation"
         /\ r.results.review_implementation = [of |-> r.results.strategy, verdict |-> "pass"]
    [] gate = "optimization" -> r.stage = "optimize" /\ r.results.optimization = "proposal"
    [] gate = "backtest" ->
         /\ r.stage = "review_backtest" /\ ~OptimizationRequired(r)
         /\ r.results.review_backtest = [of |-> r.results.backtest.run, verdict |-> "pass"]
    [] OTHER -> FALSE

LEMMA GateKeeps ==
  ASSUME NEW r \in WorkOrder, StoreInv(r), r.status = "working", Recordable(r),
         NEW gate \in Gates, Passed(r, gate)
  PROVE  Keeps(r, Recorded(Finished(r, AwaitingStatus(gate), "approval")))
<1>. DEFINE status == AwaitingStatus(gate)
            n == Recorded(Finished(r, status, "approval"))
<1>1. status \in Statuses /\ "approval" \in Stages
  BY DEF Statuses, GateStatuses, Stages
<1>2. Identified(r)
  BY OrderTypes, StatusSets
     DEF StoreInv, VersionInv, Recordable, Passed, ResearchStages, Gates, Researched,
     Identified
<1>3. /\ n \in WorkOrder /\ n.status = status /\ n.stage = "approval" /\ n.error = "none"
      /\ SameOwner(r, n) /\ SameGrants(r, n) /\ SameBudget(r, n)
      /\ n.results = r.results /\ n.version = r.version /\ n.made = r.made
      /\ n.manifests = r.manifests
      /\ n.recorded = r.version
  BY <1>1, <1>2, FinishFields
<1>4. \/ gate = "implementation" /\ status = "awaiting_implementation_approval"
      \/ gate = "optimization" /\ status = "awaiting_optimization_approval"
      \/ gate = "backtest" /\ status = "awaiting_backtest_approval"
  BY StatusSets DEF Gates, Passed
<1>5. r.agent = "strategy" /\ r.results.strategy # 0
  BY <1>4, OrderTypes DEF StoreInv, ShapeInv, EvidenceInv, Passed, ResearchStages
<1>. HIDE DEF n, status
<1>6. ShapeInv(n)
  BY <1>3, <1>4, <1>5, StatusSets
     DEF StoreInv, ShapeInv, SameOwner, ExecutableStatuses, ExecutableStages,
     ResearchStages, Passed
<1>7. EvidenceInv(n) /\ VersionInv(n)
  BY <1>2, <1>3, <1>4, <1>5, StatusSets
     DEF Passed, StoreInv, EvidenceInv, VersionInv, Presented, PassMisread,
     ResearchStages, Researched, Identified, Recordable, FirstLinePasses, SameOwner,
     Adopted
<1>8. BudgetInv(n)
  BY <1>3, <1>4 DEF StoreInv, BudgetInv, SameOwner, SameBudget
<1>9. GateInv(r) => GateInv(n)
  <2>1. GrantInv(r) => GrantInv(n)
    BY <1>3, <1>4 DEF GrantInv, SameGrants, PastApproval, Passed, ResearchStages
  <2>2. ProposalInv(r) => ProposalInv(n)
    BY <1>3, <1>4
       DEF StoreInv, ShapeInv, ProposalInv, OptimizationRequired, SameOwner, Passed
  <2>3. ShownInv(r) => ShownInv(n)
    BY <1>3, <1>4, StatusSets
       DEF ShownInv, PastApproval, Passed, ResearchStages, FailedReviewShown,
       GateReview, Acceptable, FirstLinePasses, SameOwner
  <2>. QED
    BY <2>1, <2>2, <2>3 DEF GateInv
<1>10. ReviewedInv(r) => ReviewedInv(n)
  BY <1>3, <1>4, StatusSets DEF ReviewedInv, Presented, Passed, ResearchStages
<1>. QED
  BY <1>6, <1>7, <1>8, <1>9, <1>10 DEF n, status, StoreInv, Keeps

LEMMA DecidedImplementationKeeps ==
  ASSUME NEW r \in WorkOrder, StoreInv(r), r.status = AwaitingStatus("implementation"),
         NEW approved \in BOOLEAN
  PROVE  LET n == DecidedImplementation(r, approved) IN
         StoreInv(n) /\ (~FailedReviewShown(r) => Keeps(r, n))
<1>. DEFINE n == DecidedImplementation(r, approved)
<1>1. /\ n \in WorkOrder /\ n.error = r.error
      /\ SameOwner(r, n) /\ SameBudget(r, n) /\ SameVersion(r, n) /\ SameRuns(r, n)
      /\ ~approved => n.status = "queued" /\ n.stage = "strategy" /\ n.results = NoResults
      /\ approved =>
           /\ n.results = r.results /\ n.approvedFor = r.results.strategy
           /\ n.approvals = [r.approvals EXCEPT !["implementation"] = "yes"]
           /\ r.backtestRequired => n.status = "queued" /\ n.stage = "dataset"
           /\ ~r.backtestRequired =>
                n.status = "awaiting_live_approval" /\ n.stage = "approval"
  BY DecidedImplementationFields
<1>. HIDE DEF n
<1>2. approved => n.approvals["implementation"] = "yes"
  BY <1>1, OrderTypes DEF Gates
<1>3. r.status = "awaiting_implementation_approval" /\ r.stage = "approval"
      /\ r.agent = "strategy" /\ r.backtestRequired \in BOOLEAN
  BY StatusSets, OrderTypes DEF StoreInv, ShapeInv
<1>4. ShapeInv(n)
  BY <1>1, <1>3, StatusSets
     DEF ShapeInv, SameOwner, ExecutableStatuses, ExecutableStages, ResearchStages
<1>5. EvidenceInv(n) /\ VersionInv(n)
  BY <1>1, <1>3, StatusSets
     DEF StoreInv, EvidenceInv, VersionInv, SameVersion, Presented, PassMisread,
     ResearchStages, NoResults, NoEvidence, Researched, Identified, Recordable,
     FirstLinePasses, SameOwner, Adopted
<1>6. BudgetInv(n)
  BY <1>1, <1>3 DEF StoreInv, BudgetInv, SameOwner, SameBudget
<1>7. GateInv(r) /\ ~FailedReviewShown(r) => GateInv(n)
  <2>1. GrantInv(n)
    BY <1>1, <1>2, <1>3 DEF GrantInv, PastApproval, ResearchStages, SameOwner
  <2>2. ProposalInv(r) => ProposalInv(n)
    BY <1>1, <1>3 DEF ProposalInv, OptimizationRequired, SameOwner, NoResults
  <2>3. ShownInv(r) /\ ~FailedReviewShown(r) => ShownInv(n)
    BY <1>1, <1>3, StatusSets
       DEF ShownInv, PastApproval, ResearchStages, FailedReviewShown, GateReview,
       SameOwner, Acceptable, FirstLinePasses, NoResults
  <2>. QED
    BY <2>1, <2>2, <2>3 DEF GateInv
<1>8. ReviewedInv(r) => ReviewedInv(n)
  BY <1>1, <1>3, StatusSets DEF ReviewedInv, Presented, ResearchStages, SameOwner
<1>. QED
  BY <1>4, <1>5, <1>6, <1>7, <1>8 DEF n, StoreInv, Keeps

LEMMA DecidedOptimizationKeeps ==
  ASSUME NEW r \in WorkOrder, StoreInv(r), r.status = AwaitingStatus("optimization"),
         NEW approved \in BOOLEAN
  PROVE  Keeps(r, DecidedOptimization(r, approved))
<1>. DEFINE n == DecidedOptimization(r, approved)
<1>1. /\ n \in WorkOrder /\ n.error = r.error
      /\ SameOwner(r, n) /\ SameVersion(r, n) /\ SameRuns(r, n)
      /\ approved =>
           /\ n.status = "queued" /\ n.stage = "strategy"
           /\ n.results = [NoResults EXCEPT !.optimization = "approved"]
           /\ n.attempts = 0 /\ n.issues = NoIssues
      /\ ~approved =>
           /\ n.status = "awaiting_backtest_approval" /\ n.stage = r.stage
           /\ n.approvals = [r.approvals EXCEPT !["optimization"] = "no"]
           /\ n.approvedFor = r.approvedFor /\ n.results = r.results /\ SameBudget(r, n)
  BY DecidedOptimizationFields
<1>. HIDE DEF n
<1>2. approved => /\ n.results.backtest = NoEvidence /\ n.results.dataset = 0
                  /\ n.results.review_implementation.verdict = "none"
                  /\ n.results.review_backtest.verdict = "none"
  BY <1>1 DEF NoResults
<1>3. ~approved => n.approvals["implementation"] = r.approvals["implementation"]
  BY <1>1, OrderTypes DEF Gates
<1>4. /\ r.status = "awaiting_optimization_approval" /\ r.stage = "approval"
      /\ r.agent = "strategy" /\ r.backtestRequired
  BY StatusSets, OrderTypes DEF StoreInv, ShapeInv
<1>5. ShapeInv(n)
  BY <1>1, <1>4, StatusSets
     DEF ShapeInv, SameOwner, ExecutableStatuses, ExecutableStages, ResearchStages
<1>6. EvidenceInv(n) /\ VersionInv(n)
  BY <1>1, <1>2, <1>4, StatusSets
     DEF StoreInv, EvidenceInv, VersionInv, SameVersion, Presented, PassMisread,
     ResearchStages, Researched, Identified, Recordable, FirstLinePasses, SameOwner,
     Adopted
<1>7. BudgetInv(n)
  <2>1. approved => ~Exhausted(n.attempts, n.issues, IssueKeys)
    BY <1>1, BoundsAssumption DEF Exhausted, NoIssues
  <2>. QED
    BY <1>1, <1>4, <2>1, BoundsAssumption DEF StoreInv, BudgetInv, SameOwner, SameBudget
<1>8. GateInv(r) => GateInv(n)
  <2>1. GrantInv(r) => GrantInv(n)
    BY <1>1, <1>3, <1>4 DEF GrantInv, PastApproval, ResearchStages
  <2>2. ProposalInv(r) => ProposalInv(n)
    BY <1>1, <1>2, <1>4 DEF ProposalInv, OptimizationRequired, SameOwner
  <2>3. ShownInv(r) => ShownInv(n)
    BY <1>1, <1>2, <1>4, StatusSets
       DEF ShownInv, PastApproval, ResearchStages, FailedReviewShown, GateReview,
       Acceptable, FirstLinePasses, SameOwner
  <2>. QED
    BY <2>1, <2>2, <2>3 DEF GateInv
<1>9. ReviewedInv(r) => ReviewedInv(n)
  BY <1>1, <1>4, StatusSets DEF ReviewedInv, Presented, ResearchStages
<1>. QED
  BY <1>5, <1>6, <1>7, <1>8, <1>9 DEF n, StoreInv, Keeps

LEMMA DecidedBacktestKeeps ==
  ASSUME NEW r \in WorkOrder, StoreInv(r), r.status = AwaitingStatus("backtest"),
         NEW approved \in BOOLEAN
  PROVE  Keeps(r, DecidedBacktest(r, approved))
<1>. DEFINE n == DecidedBacktest(r, approved)
<1>1. /\ n \in WorkOrder /\ n.error = r.error /\ n.approvedFor = r.approvedFor
      /\ SameOwner(r, n) /\ SameBudget(r, n) /\ SameVersion(r, n) /\ SameRuns(r, n)
      /\ n.approvals["implementation"] = r.approvals["implementation"]
      /\ n.results.strategy = r.results.strategy
      /\ n.results.review_implementation = r.results.review_implementation
      /\ ~approved =>
           /\ n.status = "queued" /\ n.stage = "backtest"
           /\ n.results.backtest = NoEvidence
           /\ n.results.review_backtest = NoResults.review_backtest
      /\ approved =>
           /\ n.status = "awaiting_live_approval" /\ n.stage = r.stage
           /\ n.approvals["backtest"] = "yes" /\ n.results = r.results
  BY DecidedBacktestFields
<1>2. /\ r.status = "awaiting_backtest_approval" /\ r.stage = "approval"
      /\ r.agent = "strategy" /\ r.backtestRequired
  BY StatusSets, OrderTypes DEF StoreInv, ShapeInv
<1>3. NoResults.review_backtest.verdict = "none"
  BY DEF NoResults
<1>. HIDE DEF n
<1>4. ShapeInv(n)
  BY <1>1, <1>2, StatusSets
     DEF ShapeInv, SameOwner, ExecutableStatuses, ExecutableStages, ResearchStages
<1>5. EvidenceInv(n) /\ VersionInv(n)
  BY <1>1, <1>2, <1>3, StatusSets
     DEF StoreInv, EvidenceInv, VersionInv, SameVersion, Presented, PassMisread,
     ResearchStages, Researched, Identified, Recordable, FirstLinePasses, SameOwner,
     Adopted
<1>6. BudgetInv(n)
  BY <1>1, <1>2 DEF StoreInv, BudgetInv, SameOwner, SameBudget
<1>7. GateInv(r) => GateInv(n)
  <2>1. GrantInv(r) => GrantInv(n)
    BY <1>1, <1>2 DEF GrantInv, PastApproval, ResearchStages
  <2>2. ProposalInv(r) => ProposalInv(n)
    BY <1>1, <1>2, <1>3 DEF ProposalInv, OptimizationRequired, SameOwner
  <2>3. ShownInv(r) => ShownInv(n)
    BY <1>1, <1>2, StatusSets
       DEF ShownInv, PastApproval, ResearchStages, FailedReviewShown, GateReview,
       Acceptable, FirstLinePasses, SameOwner
  <2>. QED
    BY <2>1, <2>2, <2>3 DEF GateInv
<1>8. ReviewedInv(r) => ReviewedInv(n)
  BY <1>1, <1>2, StatusSets DEF ReviewedInv, Presented, ResearchStages
<1>. QED
  BY <1>4, <1>5, <1>6, <1>7, <1>8 DEF n, StoreInv, Keeps

LEMMA DecidedLiveKeeps ==
  ASSUME NEW r \in WorkOrder, StoreInv(r), r.status = AwaitingStatus("live"),
         NEW approved \in BOOLEAN
  PROVE  Keeps(r, DecidedLive(r, approved))
<1>. DEFINE n == DecidedLive(r, approved)
<1>1. /\ n \in WorkOrder /\ n.error = r.error /\ n.approvedFor = r.approvedFor
      /\ SameOwner(r, n) /\ SameBudget(r, n) /\ SameVersion(r, n) /\ SameRuns(r, n)
      /\ n.results = r.results
      /\ n.approvals["implementation"] = r.approvals["implementation"]
      /\ n.approvals["backtest"] = r.approvals["backtest"]
      /\ ~approved => n.status = "awaiting_implementation_approval" /\ n.stage = r.stage
      /\ approved => /\ n.status = "approved" /\ n.stage = "released"
                     /\ n.approvals["live"] = "yes"
  BY DecidedLiveFields
<1>2. r.status = "awaiting_live_approval" /\ r.stage = "approval" /\ r.agent = "strategy"
  BY StatusSets, OrderTypes DEF StoreInv, ShapeInv
<1>. HIDE DEF n
<1>3. ShapeInv(n)
  BY <1>1, <1>2, StatusSets
     DEF ShapeInv, SameOwner, ExecutableStatuses, ExecutableStages, ResearchStages
<1>4. EvidenceInv(n) /\ VersionInv(n)
  BY <1>1, <1>2, StatusSets
     DEF StoreInv, EvidenceInv, VersionInv, SameVersion, Presented, PassMisread,
     ResearchStages, Researched, Identified, Recordable, FirstLinePasses, SameOwner,
     Adopted
<1>5. BudgetInv(n)
  BY <1>1, <1>2 DEF StoreInv, BudgetInv, SameOwner, SameBudget
<1>6. GateInv(r) => GateInv(n)
  <2>1. GrantInv(r) => GrantInv(n)
    BY <1>1, <1>2 DEF GrantInv, PastApproval, ResearchStages, SameOwner
  <2>2. ProposalInv(r) => ProposalInv(n)
    BY <1>1, <1>2 DEF ProposalInv, OptimizationRequired, SameOwner
  <2>3. ShownInv(r) => ShownInv(n)
    BY <1>1, <1>2, StatusSets
       DEF ShownInv, PastApproval, ResearchStages, FailedReviewShown, GateReview,
       Acceptable, FirstLinePasses, SameOwner
  <2>. QED
    BY <2>1, <2>2, <2>3 DEF GateInv
<1>7. ReviewedInv(r) => ReviewedInv(n)
  BY <1>1, <1>2, StatusSets DEF ReviewedInv, Presented, ResearchStages, SameOwner
<1>. QED
  BY <1>3, <1>4, <1>5, <1>6, <1>7 DEF n, StoreInv, Keeps

\* The operator's retry: from the optimizer stage it could keep evidence that
\* has passed while the approval it rests on is withdrawn.
LEMMA RemediatedKeeps ==
  ASSUME NEW r \in WorkOrder, StoreInv(r), NEW version \in r.manifests,
         r.status \in {"dead_letter", "failed", "awaiting_user_input"}
  PROVE  LET n == Remediated(r, version) IN
         /\ StoreInv(n)
         /\ GateInv(r) /\ r.stage # "optimize" => GateInv(n)
         /\ ReviewedInv(r) => ReviewedInv(n)
<1>. DEFINE n == Remediated(r, version)
<1>1. version \in Int /\ version > 0 /\ r.made \in Nat
  BY OrderTypes DEF StoreInv, VersionInv
<1>2. /\ n \in WorkOrder /\ n.status = "queued" /\ n.attempts = 0 /\ n.issues = NoIssues
      /\ n.version = version /\ n.error = "none" /\ n.made = r.made /\ n.manifests = r.manifests
      /\ n.recorded = r.recorded /\ n.approvedFor = r.approvedFor /\ SameOwner(r, n)
      /\ n.results.strategy = r.results.strategy
      /\ n.results.review_implementation = r.results.review_implementation
      /\ PreservesImplementation(r, version) =>
           /\ n.stage = "backtest" /\ n.approvals["implementation"] = "yes"
           /\ n.results.backtest = NoEvidence
           /\ n.results.review_backtest = NoResults.review_backtest
      /\ ~PreservesImplementation(r, version) => n.stage = r.agent /\ n.results = r.results
  BY <1>1, RemediatedFields
<1>. HIDE DEF n
<1>3. NoResults.review_backtest.verdict = "none" /\ r.agent \in {"strategy", "maintenance"}
  BY OrderTypes DEF NoResults
<1>4. PreservesImplementation(r, version) =>
        /\ r.stage \in {"backtest", "review_backtest"} /\ r.agent = "strategy"
        /\ r.backtestRequired /\ r.results.strategy # 0
  BY DEF PreservesImplementation, StoreInv, ShapeInv, ResearchStages
<1>5. ShapeInv(n)
  BY <1>2, <1>3, <1>4, StatusSets
     DEF StoreInv, ShapeInv, SameOwner, ExecutableStatuses, ExecutableStages,
     ResearchStages
<1>6. EvidenceInv(n)
  BY <1>2, <1>3, <1>4, StatusSets DEF StoreInv, EvidenceInv, Presented, ResearchStages
<1>7. VersionInv(n)
  BY <1>1, <1>2, <1>3, <1>4, StatusSets
     DEF StoreInv, VersionInv, Presented, PassMisread, ResearchStages, Researched,
     Identified, Recordable, FirstLinePasses, Adopted
<1>8. BudgetInv(n)
  BY <1>2, BoundsAssumption DEF BudgetInv, Exhausted, NoIssues
<1>9. ASSUME GateInv(r), r.stage # "optimize"
      PROVE  GateInv(n)
  <2>1. GrantInv(n)
    BY <1>2, <1>3, <1>4, <1>9 DEF GateInv, GrantInv, PastApproval, ResearchStages
  <2>2. ProposalInv(n)
    <3>1. r.stage # "cancelled"
      BY StatusSets
         DEF StoreInv, ShapeInv, ExecutableStatuses, ExecutableStages, ResearchStages
    <3>. QED
      BY <1>2, <1>3, <1>9, <3>1
         DEF GateInv, ProposalInv, OptimizationRequired, SameOwner
  <2>3. ShownInv(n)
    BY <1>2, <1>3, <1>4, <1>9, StatusSets
       DEF GateInv, ShownInv, PastApproval, ResearchStages, FailedReviewShown,
       GateReview, Acceptable, FirstLinePasses, SameOwner
  <2>. QED
    BY <2>1, <2>2, <2>3 DEF GateInv
<1>10. ReviewedInv(r) => ReviewedInv(n)
  BY <1>2, <1>3, <1>4, StatusSets DEF ReviewedInv, Presented, ResearchStages
<1>. QED
  BY <1>5, <1>6, <1>7, <1>8, <1>9, <1>10 DEF n, StoreInv

-----------------------------------------------------------------------------
(* Turns of the agents                                                     *)

\* The dataset is there: the order goes on to its backtest.
LEMMA ToBacktestKeeps ==
  ASSUME NEW r \in WorkOrder, NEW n \in WorkOrder, StoreInv(r), r.status = "working",
         r.stage \in {"dataset", "backtest"}, n.status = r.status, n.stage = "backtest",
         n.error = r.error, r.version \in r.manifests,
         SameOwner(r, n), SameGrants(r, n), SameBudget(r, n), SameVersion(r, n),
         n.results.strategy = r.results.strategy,
         n.results.review_implementation = r.results.review_implementation,
         n.results.backtest = r.results.backtest,
         n.results.review_backtest = r.results.review_backtest,
         n.results.optimization = r.results.optimization
  PROVE  Keeps(r, n)
<1>1. r.agent = "strategy" /\ r.backtestRequired
  BY OrderTypes DEF StoreInv, ShapeInv, ResearchStages
<1>2. ShapeInv(n)
  BY <1>1, StatusSets
     DEF ShapeInv, SameOwner, ExecutableStatuses, ExecutableStages, ResearchStages
<1>3. EvidenceInv(n)
  BY StatusSets DEF StoreInv, EvidenceInv, Presented, ResearchStages
<1>4. VersionInv(n)
  BY StatusSets
     DEF StoreInv, VersionInv, SameVersion, Presented, PassMisread, ResearchStages,
     Researched, Identified, Recordable, FirstLinePasses
<1>5. BudgetInv(n)
  BY DEF StoreInv, BudgetInv, SameOwner, SameBudget
<1>6. GateInv(r) => GateInv(n)
  BY StatusSets
     DEF GateInv, GrantInv, ProposalInv, ShownInv, SameOwner, SameGrants, PastApproval,
     ResearchStages, FailedReviewShown, GateReview, OptimizationRequired, Acceptable,
     FirstLinePasses
<1>7. ReviewedInv(r) => ReviewedInv(n)
  BY StatusSets DEF ReviewedInv, Presented, ResearchStages
<1>. QED
  BY <1>2, <1>3, <1>4, <1>5, <1>6, <1>7 DEF StoreInv, Keeps

\* A new version awaits its review: nothing older counts for it.
LEMMA ToReviewKeeps ==
  ASSUME NEW r \in WorkOrder, NEW n \in WorkOrder, StoreInv(r), r.status = "working",
         r.stage = "strategy", n.status = r.status, n.stage = "review_implementation",
         n.error = r.error, SameOwner(r, n), SameBudget(r, n),
         n.made = r.made + 1,
         n.manifests \in {r.manifests, r.manifests \cup {r.made + 1}},
         n.version \in {r.version, 0} \cup n.manifests,
         r.version # 0 => n.version = r.version,
         n.version = 0 /\ Recordable(n) => n.manifests = {},
         n.results.strategy = r.made + 1, n.results.dataset = r.results.dataset,
         n.results.review_implementation = r.results.review_implementation,
         n.results.backtest = r.results.backtest,
         n.results.review_backtest = r.results.review_backtest,
         n.results.optimization = r.results.optimization
  PROVE  Keeps(r, n)
<1>1. r.agent = "strategy" /\ r.made \in Nat /\ r.version \in Int
  BY OrderTypes DEF StoreInv, ShapeInv
<1>2. ShapeInv(n)
  BY <1>1, StatusSets
     DEF ShapeInv, SameOwner, ExecutableStatuses, ExecutableStages, ResearchStages
<1>3. EvidenceInv(n)
  BY <1>1, StatusSets DEF StoreInv, EvidenceInv, Presented, ResearchStages
<1>4. VersionInv(n)
  <2>1. n.manifests \subseteq 1..n.made /\ n.version \in {Adopted, 0} \cup n.manifests
    BY <1>1 DEF StoreInv, VersionInv
  <2>2. Researched(n) => n.version \in n.manifests
    <3>1. Researched(n) => Researched(r)
      BY StatusSets DEF StoreInv, ShapeInv, Researched, ResearchStages
    <3>2. r.version \in r.manifests => r.version # 0 /\ r.version \in n.manifests
      BY <1>1 DEF StoreInv, VersionInv
    <3>. QED
      BY <3>1, <3>2 DEF StoreInv, VersionInv
  <2>. QED
    BY <2>1, <2>2, StatusSets DEF VersionInv, Presented, PassMisread
<1>5. BudgetInv(n)
  BY DEF StoreInv, BudgetInv, SameOwner, SameBudget
<1>6. GateInv(r) => GateInv(n)
  BY StatusSets
     DEF GateInv, GrantInv, ProposalInv, ShownInv, SameOwner, PastApproval,
     ResearchStages, FailedReviewShown, GateReview, OptimizationRequired, Acceptable,
     FirstLinePasses
<1>7. ReviewedInv(r) => ReviewedInv(n)
  BY StatusSets DEF ReviewedInv, Presented, ResearchStages
<1>. QED
  BY <1>2, <1>3, <1>4, <1>5, <1>6, <1>7 DEF StoreInv, Keeps

\* New evidence awaits its review.
LEMMA ToBacktestReviewKeeps ==
  ASSUME NEW r \in WorkOrder, NEW n \in WorkOrder, StoreInv(r), r.status = "working",
         r.stage = "backtest", n.status = r.status, n.stage = "review_backtest",
         n.error = r.error,
         SameOwner(r, n), SameGrants(r, n), SameBudget(r, n), SameVersion(r, n),
         n.results.strategy = r.results.strategy,
         n.results.review_implementation = r.results.review_implementation,
         n.results.backtest # NoEvidence, n.results.backtest.of = r.results.strategy,
         n.results.review_backtest = r.results.review_backtest,
         n.results.optimization = r.results.optimization
  PROVE  Keeps(r, n)
<1>1. r.agent = "strategy" /\ r.backtestRequired
  BY OrderTypes DEF StoreInv, ShapeInv, ResearchStages
<1>2. ShapeInv(n)
  BY <1>1, StatusSets
     DEF ShapeInv, SameOwner, ExecutableStatuses, ExecutableStages, ResearchStages
<1>3. EvidenceInv(n)
  BY StatusSets DEF StoreInv, EvidenceInv, Presented, ResearchStages
<1>4. VersionInv(n)
  BY StatusSets
     DEF StoreInv, VersionInv, SameVersion, Presented, PassMisread, ResearchStages,
     Researched, Identified, Recordable, FirstLinePasses
<1>5. BudgetInv(n)
  BY DEF StoreInv, BudgetInv, SameOwner, SameBudget
<1>6. GateInv(r) => GateInv(n)
  BY StatusSets
     DEF GateInv, GrantInv, ProposalInv, ShownInv, SameOwner, SameGrants, PastApproval,
     ResearchStages, FailedReviewShown, GateReview, OptimizationRequired, Acceptable,
     FirstLinePasses
<1>7. ReviewedInv(r) => ReviewedInv(n)
  BY StatusSets DEF ReviewedInv, Presented, ResearchStages
<1>. QED
  BY <1>2, <1>3, <1>4, <1>5, <1>6, <1>7 DEF StoreInv, Keeps

\* Evidence that has passed, or that recovery takes for passed, awaits its
\* proposal.
LEMMA ToOptimizeKeeps ==
  ASSUME NEW r \in WorkOrder, NEW n \in WorkOrder, StoreInv(r),
         r.status \in {"working", "queued"}, r.stage \in {"backtest", "review_backtest"},
         n.status = r.status, n.stage = "optimize", n.error = r.error,
         SameOwner(r, n), SameGrants(r, n), SameBudget(r, n), SameVersion(r, n),
         n.results.strategy = r.results.strategy,
         n.results.review_implementation = r.results.review_implementation,
         n.results.backtest # NoEvidence,
         \/ n.results.review_backtest.verdict = "native"
         \/ /\ r.stage = "review_backtest" /\ n.results.backtest = r.results.backtest
            /\ n.results.review_backtest = [of |-> r.results.backtest.run, verdict |-> "pass"]
  PROVE  /\ StoreInv(n) /\ (GateInv(r) => GateInv(n))
         /\ ReviewedInv(r) /\ n.results.review_backtest.verdict = "pass" => ReviewedInv(n)
<1>1. r.agent = "strategy" /\ r.backtestRequired
  BY OrderTypes DEF StoreInv, ShapeInv, ResearchStages
<1>2. ShapeInv(n)
  BY <1>1, StatusSets
     DEF ShapeInv, SameOwner, ExecutableStatuses, ExecutableStages, ResearchStages
<1>3. EvidenceInv(n)
  BY StatusSets DEF StoreInv, EvidenceInv, Presented, ResearchStages
<1>4. VersionInv(n)
  BY StatusSets
     DEF StoreInv, VersionInv, SameVersion, Presented, PassMisread, ResearchStages,
     Researched, Identified, Recordable, FirstLinePasses
<1>5. BudgetInv(n)
  BY DEF StoreInv, BudgetInv, SameOwner, SameBudget
<1>6. GateInv(r) => GateInv(n)
  BY StatusSets
     DEF GateInv, GrantInv, ProposalInv, ShownInv, SameOwner, SameGrants, PastApproval,
     ResearchStages, FailedReviewShown, GateReview, OptimizationRequired, Acceptable,
     FirstLinePasses
<1>7. ReviewedInv(r) /\ n.results.review_backtest.verdict = "pass" => ReviewedInv(n)
  BY StatusSets DEF ReviewedInv, Presented, ResearchStages
<1>. QED
  BY <1>2, <1>3, <1>4, <1>5, <1>6, <1>7 DEF StoreInv

\* A proposal, complete or not.
LEMMA ProposalKeeps ==
  ASSUME NEW r \in WorkOrder, NEW n \in WorkOrder, StoreInv(r), r.status = "working",
         r.stage = "optimize", n.status = r.status, n.stage = r.stage, n.error = r.error,
         SameOwner(r, n), SameGrants(r, n), SameBudget(r, n), SameVersion(r, n),
         n.results.strategy = r.results.strategy,
         n.results.review_implementation = r.results.review_implementation,
         n.results.backtest = r.results.backtest,
         n.results.review_backtest = r.results.review_backtest
  PROVE  Keeps(r, n)
<1>1. r.agent = "strategy" /\ r.backtestRequired
  BY OrderTypes DEF StoreInv, ShapeInv, ResearchStages
<1>2. ShapeInv(n)
  BY <1>1, StatusSets
     DEF ShapeInv, SameOwner, ExecutableStatuses, ExecutableStages, ResearchStages
<1>3. EvidenceInv(n)
  BY StatusSets DEF StoreInv, EvidenceInv, Presented, ResearchStages
<1>4. VersionInv(n)
  BY StatusSets
     DEF StoreInv, VersionInv, SameVersion, Presented, PassMisread, ResearchStages,
     Researched, Identified, Recordable, FirstLinePasses
<1>5. BudgetInv(n)
  BY DEF StoreInv, BudgetInv, SameOwner, SameBudget
<1>6. GateInv(r) => GateInv(n)
  BY StatusSets
     DEF GateInv, GrantInv, ProposalInv, ShownInv, SameOwner, SameGrants, PastApproval,
     ResearchStages, FailedReviewShown, GateReview, OptimizationRequired, Acceptable,
     FirstLinePasses
<1>7. ReviewedInv(r) => ReviewedInv(n)
  BY StatusSets DEF ReviewedInv, Presented, ResearchStages
<1>. QED
  BY <1>2, <1>3, <1>4, <1>5, <1>6, <1>7 DEF StoreInv, Keeps

-----------------------------------------------------------------------------
(* The recovery pass                                                       *)

\* An order that timed out at its limit is well below it without its timeouts.
LEMMA RecoverOptimizerKeeps ==
  ASSUME NEW r \in WorkOrder, StoreInv(r), OptimizerRegressed(r)
  PROVE  StoreInv(RecoverOptimizer(r))
<1>. DEFINE n == RecoverOptimizer(r)
<1>1. /\ n \in WorkOrder /\ n.status = "queued" /\ n.stage = "optimize" /\ n.error = "none"
      /\ n.attempts = IF r.attempts > r.issues[StrategyTimeout]
                      THEN r.attempts - r.issues[StrategyTimeout] ELSE 0
      /\ n.issues = [r.issues EXCEPT ![StrategyTimeout] = 0]
      /\ SameOwner(r, n) /\ SameVersion(r, n) /\ n.results = r.results
  BY RecoverOptimizerFields
<1>. HIDE DEF n
<1>2. /\ r.status = "dead_letter" /\ r.agent = "strategy" /\ r.stage = "strategy"
      /\ r.backtestRequired /\ r.results.review_backtest.verdict = "pass"
      /\ r.error = "timeout"
  BY DEF OptimizerRegressed, OptimizationRequired
<1>3. ShapeInv(n)
  BY <1>1, <1>2, StatusSets
     DEF ShapeInv, SameOwner, ExecutableStatuses, ExecutableStages, ResearchStages
<1>4. EvidenceInv(n) /\ VersionInv(n)
  BY <1>1, <1>2, StatusSets
     DEF StoreInv, EvidenceInv, VersionInv, SameVersion, Presented, PassMisread,
     ResearchStages, Researched, Identified, Recordable, FirstLinePasses
<1>5. BudgetInv(n)
  <2>. SUFFICES ASSUME ~n.inherited PROVE BudgetInv(n)
    BY DEF BudgetInv
  <2>1. /\ r.attempts <= MaxAttempts /\ r.issues[StrategyTimeout] > 0
        /\ \A key \in IssueKeys : key # StrategyTimeout => r.issues[key] <= SameIssueLimit
    BY <1>1, <1>2 DEF StoreInv, BudgetInv, SameOwner, StrategyTimeout
  <2>2. StrategyTimeout \in IssueKeys
    BY DEF StrategyTimeout, IssueKeys, ExecutableStages
  <2>3. r.attempts \in Nat /\ r.issues \in [IssueKeys -> Nat] /\ r.issues[StrategyTimeout] \in Nat
    BY <2>2, OrderTypes
  <2>4. n.attempts < MaxAttempts /\ n.attempts \in Nat
    BY <1>1, <2>1, <2>3, BoundsAssumption
  <2>5. \A key \in IssueKeys : n.issues[key] <= SameIssueLimit /\ n.issues[key] \in Nat
    BY <1>1, <2>1, <2>2, <2>3, BoundsAssumption
  <2>6. ~Exhausted(n.attempts, n.issues, IssueKeys)
    BY <2>4, <2>5, BoundsAssumption DEF Exhausted
  <2>. QED
    BY <1>1, <2>4, <2>6, BoundsAssumption DEF BudgetInv
<1>. QED
  BY <1>3, <1>4, <1>5 DEF n, StoreInv

\* Only an order of an older Gateway is taken back from the dead letters.
LEMMA RecoverPassedKeeps ==
  ASSUME NEW r \in WorkOrder, StoreInv(r), PassMisread(r)
  PROVE  LET n == RecoverPassed(r) IN
         StoreInv(n) /\ (GateInv(r) => GateInv(n)) /\ ~ReviewedInv(r)
<1>. DEFINE n == RecoverPassed(r)
<1>1. /\ n \in WorkOrder /\ n.status = "awaiting_implementation_approval"
      /\ n.stage = "approval" /\ n.error = "none" /\ SameWork(r, n)
  BY RecoverPassedFields
<1>. HIDE DEF n
<1>2. /\ r.status = "dead_letter" /\ r.error = "misread" /\ r.stage \in ExecutableStages
      /\ FirstLinePasses(r.results.review_implementation.verdict) /\ r.inherited
      /\ r.results.strategy # 0 /\ r.agent = "strategy"
  BY OrderTypes
     DEF PassMisread, StoreInv, ShapeInv, EvidenceInv, BudgetInv, ExecutableStatuses,
     NoResults, FirstLinePasses
<1>3. ShapeInv(n)
  BY <1>1, <1>2, StatusSets
     DEF ShapeInv, SameWork, SameOwner, ExecutableStatuses, ExecutableStages,
     ResearchStages
<1>4. EvidenceInv(n)
  BY <1>1, <1>2, StatusSets
     DEF StoreInv, EvidenceInv, SameWork, Presented, ResearchStages
<1>5. VersionInv(n)
  BY <1>1, <1>2, StatusSets
     DEF StoreInv, VersionInv, PassMisread, SameWork, SameVersion, Presented,
     ResearchStages, Researched, Identified, Recordable
<1>6. BudgetInv(n)
  BY <1>1, <1>2 DEF StoreInv, BudgetInv, SameWork, SameOwner, SameBudget
<1>7. GateInv(r) => GateInv(n)
  <2>1. GrantInv(n)
    BY <1>1 DEF GrantInv, PastApproval, ResearchStages
  <2>2. r.stage # "optimize" /\ r.stage # "cancelled" /\ ProposalInv(r) => ProposalInv(n)
    BY <1>1 DEF ProposalInv, OptimizationRequired, SameWork, SameOwner
  <2>3. GateInv(r) => r.stage # "optimize"
    BY <1>2
       DEF GateInv, GrantInv, PastApproval, ResearchStages, PassMisread, FirstLinePasses
  <2>4. r.stage # "cancelled"
    BY <1>2 DEF ExecutableStages, ResearchStages
  <2>5. ShownInv(r) => ShownInv(n)
    BY <1>1, <1>2, StatusSets
       DEF ShownInv, PastApproval, ResearchStages, FailedReviewShown, GateReview,
       SameWork, SameOwner, Acceptable, FirstLinePasses
  <2>. QED
    BY <2>1, <2>2, <2>3, <2>4, <2>5 DEF GateInv
<1>. QED
  BY <1>2, <1>3, <1>4, <1>5, <1>6, <1>7 DEF n, StoreInv, ReviewedInv

LEMMA RecoverFailedFields ==
  ASSUME NEW r \in WorkOrder, StoreInv(r), FailedReviewShown(r), NEW ask \in BOOLEAN
  PROVE  LET n == RecoverFailed(r, ask) IN
         /\ n \in WorkOrder /\ Keeps(r, n) /\ ~FailedReviewShown(n) /\ n.error = "other"
         /\ n.status \in {"dead_letter", "awaiting_user_input", "queued"}
         /\ ~ask => n.status # "awaiting_user_input"
         /\ SameOwner(r, n)
<1>. DEFINE review == GateReview(r)
            issues == IF r.results[review].verdict = "fail" THEN Findings ELSE {"legacy"}
            keys == {review} \X issues
            stage == ReturnStage(review)
            late == FALSE
            error == "other"
            n == Requeued(r, stage, keys, error, late, ask)
<1>1. RecoverFailed(r, ask) = n
  BY DEF RecoverFailed
<1>2. \/ /\ r.status = "awaiting_implementation_approval"
         /\ review = "review_implementation" /\ stage = "strategy"
      \/ /\ r.status = "awaiting_backtest_approval"
         /\ review = "review_backtest" /\ stage = "backtest"
  BY StatusSets DEF FailedReviewShown, GateReview, ReturnStage, FirstLinePasses
<1>3. keys \in SUBSET IssueKeys
  <2>1. review \in ExecutableStages
    BY <1>2 DEF ExecutableStages, ResearchStages
  <2>2. issues \subseteq {"timeout", "incomplete", "acquisition", "legacy"} \cup Findings
    OBVIOUS
  <2>. HIDE DEF review, issues
  <2>. QED
    BY <2>1, <2>2 DEF IssueKeys
<1>4. stage \in ExecutableStages
  BY <1>2 DEF ExecutableStages, ResearchStages
<1>a. late \in BOOLEAN /\ error \in {"timeout", "other"} /\ error # "timeout"
  OBVIOUS
<1>. HIDE DEF review, issues, keys, stage, late, error
<1>5. r.agent = "strategy" /\ r.stage = "approval"
  BY <1>2, StatusSets, OrderTypes DEF StoreInv, ShapeInv
<1>6. /\ n \in WorkOrder /\ n.stage = stage /\ n.error = error /\ Counted(r, n, keys)
  BY <1>3, <1>4, <1>a, RequeuedFields DEF CountedAt
<1>b. ~ask => n.status # "awaiting_user_input"
  BY RequeuedAsks
<1>7. Keeps(r, n)
  <2>1. \/ stage = "strategy"
        \/ /\ stage = "backtest" /\ r.version \in r.manifests
           /\ PastApproval(r) /\ r.backtestRequired
    BY <1>2 DEF StoreInv, ShapeInv, VersionInv, PastApproval, Researched
  <2>2. r.status \in {"working"} \cup GateStatuses
    BY <1>2, StatusSets
  <2>. QED
    BY <1>3, <1>4, <1>5, <1>a, <2>1, <2>2, RequeuedKeeps
<1>. HIDE DEF n
<1>8. ~FailedReviewShown(n)
  BY <1>6, StatusSets DEF FailedReviewShown, GateReview, Counted, FirstLinePasses
<1>. QED
  BY <1>1, <1>6, <1>7, <1>8, <1>b DEF error, Counted

\* An order that was interrupted at its backtest goes on with the report.
LEMMA RecoverBacktestKeeps ==
  ASSUME NEW r \in WorkOrder, StoreInv(r)
  PROVE  LET n == RecoverBacktest(r) IN
         /\ n \in WorkOrder /\ Keeps(r, n)
         /\ ~BacktestLeftBehind(r) => n = r
         /\ BacktestLeftBehind(r) =>
              \/ n.status = "queued" /\ n.stage = "optimize"
              \/ n.status = "awaiting_backtest_approval" /\ n.stage = "approval"
         /\ ~FailedReviewShown(r) => ~FailedReviewShown(n)
         /\ SameOwner(r, n)
<1>. DEFINE n == RecoverBacktest(r)
<1>1. CASE ~BacktestLeftBehind(r)
  BY <1>1 DEF RecoverBacktest, Keeps, SameOwner
<1>2. CASE BacktestLeftBehind(r)
  <2>. DEFINE e == NativeEvidence(r)
  <2>1. n = IF OptimizationRequired(r) THEN Checkpoint(e, "optimize")
            ELSE Recorded(Finished(e, "awaiting_backtest_approval", "approval"))
    BY <1>2 DEF RecoverBacktest, NativeEvidence
  <2>2. /\ e \in WorkOrder /\ e.status = r.status /\ e.stage = r.stage /\ e.error = r.error
        /\ SameOwner(r, e) /\ SameGrants(r, e) /\ SameBudget(r, e) /\ SameVersion(r, e)
        /\ e.results.strategy = r.results.strategy
        /\ e.results.review_implementation = r.results.review_implementation
        /\ e.results.backtest = r.report /\ e.results.review_backtest.verdict = "native"
    BY NativeFields
  <2>3. /\ r.agent = "strategy" /\ r.status = "queued" /\ r.stage = "backtest"
        /\ r.backtestRequired /\ r.results.strategy # 0 /\ r.error = "quota"
        /\ r.report # NoEvidence
    BY <1>2 DEF BacktestLeftBehind
  <2>. HIDE DEF e, n
  <2>4. CASE OptimizationRequired(r)
    <3>1. /\ n \in WorkOrder /\ n.status = e.status /\ n.stage = "optimize"
          /\ n.error = e.error /\ SameWork(e, n)
      <4>1. "optimize" \in Stages
        BY DEF Stages, ExecutableStages, ResearchStages
      <4>. QED
        BY <2>1, <2>2, <2>4, <4>1, CheckpointFields
    <3>2. /\ n.status = "queued" /\ n.stage = "optimize" /\ n.error = r.error
          /\ SameOwner(r, n) /\ SameGrants(r, n) /\ SameBudget(r, n) /\ SameVersion(r, n)
          /\ n.results.strategy = r.results.strategy
          /\ n.results.review_implementation = r.results.review_implementation
          /\ n.results.backtest # NoEvidence /\ n.results.review_backtest.verdict = "native"
      <4>1. n.results = e.results
        BY <3>1 DEF SameWork
      <4>2. n.status = "queued" /\ n.stage = "optimize" /\ n.error = r.error
        BY <2>2, <2>3, <3>1
      <4>3. SameOwner(r, n) /\ SameGrants(r, n)
        BY <2>2, <3>1 DEF SameWork, SameOwner, SameGrants
      <4>4. SameBudget(r, n) /\ SameVersion(r, n)
        BY <2>2, <3>1 DEF SameWork, SameBudget, SameVersion
      <4>. QED
        BY <2>2, <2>3, <4>1, <4>2, <4>3, <4>4
    <3>3. StoreInv(n) /\ (GateInv(r) => GateInv(n))
      BY <2>3, <3>1, <3>2, ToOptimizeKeeps
    <3>4. ~ReviewedInv(r) /\ ~FailedReviewShown(n)
      BY <2>3, <3>2, StatusSets
         DEF ReviewedInv, FailedReviewShown, GateReview, FirstLinePasses
    <3>. QED
      BY <1>2, <3>1, <3>2, <3>3, <3>4 DEF n, Keeps
  <2>5. CASE ~OptimizationRequired(r)
    <3>1. "awaiting_backtest_approval" \in Statuses /\ "approval" \in Stages
      BY StatusSets DEF Statuses, Stages
    <3>2. /\ Recordable(e) /\ Identified(e) /\ e.version = r.version
          /\ r.version \in r.manifests /\ r.version # 0
      BY <2>2, <2>3, OrderTypes
         DEF StoreInv, VersionInv, ResearchStages, SameVersion, Recordable, Researched,
         Identified
    <3>3. /\ n \in WorkOrder /\ n.status = "awaiting_backtest_approval"
          /\ n.stage = "approval" /\ n.error = "none"
          /\ SameOwner(e, n) /\ SameGrants(e, n) /\ SameBudget(e, n)
          /\ n.results = e.results /\ n.version = e.version /\ n.made = e.made
          /\ n.manifests = e.manifests
          /\ n.recorded = e.version
      BY <2>1, <2>2, <2>5, <3>1, <3>2, FinishFields
    <3>4. /\ SameOwner(r, n) /\ SameGrants(r, n) /\ SameBudget(r, n)
          /\ n.results.strategy = r.results.strategy
          /\ n.results.review_implementation = r.results.review_implementation
          /\ n.results.backtest = r.report /\ n.results.review_backtest.verdict = "native"
          /\ n.version = r.version /\ n.made = r.made /\ n.recorded = r.version
          /\ n.manifests = r.manifests
      BY <2>2, <3>3 DEF SameOwner, SameGrants, SameBudget, SameVersion
    <3>5. ShapeInv(n)
      BY <2>3, <3>3, <3>4, StatusSets
         DEF ShapeInv, SameOwner, ExecutableStatuses, ExecutableStages, ResearchStages
    <3>6. EvidenceInv(n) /\ VersionInv(n)
      BY <2>3, <3>2, <3>3, <3>4, StatusSets
         DEF StoreInv, EvidenceInv, VersionInv, Presented, PassMisread, ResearchStages,
         Researched, Identified, Recordable, FirstLinePasses
    <3>7. BudgetInv(n)
      BY <2>3, <3>3, <3>4 DEF StoreInv, BudgetInv, SameOwner, SameBudget
    <3>8. GateInv(r) => GateInv(n)
      BY <2>3, <2>5, <3>3, <3>4, StatusSets
         DEF GateInv, GrantInv, ProposalInv, ShownInv, SameOwner, SameGrants,
         PastApproval, ResearchStages, FailedReviewShown, GateReview,
         OptimizationRequired, Acceptable, FirstLinePasses
    <3>9. ~ReviewedInv(r) /\ ~FailedReviewShown(n)
      BY <2>3, <3>3, <3>4, StatusSets
         DEF ReviewedInv, FailedReviewShown, GateReview, FirstLinePasses
    <3>. QED
      BY <1>2, <3>3, <3>4, <3>5, <3>6, <3>7, <3>8, <3>9 DEF n, Keeps, StoreInv
  <2>. QED
    BY <2>4, <2>5
<1>. QED
  BY <1>1, <1>2

LEMMA FailedShown ==
  ASSUME NEW r \in WorkOrder
  PROVE  FailedReviewShown(r) <=>
           \/ /\ r.status = "awaiting_implementation_approval"
              /\ r.results.review_implementation.verdict \in {"fail", "incomplete"}
           \/ /\ r.status = "awaiting_backtest_approval"
              /\ r.results.review_backtest.verdict \in {"fail", "incomplete"}
<1>. DEFINE implementation == r.results.review_implementation.verdict
            backtest == r.results.review_backtest.verdict
<1>0. implementation \in Verdicts /\ backtest \in Verdicts
  BY OrderTypes, ResultTypes
<1>. HIDE DEF implementation, backtest
<1>1. CASE r.status = "awaiting_implementation_approval"
  BY <1>0, <1>1, StatusSets
     DEF implementation, backtest, Verdicts, FailedReviewShown, GateReview,
     FirstLinePasses
<1>2. CASE r.status = "awaiting_backtest_approval"
  BY <1>0, <1>2, StatusSets
     DEF implementation, backtest, Verdicts, FailedReviewShown, GateReview,
     FirstLinePasses
<1>3. CASE r.status \notin {"awaiting_implementation_approval", "awaiting_backtest_approval"}
  BY <1>3, StatusSets DEF FailedReviewShown, GateReview, FirstLinePasses
<1>. QED
  BY <1>1, <1>2, <1>3

\* The passes up to the Codex work: each order meets at most one of them.
RepairedAs(r, q, ask) ==
  /\ q \in WorkOrder /\ Keeps(r, q) /\ SameOwner(r, q)
  /\ q.status # "working" /\ ~FailedReviewShown(q)
  /\ Revived(r) => q.status \notin {"dead_letter", "awaiting_user_input"}
  /\ FailedReviewShown(r) => q.status \in {"dead_letter", "awaiting_user_input", "queued"}
  /\ ~ask => (q.status = "awaiting_user_input" => r.status = "awaiting_user_input")
  /\ ~Revived(r) /\ ~FailedReviewShown(r) =>
       /\ q.status = IF r.status = "working" THEN "queued" ELSE r.status
       /\ q.stage = r.stage

LEMMA RepairedKeeps ==
  ASSUME NEW r \in WorkOrder, StoreInv(r), NEW ask \in BOOLEAN
  PROVE  RepairedAs(r, Repaired(r, ask), ask)
<1>1. CASE r.status = "working"
  <2>. DEFINE q == RecoverInterrupted(r)
  <2>1. /\ q \in WorkOrder /\ q.stage = r.stage /\ q.error = r.error /\ SameWork(r, q)
        /\ q.status = "queued"
    BY <1>1, RecoverInterruptedFields DEF StoreInv
  <2>. HIDE DEF q
  <2>2. ~OptimizerRegressed(q) /\ ~PassMisread(q) /\ ~FailedReviewShown(q)
    BY <2>1, FailedShown DEF OptimizerRegressed, PassMisread, FirstLinePasses
  <2>3. Repaired(r, ask) = q
    BY <2>2 DEF q, Repaired, RecoverOptimizer, RecoverPassed, RecoverFailed
  <2>4. StoreInv(q) /\ (GateInv(r) => GateInv(q)) /\ (ReviewedInv(r) => ReviewedInv(q))
    <3>1. /\ StoreInv(q) /\ (GateInv(r) => GateInv(q))
          /\ ReviewedInv(r) /\ q.error # "quota" => ReviewedInv(q)
      BY <1>1, <2>1, SameWorkKeeps
    <3>2. ReviewedInv(r) => q.error # "quota"
      BY <2>1 DEF ReviewedInv
    <3>. QED
      BY <3>1, <3>2
  <2>5. ~Revived(r) /\ ~FailedReviewShown(r)
    BY <1>1, FailedShown DEF Revived, OptimizerRegressed, PassMisread, FirstLinePasses
  <2>. QED
    BY <1>1, <2>1, <2>2, <2>3, <2>4, <2>5 DEF RepairedAs, Keeps, SameWork
<1>2. CASE r.status # "working"
  <2>0. RecoverInterrupted(r) = r
    BY <1>2 DEF RecoverInterrupted
  <2>1. CASE OptimizerRegressed(r)
    <3>. DEFINE q == RecoverOptimizer(r)
    <3>1. q \in WorkOrder /\ q.status = "queued" /\ SameOwner(r, q)
      BY <2>1, RecoverOptimizerFields
    <3>2. StoreInv(q)
      BY <2>1, RecoverOptimizerKeeps
    <3>. HIDE DEF q
    <3>3. ~PassMisread(q) /\ ~FailedReviewShown(q)
      BY <3>1, FailedShown DEF PassMisread, FirstLinePasses
    <3>4. Repaired(r, ask) = q
      BY <2>0, <3>3 DEF q, Repaired, RecoverPassed, RecoverFailed
    <3>5. ~GateInv(r)
      BY <2>1 DEF GateInv, ProposalInv, OptimizerRegressed
    <3>6. Revived(r) /\ ~FailedReviewShown(r)
      BY <2>1, FailedShown DEF Revived, OptimizerRegressed
    <3>. QED
      BY <3>1, <3>2, <3>3, <3>4, <3>5, <3>6 DEF RepairedAs, Keeps
  <2>2. CASE ~OptimizerRegressed(r) /\ PassMisread(r)
    <3>. DEFINE q == RecoverPassed(r)
    <3>1. /\ q \in WorkOrder /\ q.status = "awaiting_implementation_approval"
          /\ SameWork(r, q)
      BY <2>2, RecoverPassedFields
    <3>2. StoreInv(q) /\ (GateInv(r) => GateInv(q)) /\ ~ReviewedInv(r)
      BY <2>2, RecoverPassedKeeps
    <3>. HIDE DEF q
    <3>3. ~FailedReviewShown(q)
      BY <2>2, <3>1, FailedShown DEF PassMisread, SameWork, FirstLinePasses
    <3>4. Repaired(r, ask) = q
      BY <2>0, <2>2, <3>3 DEF q, Repaired, RecoverOptimizer, RecoverFailed
    <3>5. Revived(r) /\ ~FailedReviewShown(r)
      BY <2>2, FailedShown DEF Revived, PassMisread, FirstLinePasses
    <3>. QED
      BY <3>1, <3>2, <3>3, <3>4, <3>5 DEF RepairedAs, Keeps, SameWork
  <2>3. CASE ~OptimizerRegressed(r) /\ ~PassMisread(r) /\ FailedReviewShown(r)
    <3>. DEFINE q == RecoverFailed(r, ask)
    <3>1. /\ q \in WorkOrder /\ Keeps(r, q) /\ ~FailedReviewShown(q)
          /\ q.status \in {"dead_letter", "awaiting_user_input", "queued"}
          /\ ~ask => q.status # "awaiting_user_input"
          /\ SameOwner(r, q)
      BY <2>3, RecoverFailedFields
    <3>. HIDE DEF q
    <3>2. Repaired(r, ask) = q
      BY <2>0, <2>3 DEF q, Repaired, RecoverOptimizer, RecoverPassed
    <3>3. ~Revived(r)
      BY <2>3 DEF Revived
    <3>. QED
      BY <2>3, <3>1, <3>2, <3>3 DEF RepairedAs
  <2>4. CASE ~OptimizerRegressed(r) /\ ~PassMisread(r) /\ ~FailedReviewShown(r)
    <3>1. Repaired(r, ask) = r
      BY <2>0, <2>4 DEF Repaired, RecoverOptimizer, RecoverPassed, RecoverFailed
    <3>2. Keeps(r, r) /\ SameOwner(r, r) /\ ~Revived(r)
      BY <2>4 DEF Keeps, SameOwner, Revived
    <3>. QED
      BY <1>2, <2>4, <3>1, <3>2 DEF RepairedAs
  <2>. QED
    BY <2>1, <2>2, <2>3, <2>4
<1>. QED
  BY <1>1, <1>2

\* The passes after it.
RecoveredAs(q, n) ==
  /\ n \in WorkOrder /\ Keeps(q, n) /\ SameOwner(q, n)
  /\ q.status # "working" => n.status # "working"
  /\ ~FailedReviewShown(q) => ~FailedReviewShown(n)
  /\ n.status = "dead_letter" <=> q.status = "dead_letter"
  /\ n.status = "awaiting_user_input" <=> q.status = "awaiting_user_input"
  /\ \/ n.status = q.status /\ n.stage = q.stage
     \/ /\ q.status = "queued" /\ q.stage = "backtest" /\ q.backtestRequired
        /\ \/ n.status = "queued" /\ n.stage = "optimize"
           \/ n.status = "awaiting_backtest_approval"

LEMMA RecoveredKeeps ==
  ASSUME NEW q \in WorkOrder, StoreInv(q)
  PROVE  RecoveredAs(q, ClearRetry(RecoverBacktest(q)))
<1>. DEFINE m == RecoverBacktest(q)
            late == m.delayed /\ m.status \in {"queued", "working"}
            n == [m EXCEPT !.delayed = late]
<1>1. /\ m \in WorkOrder /\ Keeps(q, m) /\ SameOwner(q, m)
      /\ ~BacktestLeftBehind(q) => m = q
      /\ BacktestLeftBehind(q) =>
           \/ m.status = "queued" /\ m.stage = "optimize"
           \/ m.status = "awaiting_backtest_approval" /\ m.stage = "approval"
      /\ ~FailedReviewShown(q) => ~FailedReviewShown(m)
  BY RecoverBacktestKeeps
<1>. HIDE DEF m
<1>2. ClearRetry(m) = n
  BY <1>1 DEF ClearRetry, WorkOrder
<1>3. late \in BOOLEAN
  BY <1>1, OrderTypes
<1>. HIDE DEF late
<1>4. /\ n \in WorkOrder /\ n.status = m.status /\ n.stage = m.stage /\ n.error = m.error
      /\ SameWork(m, n)
  BY <1>1, <1>3, DelayFields
<1>. HIDE DEF n
<1>5. Keeps(m, n)
  <2>1. StoreInv(m)
    BY <1>1 DEF Keeps
  <2>2. /\ StoreInv(n) /\ (GateInv(m) => GateInv(n))
        /\ ReviewedInv(m) /\ n.error # "quota" => ReviewedInv(n)
    BY <1>1, <1>4, <2>1, SameWorkKeeps
  <2>3. ReviewedInv(m) => n.error # "quota"
    BY <1>4 DEF ReviewedInv
  <2>. QED
    BY <2>2, <2>3 DEF Keeps
<1>6. FailedReviewShown(n) <=> FailedReviewShown(m)
  BY <1>1, <1>4, FailedShown DEF SameWork
<1>7. Keeps(q, n)
  BY <1>1, <1>5 DEF Keeps
<1>8. SameOwner(q, n)
  BY <1>1, <1>4 DEF SameWork, SameOwner
<1>9. BacktestLeftBehind(q) =>
        q.status = "queued" /\ q.stage = "backtest" /\ q.backtestRequired
  BY DEF BacktestLeftBehind
<1>. QED
  <2>1. RecoveredAs(q, n)
    BY <1>1, <1>4, <1>6, <1>7, <1>8, <1>9 DEF RecoveredAs
  <2>. QED
    BY <1>2, <2>1 DEF m

-----------------------------------------------------------------------------
(* Steps of a record                                                       *)

\* A record the user may be shown.
Sound(r) == GateInv(r) /\ ~FailedReviewShown(r)

\* The moves of the release contract.
Moved(r, n) ==
  \/ Phase(n) = Phase(r) /\ (Phase(r) # "absent" => n.backtestRequired = r.backtestRequired)
  \/ Phase(r) = "absent" /\ Phase(n) = "building"
  \/ /\ n.backtestRequired = r.backtestRequired
     /\ \/ /\ Phase(r) = "building"
           /\ Phase(n) \in {"implementation_gate", "failed", "cancelled"}
        \/ Phase(r) = "failed" /\ Phase(n) = "building"
        \/ Phase(r) = "implementation_gate" /\ Phase(n) = "building"
        \/ /\ Phase(r) = "implementation_gate" /\ r.backtestRequired
           /\ Phase(n) = "researching"
        \/ /\ Phase(r) = "implementation_gate" /\ ~r.backtestRequired
           /\ Phase(n) = "live_gate"
        \/ /\ Phase(r) = "researching" /\ r.backtestRequired
           /\ Phase(n) \in {"backtest_gate", "building", "failed", "cancelled",
                            "research_failed"}
        \/ /\ Phase(r) = "research_failed" /\ r.backtestRequired
           /\ Phase(n) \in {"researching", "building"}
        \/ /\ Phase(r) = "backtest_gate" /\ r.backtestRequired
           /\ Phase(n) \in {"researching", "live_gate"}
        \/ Phase(r) = "live_gate" /\ Phase(n) \in {"released", "implementation_gate"}

\* What every step of a running Gateway does to a record.
Kept(r, n) ==
  /\ n \in WorkOrder /\ StoreInv(n)
  /\ SameOwner(r, n) \/ (r.status = "absent" /\ ~n.inherited)
  /\ NoOptimizerRetry /\ Sound(r) => Sound(n) /\ Moved(r, n)
  /\ NoOptimizerRetry /\ "quota" \notin Events /\ Sound(r) /\ ReviewedInv(r) => ReviewedInv(n)

LivePhase(r) == IF r.stage \in ResearchStages THEN "researching" ELSE "building"
DeadPhase(r) == IF r.stage \in ResearchStages THEN "research_failed" ELSE "failed"

LEMMA PhaseOf ==
  ASSUME NEW r
  PROVE  /\ r.inherited => Phase(r) = "absent"
         /\ ~r.inherited =>
              /\ r.status = "approved" => Phase(r) = "released"
              /\ r.status = "awaiting_implementation_approval" => Phase(r) = "implementation_gate"
              /\ r.status = "awaiting_backtest_approval" => Phase(r) = "backtest_gate"
              /\ r.status = "awaiting_live_approval" => Phase(r) = "live_gate"
              /\ r.status = "awaiting_optimization_approval" => Phase(r) = "researching"
              /\ r.status \in {"absent", "failed", "cancelled"} => Phase(r) = r.status
              /\ r.status = "dead_letter" => Phase(r) = DeadPhase(r)
              /\ r.status \in {"queued", "working", "awaiting_user_input"} =>
                   Phase(r) = LivePhase(r)
<1>1. r.inherited => Phase(r) = "absent"
  BY DEF Phase
<1>2. ~r.inherited /\ r.status = "approved" => Phase(r) = "released"
  BY DEF Phase
<1>3. ~r.inherited /\ r.status = "awaiting_implementation_approval" =>
        Phase(r) = "implementation_gate"
  BY DEF Phase
<1>4. ~r.inherited /\ r.status = "awaiting_backtest_approval" => Phase(r) = "backtest_gate"
  BY DEF Phase
<1>5. ~r.inherited /\ r.status = "awaiting_live_approval" => Phase(r) = "live_gate"
  BY DEF Phase
<1>6. ~r.inherited /\ r.status = "awaiting_optimization_approval" => Phase(r) = "researching"
  BY DEF Phase
<1>7. ~r.inherited /\ r.status \in {"absent", "failed", "cancelled"} => Phase(r) = r.status
  BY DEF Phase
<1>8. ~r.inherited /\ r.status = "dead_letter" => Phase(r) = DeadPhase(r)
  BY DEF Phase, DeadPhase
<1>9. ~r.inherited /\ r.status \in {"queued", "working", "awaiting_user_input"} =>
        Phase(r) = LivePhase(r)
  BY DEF Phase, LivePhase
<1>. QED
  BY <1>1, <1>2, <1>3, <1>4, <1>5, <1>6, <1>7, <1>8, <1>9

\* Work that waits or runs may go on, stop, or die at the research it was in.
LEMMA LiveMoved ==
  ASSUME NEW r \in WorkOrder, NEW n \in WorkOrder, StoreInv(r), SameOwner(r, n),
         r.status \in {"queued", "working", "awaiting_user_input"},
         n.status \in {"queued", "working", "awaiting_user_input", "dead_letter", "failed",
                       "cancelled"},
         n.stage \in ResearchStages => r.stage \in ResearchStages
  PROVE  Moved(r, n)
<1>1. n.backtestRequired = r.backtestRequired /\ (n.inherited <=> r.inherited)
      /\ (r.stage \in ResearchStages => r.backtestRequired)
  BY DEF SameOwner, StoreInv, ShapeInv
<1>2. CASE r.inherited
  BY <1>1, <1>2, PhaseOf DEF Moved
<1>3. CASE ~r.inherited
  <2>1. Phase(r) = IF r.stage \in ResearchStages THEN "researching" ELSE "building"
    BY <1>3, PhaseOf DEF LivePhase
  <2>2. \/ Phase(n) \in {"failed", "cancelled"}
        \/ Phase(n) = LivePhase(n) \/ Phase(n) = DeadPhase(n)
    BY <1>1, <1>3, PhaseOf
  <2>. QED
    BY <1>1, <2>1, <2>2 DEF Moved, LivePhase, DeadPhase
<1>. QED
  BY <1>2, <1>3

LEMMA SameKept ==
  ASSUME NEW r \in WorkOrder, StoreInv(r)
  PROVE  Kept(r, r)
<1>1. Moved(r, r) /\ SameOwner(r, r)
  BY DEF Moved, SameOwner
<1>. QED
  BY <1>1, Zenon DEF Kept

\* A step to a status at which no gate is open.
LEMMA KeptWhenOpen ==
  ASSUME NEW r \in WorkOrder, NEW n \in WorkOrder, Keeps(r, n), SameOwner(r, n),
         n.status \notin GateStatuses, Moved(r, n)
  PROVE  Kept(r, n)
<1>1. ~FailedReviewShown(n)
  BY FailedShown, StatusSets
<1>. QED
  BY <1>1, Zenon DEF Keeps, Kept, Sound

-----------------------------------------------------------------------------
(* The shapes of a step                                                    *)

SInv ==
  /\ TypeOK /\ OperatorQueuesAgree /\ OwnInv
  /\ \A o \in Orders : StoreInv(order[o])

\* No maintenance turn: its result is dropped and leaves the order "working".
OnlyStrategies ==
  /\ \A profile \in Profiles : profile[1] = "strategy"
  /\ \A r \in Legacy : r.agent = "strategy"

Preserved ==
  /\ TypeOK' /\ OperatorQueuesAgree' /\ OwnInv'
  /\ \A p \in Orders : Kept(order[p], order'[p])
  /\ OnlyStrategies /\ OwnedInv => OwnedInv'

LEMMA OrderFacts ==
  ASSUME SInv, NEW o \in Orders
  PROVE  /\ order[o] \in WorkOrder /\ StoreInv(order[o]) /\ o # 0 /\ o \in 0..MaxOrders
         /\ deadLetters[o] \in Nat
BY BoundsAssumption DEF SInv, TypeOK, Orders

LEMMA PutStep ==
  ASSUME NEW o \in Orders, NEW n, SInv, Put(o, n), Kept(order[o], n)
  PROVE  /\ order' \in [Orders -> WorkOrder] /\ order'[o] = n
         /\ \A p \in Orders : p # o => order'[p] = order[p]
         /\ \A p \in Orders : Kept(order[p], order'[p])
<1>1. order \in [Orders -> WorkOrder] /\ n \in WorkOrder
  BY DEF SInv, TypeOK, Kept
<1>2. order' = [order EXCEPT ![o] = n]
  BY DEF Put
<1>3. /\ order' \in [Orders -> WorkOrder] /\ order'[o] = n
      /\ \A p \in Orders : p # o => order'[p] = order[p]
  BY <1>1, <1>2
<1>4. \A p \in Orders : Kept(order[p], order[p])
  BY <1>1, SameKept DEF SInv
<1>. QED
  BY <1>3, <1>4

LEMMA HandOverStep ==
  ASSUME NEW o \in Orders, NEW n, SInv, HandOver(o, n), Kept(order[o], n), active = o,
         worker \in {"created", "dataset", "turn"}, order[o].status = "working",
         n.status = "working", SameOwner(order[o], n)
  PROVE  Preserved
<1>1. /\ order' \in [Orders -> WorkOrder] /\ order'[o] = n
      /\ \A p \in Orders : p # o => order'[p] = order[p]
      /\ \A p \in Orders : Kept(order[p], order'[p])
  BY PutStep DEF HandOver
<1>2. worker' = "turn" /\ UNCHANGED <<circuit, deadLetters, blocked, active, cancelRequested, faults>>
  BY DEF HandOver
<1>3. TypeOK'
  BY <1>1, <1>2 DEF SInv, TypeOK, WorkerStates, Executing
<1>4. OperatorQueuesAgree'
  BY <1>1, <1>2 DEF SInv, OperatorQueuesAgree
<1>5. OwnInv'
  BY <1>1, <1>2 DEF OwnInv
<1>6. OwnedInv => OwnedInv'
  BY <1>1, <1>2 DEF OwnedInv, SameOwner
<1>. QED
  BY <1>1, <1>3, <1>4, <1>5, <1>6 DEF Preserved

LEMMA RequeueStep ==
  ASSUME NEW o \in Orders, NEW n, SInv, Requeue(o, n), Kept(order[o], n), active = o,
         worker \in {"created", "dataset", "turn"}, order[o].status = "working",
         n.status \in {"queued", "dead_letter", "awaiting_user_input"}, SameOwner(order[o], n),
         circuit' \in {"closed", "open"}, faults' \in Nat
  PROVE  Preserved
<1>1. /\ order' \in [Orders -> WorkOrder] /\ order'[o] = n
      /\ \A p \in Orders : p # o => order'[p] = order[p]
      /\ \A p \in Orders : Kept(order[p], order'[p])
  BY PutStep DEF Requeue
<1>2. /\ worker' = "closing" /\ UNCHANGED <<active, cancelRequested>>
      /\ deadLetters' = [deadLetters EXCEPT
                           ![o] = deadLetters[o] + (IF n.status = "dead_letter" THEN 1 ELSE 0)]
      /\ blocked' = IF n.status = "awaiting_user_input" THEN blocked \cup {o} ELSE blocked
  BY DEF Requeue, Publish
<1>3. deadLetters \in [Orders -> Nat] /\ blocked \in SUBSET (Orders \cup {Login})
  BY DEF SInv, TypeOK
<1>4. TypeOK'
  <2>1. deadLetters' \in [Orders -> Nat] /\ blocked' \in SUBSET (Orders \cup {Login})
    BY <1>2, <1>3
  <2>. QED
    BY <1>1, <1>2, <2>1 DEF SInv, TypeOK, WorkerStates, Executing
<1>5. OperatorQueuesAgree'
  <2>1. deadLetters[o] = 0 /\ o \notin blocked
    BY DEF SInv, OperatorQueuesAgree
  <2>2. /\ deadLetters'[o] = IF n.status = "dead_letter" THEN 1 ELSE 0
        /\ o \in blocked' <=> n.status = "awaiting_user_input"
    BY <1>2, <1>3, <2>1
  <2>3. \A p \in Orders : p # o => deadLetters'[p] = deadLetters[p]
                                   /\ (p \in blocked' <=> p \in blocked)
    BY <1>2, <1>3
  <2>. QED
    BY <1>1, <2>2, <2>3 DEF SInv, OperatorQueuesAgree
<1>6. OwnInv'
  BY <1>2 DEF OwnInv
<1>7. OwnedInv => OwnedInv'
  BY <1>1, <1>2 DEF OwnedInv, SameOwner
<1>. QED
  BY <1>1, <1>4, <1>5, <1>6, <1>7 DEF Preserved

\* The execution ends with an outcome that no list of the dashboard shows.
LEMMA EndStep ==
  ASSUME NEW o \in Orders, NEW n, SInv, Put(o, n), Kept(order[o], n), active = o,
         worker \in {"created", "dataset", "turn"}, order[o].status = "working",
         n.status \notin {"working", "dead_letter", "awaiting_user_input"},
         SameOwner(order[o], n), worker' \in {"closing", "raising"},
         UNCHANGED <<circuit, deadLetters, blocked, active, cancelRequested, faults>>
  PROVE  Preserved
<1>1. /\ order' \in [Orders -> WorkOrder] /\ order'[o] = n
      /\ \A p \in Orders : p # o => order'[p] = order[p]
      /\ \A p \in Orders : Kept(order[p], order'[p])
  BY PutStep
<1>3. TypeOK'
  BY <1>1 DEF SInv, TypeOK, WorkerStates, Executing
<1>4. OperatorQueuesAgree'
  BY <1>1 DEF SInv, OperatorQueuesAgree
<1>5. OwnInv'
  BY DEF OwnInv
<1>6. OwnedInv => OwnedInv'
  BY <1>1 DEF OwnedInv, SameOwner
<1>. QED
  BY <1>1, <1>3, <1>4, <1>5, <1>6 DEF Preserved

LEMMA FailedKept ==
  ASSUME NEW r \in WorkOrder, NEW x \in WorkOrder, StoreInv(r), StoreInv(x),
         SameOwner(r, x), r.status = "working", x.status = "working"
  PROVE  LET n == Failed(x) IN
         Kept(r, n) /\ SameOwner(r, n) /\ n.status = "failed"
<1>. DEFINE n == Failed(x)
<1>1. /\ n \in WorkOrder /\ n.status = "failed" /\ n.stage = "failed" /\ SameOwner(x, n)
  BY FailedFields
<1>2. StoreInv(n) /\ GateInv(n) /\ ReviewedInv(n)
  BY FailedKeeps
<1>. HIDE DEF n
<1>3. SameOwner(r, n)
  BY <1>1 DEF SameOwner
<1>4. Moved(r, n)
  BY <1>1, <1>3, LiveMoved DEF ResearchStages
<1>5. n.status \notin GateStatuses
  BY <1>1, StatusSets
<1>6. Kept(r, n)
  BY <1>1, <1>2, <1>3, <1>4, <1>5, KeptWhenOpen DEF Keeps
<1>. QED
  BY <1>1, <1>3, <1>6 DEF n

LEMMA FailStep ==
  ASSUME NEW o \in Orders, SInv, Fail(o), active = o,
         worker \in {"created", "dataset", "turn"}, order[o].status = "working"
  PROVE  Preserved
<1>. DEFINE n == Failed(order[o])
<1>1. Kept(order[o], n) /\ SameOwner(order[o], n) /\ n.status = "failed"
  BY OrderFacts, FailedKept DEF SameOwner
<1>2. /\ Put(o, n) /\ worker' \in {"closing", "raising"}
      /\ UNCHANGED <<circuit, deadLetters, blocked, active, cancelRequested, faults>>
  BY DEF Fail
<1>. HIDE DEF n
<1>. QED
  BY <1>1, <1>2, EndStep

\* The new record of an order that is not being executed.
LEMMA QuietStep ==
  ASSUME NEW o \in Orders, NEW n, SInv, Put(o, n), Quiet, Kept(order[o], n),
         order[o].status \notin {"working", "dead_letter", "awaiting_user_input"},
         n.status \notin {"working", "dead_letter", "awaiting_user_input"},
         OnlyStrategies => n.agent = "strategy" \/ n.agent = order[o].agent
  PROVE  Preserved
<1>1. /\ order' \in [Orders -> WorkOrder] /\ order'[o] = n
      /\ \A p \in Orders : p # o => order'[p] = order[p]
      /\ \A p \in Orders : Kept(order[p], order'[p])
  BY PutStep
<1>2. UNCHANGED <<circuit, deadLetters, blocked, worker, active, cancelRequested, faults>>
  BY DEF Quiet
<1>3. TypeOK'
  BY <1>1, <1>2 DEF SInv, TypeOK
<1>4. OperatorQueuesAgree'
  BY <1>1, <1>2 DEF SInv, OperatorQueuesAgree
<1>5. OwnInv'
  BY <1>1, <1>2 DEF SInv, OwnInv
<1>6. OnlyStrategies /\ OwnedInv => OwnedInv'
  BY <1>1, <1>2 DEF OwnedInv
<1>. QED
  BY <1>1, <1>3, <1>4, <1>5, <1>6 DEF Preserved

-----------------------------------------------------------------------------
(* The user and the operator                                               *)

LEMMA NewKept ==
  ASSUME NEW r \in WorkOrder, NEW n \in WorkOrder, r.status = "absent", StoreInv(n),
         GateInv(n), ReviewedInv(n), ~n.inherited, n.status = "queued",
         n.stage \notin ResearchStages
  PROVE  Kept(r, n)
<1>1. Phase(n) = "building" /\ Phase(r) = "absent"
  BY PhaseOf, OrderTypes DEF LivePhase
<1>2. ~FailedReviewShown(n)
  BY FailedShown
<1>3. Moved(r, n)
  BY <1>1 DEF Moved
<1>. QED
  BY <1>2, <1>3, Zenon DEF Kept, Sound

LEMMA SubmitStep ==
  ASSUME SInv, NEW o \in Orders, NEW profile \in Profiles, Submit(o, profile)
  PROVE  Preserved
<1>1. /\ profile[1] \in {"strategy", "maintenance"} /\ profile[2] \in {"signal", "strategy"}
      /\ profile[3] \in BOOLEAN
  BY ProfilesAssumption
<1>. DEFINE n == NewOrder(profile[1], profile[2], profile[3])
<1>2. n \in WorkOrder /\ n.status = "queued" /\ n.stage = profile[1] /\ n.agent = profile[1]
      /\ ~n.inherited
  BY <1>1, NewFields
<1>3. StoreInv(n) /\ GateInv(n) /\ ReviewedInv(n)
  BY <1>1, NewKeeps
<1>4. order[o].status = "absent" /\ Put(o, n) /\ Quiet
  BY DEF Submit, NextFree
<1>. HIDE DEF n
<1>5. Kept(order[o], n)
  BY <1>1, <1>2, <1>3, <1>4, OrderFacts, NewKept DEF ResearchStages
<1>6. OnlyStrategies => n.agent = "strategy"
  BY <1>2 DEF OnlyStrategies
<1>. QED
  BY <1>2, <1>4, <1>5, <1>6, QuietStep

LEMMA AdoptStep ==
  ASSUME SInv, NEW o \in Orders, NEW kind \in {"signal", "strategy"}, NEW required \in BOOLEAN,
         Adopt(o, kind, required)
  PROVE  Preserved
<1>. DEFINE n == AdoptedOrder(kind, required)
<1>2. n \in WorkOrder /\ n.status = "queued" /\ n.stage = "review_implementation"
      /\ n.agent = "strategy" /\ ~n.inherited
  BY AdoptFields
<1>3. StoreInv(n) /\ GateInv(n) /\ ReviewedInv(n)
  BY AdoptKeeps
<1>4. order[o].status = "absent" /\ Put(o, n) /\ Quiet
  BY DEF Adopt, NextFree, AdoptedOrder
<1>. HIDE DEF n
<1>5. Kept(order[o], n)
  BY <1>2, <1>3, <1>4, OrderFacts, NewKept DEF ResearchStages
<1>. QED
  BY <1>2, <1>4, <1>5, QuietStep

\* A decision leads to another gate, to the release or back to the worker.
DecidedAs(r, n) ==
  /\ Kept(r, n) /\ SameOwner(r, n)
  /\ n.status \notin {"working", "dead_letter", "awaiting_user_input"}

LEMMA ImplementationDecided ==
  ASSUME NEW r \in WorkOrder, StoreInv(r), r.status = AwaitingStatus("implementation"),
         NEW approved \in BOOLEAN
  PROVE  DecidedAs(r, DecidedImplementation(r, approved))
<1>. DEFINE n == DecidedImplementation(r, approved)
<1>1. /\ n \in WorkOrder /\ SameOwner(r, n)
      /\ ~approved => n.status = "queued" /\ n.stage = "strategy"
      /\ approved =>
           /\ r.backtestRequired => n.status = "queued" /\ n.stage = "dataset"
           /\ ~r.backtestRequired =>
                n.status = "awaiting_live_approval" /\ n.stage = "approval"
  BY DecidedImplementationFields
<1>2. StoreInv(n) /\ (~FailedReviewShown(r) => Keeps(r, n))
  BY DecidedImplementationKeeps
<1>. HIDE DEF n
<1>3. n.status \in {"queued", "awaiting_live_approval"} /\ ~FailedReviewShown(n)
  BY <1>1, OrderTypes, FailedShown
<1>4. Moved(r, n)
  <2>1. n.inherited = r.inherited /\ n.backtestRequired = r.backtestRequired
        /\ r.backtestRequired \in BOOLEAN /\ r.inherited \in BOOLEAN
    BY <1>1, OrderTypes DEF SameOwner
  <2>2. CASE r.inherited
    BY <2>1, <2>2, PhaseOf DEF Moved
  <2>3. CASE ~r.inherited
    <3>1. Phase(r) = "implementation_gate"
      BY <2>3, StatusSets, PhaseOf
    <3>2. CASE ~approved
      <4>1. Phase(n) = "building"
        BY <1>1, <2>1, <2>3, <3>2, PhaseOf DEF LivePhase, ResearchStages
      <4>. QED
        BY <2>1, <3>1, <4>1 DEF Moved
    <3>3. CASE approved /\ r.backtestRequired
      <4>1. Phase(n) = "researching"
        BY <1>1, <2>1, <2>3, <3>3, PhaseOf DEF LivePhase, ResearchStages
      <4>. QED
        BY <2>1, <3>1, <3>3, <4>1 DEF Moved
    <3>4. CASE approved /\ ~r.backtestRequired
      <4>1. Phase(n) = "live_gate"
        BY <1>1, <2>1, <2>3, <3>4, PhaseOf
      <4>. QED
        BY <2>1, <3>1, <3>4, <4>1 DEF Moved
    <3>. QED
      BY <3>2, <3>3, <3>4
  <2>. QED
    BY <2>2, <2>3
<1>5. Kept(r, n)
  BY <1>1, <1>2, <1>3, <1>4, Zenon DEF Kept, Keeps, Sound
<1>. QED
  BY <1>1, <1>3, <1>5 DEF n, DecidedAs

LEMMA OptimizationDecided ==
  ASSUME NEW r \in WorkOrder, StoreInv(r), r.status = AwaitingStatus("optimization"),
         NEW approved \in BOOLEAN
  PROVE  DecidedAs(r, DecidedOptimization(r, approved))
<1>. DEFINE n == DecidedOptimization(r, approved)
<1>1. /\ n \in WorkOrder /\ SameOwner(r, n)
      /\ approved => n.status = "queued" /\ n.stage = "strategy"
      /\ ~approved => n.status = "awaiting_backtest_approval" /\ n.results = r.results
  BY DecidedOptimizationFields
<1>2. Keeps(r, n)
  BY DecidedOptimizationKeeps
<1>. HIDE DEF n
<1>3. n.status \in {"queued", "awaiting_backtest_approval"}
  BY <1>1
<1>4. Sound(r) => ~FailedReviewShown(n)
  BY <1>1, StatusSets, FailedShown DEF Sound, GateInv, ShownInv, Acceptable
<1>5. Moved(r, n)
  <2>1. n.inherited = r.inherited /\ n.backtestRequired = r.backtestRequired
        /\ r.inherited \in BOOLEAN /\ r.backtestRequired
    BY <1>1, StatusSets, OrderTypes DEF SameOwner, StoreInv, ShapeInv
  <2>2. CASE r.inherited
    BY <2>1, <2>2, PhaseOf DEF Moved
  <2>3. CASE ~r.inherited
    <3>1. Phase(r) = "researching"
      BY <2>3, StatusSets, PhaseOf
    <3>2. Phase(n) \in {"building", "backtest_gate"}
      BY <1>1, <2>1, <2>3, PhaseOf DEF LivePhase, ResearchStages
    <3>. QED
      BY <2>1, <3>1, <3>2 DEF Moved
  <2>. QED
    BY <2>2, <2>3
<1>6. Kept(r, n)
  BY <1>1, <1>2, <1>4, <1>5, Zenon DEF Kept, Keeps, Sound
<1>. QED
  BY <1>1, <1>3, <1>6 DEF n, DecidedAs

LEMMA BacktestDecided ==
  ASSUME NEW r \in WorkOrder, StoreInv(r), r.status = AwaitingStatus("backtest"),
         NEW approved \in BOOLEAN
  PROVE  DecidedAs(r, DecidedBacktest(r, approved))
<1>. DEFINE n == DecidedBacktest(r, approved)
<1>1. /\ n \in WorkOrder /\ SameOwner(r, n)
      /\ ~approved => n.status = "queued" /\ n.stage = "backtest"
      /\ approved => n.status = "awaiting_live_approval"
  BY DecidedBacktestFields
<1>2. Keeps(r, n)
  BY DecidedBacktestKeeps
<1>. HIDE DEF n
<1>3. n.status \in {"queued", "awaiting_live_approval"} /\ ~FailedReviewShown(n)
  BY <1>1, FailedShown
<1>5. Moved(r, n)
  <2>1. n.inherited = r.inherited /\ n.backtestRequired = r.backtestRequired
        /\ r.inherited \in BOOLEAN /\ r.backtestRequired
    BY <1>1, StatusSets, OrderTypes DEF SameOwner, StoreInv, ShapeInv
  <2>2. CASE r.inherited
    BY <2>1, <2>2, PhaseOf DEF Moved
  <2>3. CASE ~r.inherited
    <3>1. Phase(r) = "backtest_gate"
      BY <2>3, StatusSets, PhaseOf
    <3>2. Phase(n) \in {"researching", "live_gate"}
      BY <1>1, <2>1, <2>3, PhaseOf DEF LivePhase, ResearchStages
    <3>. QED
      BY <2>1, <3>1, <3>2 DEF Moved
  <2>. QED
    BY <2>2, <2>3
<1>6. Kept(r, n)
  BY <1>1, <1>2, <1>3, <1>5, Zenon DEF Kept, Keeps, Sound
<1>. QED
  BY <1>1, <1>3, <1>6 DEF n, DecidedAs

LEMMA LiveDecided ==
  ASSUME NEW r \in WorkOrder, StoreInv(r), r.status = AwaitingStatus("live"),
         NEW approved \in BOOLEAN
  PROVE  DecidedAs(r, DecidedLive(r, approved))
<1>. DEFINE n == DecidedLive(r, approved)
<1>1. /\ n \in WorkOrder /\ SameOwner(r, n) /\ n.results = r.results
      /\ ~approved => n.status = "awaiting_implementation_approval"
      /\ approved => n.status = "approved"
  BY DecidedLiveFields
<1>2. Keeps(r, n)
  BY DecidedLiveKeeps
<1>. HIDE DEF n
<1>3. n.status \in {"awaiting_implementation_approval", "approved"}
  BY <1>1
<1>4. Sound(r) => ~FailedReviewShown(n)
  BY <1>1, StatusSets, FailedShown
     DEF Sound, GateInv, ShownInv, PastApproval, Acceptable
<1>5. Moved(r, n)
  <2>1. n.inherited = r.inherited /\ n.backtestRequired = r.backtestRequired
        /\ r.inherited \in BOOLEAN
    BY <1>1, OrderTypes DEF SameOwner
  <2>2. CASE r.inherited
    BY <2>1, <2>2, PhaseOf DEF Moved
  <2>3. CASE ~r.inherited
    <3>1. Phase(r) = "live_gate"
      BY <2>3, StatusSets, PhaseOf
    <3>2. Phase(n) \in {"released", "implementation_gate"}
      BY <1>1, <2>1, <2>3, PhaseOf
    <3>. QED
      BY <2>1, <3>1, <3>2 DEF Moved
  <2>. QED
    BY <2>2, <2>3
<1>6. Kept(r, n)
  BY <1>1, <1>2, <1>4, <1>5, Zenon DEF Kept, Keeps, Sound
<1>. QED
  BY <1>1, <1>3, <1>6 DEF n, DecidedAs

LEMMA DecideStep ==
  ASSUME SInv, NEW o \in Orders, NEW gate \in Gates, NEW approved \in BOOLEAN,
         Decide(o, gate, approved)
  PROVE  Preserved
<1>. DEFINE r == order[o]
            n == Decided(r, gate, approved)
<1>1. r \in WorkOrder /\ StoreInv(r) /\ r.status = AwaitingStatus(gate) /\ Put(o, n) /\ Quiet
  BY OrderFacts DEF Decide
<1>. HIDE DEF r
<1>2. DecidedAs(r, n)
  <2>1. CASE gate = "implementation"
    BY <1>1, <2>1, ImplementationDecided DEF Decided
  <2>2. CASE gate = "optimization"
    BY <1>1, <2>2, OptimizationDecided DEF Decided
  <2>3. CASE gate = "backtest"
    BY <1>1, <2>3, BacktestDecided DEF Decided
  <2>4. CASE gate = "live"
    BY <1>1, <2>4, LiveDecided DEF Decided
  <2>. QED
    BY <2>1, <2>2, <2>3, <2>4 DEF Gates
<1>. HIDE DEF n
<1>3. r.status \notin {"working", "dead_letter", "awaiting_user_input"}
  BY <1>1, StatusSets DEF Gates
<1>4. Kept(r, n) /\ n.agent = r.agent
      /\ n.status \notin {"working", "dead_letter", "awaiting_user_input"}
  BY <1>2 DEF DecidedAs, SameOwner
<1>. QED
  BY <1>1, <1>3, <1>4, QuietStep DEF r

\* A step that stores nothing.
LEMMA IdleStep ==
  ASSUME SInv, order' = order
  PROVE  /\ order' \in [Orders -> WorkOrder]
         /\ \A p \in Orders : Kept(order[p], order'[p])
<1>1. \A p \in Orders : Kept(order[p], order[p])
  BY SameKept DEF SInv, TypeOK
<1>. QED
  BY <1>1 DEF SInv, TypeOK

LEMMA CancelledKept ==
  ASSUME NEW r \in WorkOrder, NEW n \in WorkOrder, StoreInv(r),
         r.status \in {"queued", "working"}, n.status = "cancelled", n.stage = "cancelled",
         n.error \in {r.error, "none"}, SameOwner(r, n), SameBudget(r, n),
         n.results = r.results, n.version = r.version, n.made = r.made,
         n.manifests = r.manifests
  PROVE  Kept(r, n)
<1>1. Keeps(r, n)
  BY CancelledKeeps
<1>2. Moved(r, n)
  BY LiveMoved DEF ResearchStages
<1>. QED
  BY <1>1, <1>2, StatusSets, KeptWhenOpen

LEMMA CancelledRecord ==
  ASSUME NEW r \in WorkOrder, StoreInv(r), r.status \in {"queued", "working"}
  PROVE  LET n == Cancelled(r) IN
         Kept(r, n) /\ SameOwner(r, n) /\ n.status = "cancelled"
<1>. DEFINE n == Cancelled(r)
<1>1. "cancelled" \in Statuses /\ "cancelled" \in Stages
  BY DEF Statuses, Stages
<1>2. /\ n \in WorkOrder /\ n.status = "cancelled" /\ n.stage = "cancelled" /\ n.error = "none"
      /\ SameOwner(r, n) /\ SameBudget(r, n)
      /\ n.results = r.results /\ n.version = r.version /\ n.made = r.made
      /\ n.manifests = r.manifests
  BY <1>1, FinishFields DEF Cancelled
<1>. HIDE DEF n
<1>3. Kept(r, n)
  BY <1>2, CancelledKept
<1>. QED
  BY <1>2, <1>3 DEF n

LEMMA CancelStep ==
  ASSUME SInv, NEW o \in Orders, Cancel(o)
  PROVE  Preserved
<1>. DEFINE r == order[o]
<1>1. r \in WorkOrder /\ StoreInv(r) /\ r.status \in {"queued", "working"}
      /\ UNCHANGED <<circuit, deadLetters, blocked, faults>>
  BY OrderFacts DEF Cancel
<1>2. CASE /\ active # o
           /\ Put(o, [order[o] EXCEPT !.status = "cancelled", !.stage = "cancelled"])
           /\ UNCHANGED <<worker, active, cancelRequested>>
  <2>. DEFINE n == [r EXCEPT !.status = "cancelled", !.stage = "cancelled"]
  <2>1. /\ n \in WorkOrder /\ n.status = "cancelled" /\ n.stage = "cancelled"
        /\ n.error = r.error /\ SameWork(r, n)
    BY <1>1, CancelFields
  <2>2. Put(o, n)
    BY <1>2
  <2>. HIDE DEF n
  <2>3. Kept(r, n) /\ n.agent = r.agent
    <3>1. /\ SameOwner(r, n) /\ SameBudget(r, n) /\ n.results = r.results
          /\ n.version = r.version /\ n.made = r.made /\ n.manifests = r.manifests
      BY <2>1 DEF SameWork, SameVersion
    <3>2. Kept(r, n)
      BY <1>1, <2>1, <3>1, CancelledKept
    <3>. QED
      BY <3>1, <3>2 DEF SameOwner
  <2>4. /\ order' \in [Orders -> WorkOrder] /\ order'[o] = n
        /\ \A p \in Orders : p # o => order'[p] = order[p]
        /\ \A p \in Orders : Kept(order[p], order'[p])
    BY <2>2, <2>3, PutStep
  <2>5. TypeOK'
    BY <1>1, <1>2, <2>4 DEF SInv, TypeOK
  <2>6. OperatorQueuesAgree'
    BY <1>1, <2>1, <2>4 DEF SInv, OperatorQueuesAgree
  <2>7. OwnInv'
    BY <1>2, <2>4 DEF SInv, OwnInv
  <2>8. OwnedInv => OwnedInv'
    BY <1>2, <2>1, <2>3, <2>4 DEF OwnedInv
  <2>. QED
    BY <2>4, <2>5, <2>6, <2>7, <2>8 DEF Preserved
<1>3. CASE /\ active = o /\ worker \in {"dataset", "turn"}
           /\ Put(o, Cancelled(order[o]))
           /\ worker' = "raising"
           /\ UNCHANGED <<active, cancelRequested>>
  <2>. DEFINE n == Cancelled(r)
  <2>1. Kept(r, n) /\ SameOwner(r, n) /\ n.status = "cancelled" /\ Put(o, n)
    BY <1>1, <1>3, CancelledRecord
  <2>. HIDE DEF n
  <2>2. r.status = "working"
    BY <1>3 DEF SInv, OwnInv
  <2>. QED
    BY <1>1, <1>3, <2>1, <2>2, EndStep
<1>4. CASE /\ active = o /\ worker = "created"
           /\ worker' = "dead" /\ active' = 0
           /\ cancelRequested' = cancelRequested \cup {o}
           /\ UNCHANGED order
  <2>1. order' \in [Orders -> WorkOrder] /\ \A p \in Orders : Kept(order[p], order'[p])
    BY <1>4, IdleStep
  <2>2. TypeOK'
    BY <1>1, <1>4, <2>1, BoundsAssumption DEF SInv, TypeOK, WorkerStates
  <2>3. OperatorQueuesAgree' /\ OwnInv'
    BY <1>1, <1>4 DEF SInv, OperatorQueuesAgree, OwnInv
  <2>4. OwnedInv => OwnedInv'
    BY <1>4 DEF OwnedInv
  <2>. QED
    BY <2>1, <2>2, <2>3, <2>4 DEF Preserved
<1>5. CASE /\ active = o /\ worker = "closing"
           /\ cancelRequested' = cancelRequested \cup {o}
           /\ UNCHANGED <<order, worker, active>>
  <2>1. order' \in [Orders -> WorkOrder] /\ \A p \in Orders : Kept(order[p], order'[p])
    BY <1>5, IdleStep
  <2>2. TypeOK'
    BY <1>1, <1>5, <2>1 DEF SInv, TypeOK
  <2>3. OperatorQueuesAgree' /\ OwnInv'
    BY <1>1, <1>5 DEF SInv, OperatorQueuesAgree, OwnInv
  <2>4. OwnedInv => OwnedInv'
    BY <1>5 DEF OwnedInv
  <2>. QED
    BY <2>1, <2>2, <2>3, <2>4 DEF Preserved
<1>. QED
  BY <1>2, <1>3, <1>4, <1>5 DEF Cancel

LEMMA RemediatedKept ==
  ASSUME NEW r \in WorkOrder, StoreInv(r), NEW version \in r.manifests,
         r.status \in {"dead_letter", "failed", "awaiting_user_input"}, r.stage \in RetryStages
  PROVE  LET n == Remediated(r, version) IN
         Kept(r, n) /\ SameOwner(r, n) /\ n.status = "queued"
<1>. DEFINE n == Remediated(r, version)
<1>1. version \in Int
  BY OrderTypes
<1>2. /\ n \in WorkOrder /\ n.status = "queued" /\ SameOwner(r, n)
      /\ PreservesImplementation(r, version) => n.stage = "backtest"
      /\ ~PreservesImplementation(r, version) => n.stage = r.agent
  BY <1>1, RemediatedFields
<1>3. /\ StoreInv(n)
      /\ GateInv(r) /\ r.stage # "optimize" => GateInv(n)
      /\ ReviewedInv(r) => ReviewedInv(n)
  BY RemediatedKeeps
<1>. HIDE DEF n
<1>4. NoOptimizerRetry => r.stage # "optimize"
  BY DEF NoOptimizerRetry
<1>5. ~FailedReviewShown(n)
  BY <1>2, FailedShown
<1>6. Moved(r, n)
  <2>1. n.inherited = r.inherited /\ n.backtestRequired = r.backtestRequired
        /\ r.inherited \in BOOLEAN
    BY <1>2, OrderTypes DEF SameOwner
  <2>2. n.stage \in ResearchStages => r.stage \in ResearchStages
    BY <1>2, OrderTypes DEF PreservesImplementation, ResearchStages
  <2>3. r.stage \in ResearchStages => r.backtestRequired /\ r.status # "failed"
    BY DEF StoreInv, ShapeInv, ResearchStages
  <2>4. CASE r.inherited
    BY <2>1, <2>4, PhaseOf DEF Moved
  <2>5. CASE ~r.inherited
    <3>1. Phase(n) = LivePhase(n)
      BY <1>2, <2>1, <2>5, PhaseOf
    <3>2. /\ r.status = "dead_letter" => Phase(r) = DeadPhase(r)
          /\ r.status = "failed" => Phase(r) = "failed"
          /\ r.status = "awaiting_user_input" => Phase(r) = LivePhase(r)
      BY <2>5, PhaseOf
    <3>. QED
      BY <2>1, <2>2, <2>3, <3>1, <3>2 DEF Moved, LivePhase, DeadPhase
  <2>. QED
    BY <2>1, <2>4, <2>5
<1>7. Kept(r, n)
  BY <1>2, <1>3, <1>4, <1>5, <1>6, Zenon DEF Kept, Sound
<1>. QED
  BY <1>2, <1>7 DEF n

LEMMA RetryStep ==
  ASSUME SInv, NEW o \in Orders, NEW version \in 1..MaxVersions, RetryDeadLetter(o, version)
  PROVE  Preserved
<1>. DEFINE r == order[o]
            n == Remediated(r, version)
<1>1. /\ r \in WorkOrder /\ StoreInv(r) /\ version \in r.manifests /\ r.stage \in RetryStages
      /\ r.status \in {"dead_letter", "failed", "awaiting_user_input"} /\ Put(o, n)
      /\ deadLetters' = [deadLetters EXCEPT ![o] = 0] /\ blocked' = blocked \ {o}
      /\ UNCHANGED <<circuit, worker, active, cancelRequested, faults>>
  BY OrderFacts DEF RetryDeadLetter
<1>2. Kept(r, n) /\ SameOwner(r, n) /\ n.status = "queued"
  BY <1>1, RemediatedKept
<1>. HIDE DEF n
<1>3. /\ order' \in [Orders -> WorkOrder] /\ order'[o] = n
      /\ \A p \in Orders : p # o => order'[p] = order[p]
      /\ \A p \in Orders : Kept(order[p], order'[p])
  BY <1>1, <1>2, PutStep
<1>4. deadLetters \in [Orders -> Nat] /\ blocked \in SUBSET (Orders \cup {Login})
  BY DEF SInv, TypeOK
<1>5. /\ deadLetters' \in [Orders -> Nat] /\ deadLetters'[o] = 0
      /\ \A p \in Orders : p # o => deadLetters'[p] = deadLetters[p]
  BY <1>1, <1>4
<1>6. TypeOK'
  BY <1>1, <1>3, <1>4, <1>5 DEF SInv, TypeOK
<1>7. OperatorQueuesAgree'
  BY <1>1, <1>2, <1>3, <1>5 DEF SInv, OperatorQueuesAgree
<1>8. OwnInv'
  BY <1>1, <1>3 DEF SInv, OwnInv
<1>9. OwnedInv => OwnedInv'
  BY <1>1, <1>2, <1>3 DEF OwnedInv, SameOwner
<1>. QED
  BY <1>3, <1>6, <1>7, <1>8, <1>9 DEF Preserved

-----------------------------------------------------------------------------
(* The worker                                                              *)

LEMMA ClaimStep ==
  ASSUME SInv, NEW o \in Orders, Claim(o)
  PROVE  Preserved
<1>. DEFINE r == order[o]
            n == Checkpoint([r EXCEPT !.status = "working", !.error = "none"], ResumeStage(r))
<1>1. /\ r \in WorkOrder /\ StoreInv(r) /\ Put(o, n)
      /\ worker = "polling" /\ worker' = "created" /\ active' = o /\ blocked' = blocked \ {Login}
      /\ UNCHANGED <<circuit, deadLetters, cancelRequested, faults>>
  BY OrderFacts DEF Claim
<1>2. r.status = "queued"
  <2>1. Claimable # {} /\ o = Min(Claimable)
    BY DEF Claim
  <2>2. Claimable \subseteq Nat
    BY BoundsAssumption DEF Claimable, Orders
  <2>3. o \in Claimable
    BY <2>1, <2>2, MinIsMember
  <2>. QED
    BY <2>3 DEF Claimable
<1>3. r.stage \in ExecutableStages
  BY <1>1, <1>2 DEF StoreInv, ShapeInv, ExecutableStatuses
<1>4. /\ n \in WorkOrder /\ n.status = "working" /\ n.stage = r.stage /\ n.error = "none"
      /\ SameWork(r, n)
  BY <1>1, <1>3, ClaimedFields
<1>. HIDE DEF n
<1>5. SameOwner(r, n)
  BY <1>4 DEF SameWork
<1>6. Kept(r, n)
  <2>1. /\ StoreInv(n) /\ (GateInv(r) => GateInv(n))
        /\ ReviewedInv(r) /\ n.error # "quota" => ReviewedInv(n)
    BY <1>1, <1>2, <1>4, SameWorkKeeps
  <2>2. Keeps(r, n)
    BY <1>4, <2>1 DEF Keeps
  <2>3. Moved(r, n)
    BY <1>1, <1>2, <1>4, <1>5, LiveMoved
  <2>. QED
    BY <1>1, <1>4, <1>5, <2>2, <2>3, StatusSets, KeptWhenOpen
<1>7. /\ order' \in [Orders -> WorkOrder] /\ order'[o] = n
      /\ \A p \in Orders : p # o => order'[p] = order[p]
      /\ \A p \in Orders : Kept(order[p], order'[p])
  BY <1>1, <1>6, PutStep
<1>8. TypeOK'
  BY <1>1, <1>7, OrderFacts DEF SInv, TypeOK, WorkerStates, Executing
<1>9. OperatorQueuesAgree'
  <2>1. \A p \in Orders : p \in blocked' <=> p \in blocked
    BY <1>1, OrderFacts DEF Login
  <2>. QED
    BY <1>1, <1>2, <1>4, <1>7, <2>1 DEF SInv, OperatorQueuesAgree
<1>10. OwnInv'
  BY <1>1, <1>4, <1>7 DEF OwnInv
<1>11. OwnedInv => OwnedInv'
  BY <1>1, <1>4, <1>5, <1>7 DEF OwnedInv, SameOwner
<1>. QED
  BY <1>7, <1>8, <1>9, <1>10, <1>11 DEF Preserved

\* The record of an execution: the worker holds it.
LEMMA HeldFacts ==
  ASSUME SInv, NEW o \in Orders, active = o, worker \in {"created", "dataset", "turn"}
  PROVE  /\ order[o] \in WorkOrder /\ StoreInv(order[o]) /\ order[o].status = "working"
         /\ order[o].stage \in ExecutableStages
         /\ worker = "dataset" => order[o].stage \in {"dataset", "backtest"}
<1>1. order[o] \in WorkOrder /\ StoreInv(order[o]) /\ order[o].status = "working"
      /\ (worker = "dataset" => order[o].stage \in {"dataset", "backtest"})
  BY OrderFacts DEF SInv, OwnInv
<1>. QED
  BY <1>1 DEF StoreInv, ShapeInv, ExecutableStatuses

\* An execution goes on with its next stage.
LEMMA WorkingKept ==
  ASSUME NEW r \in WorkOrder, NEW n \in WorkOrder, StoreInv(r), Keeps(r, n), SameOwner(r, n),
         r.status = "working", n.status = "working",
         n.stage \in ResearchStages => r.stage \in ResearchStages
  PROVE  Kept(r, n)
<1>1. Moved(r, n)
  BY LiveMoved
<1>. QED
  BY <1>1, StatusSets, KeptWhenOpen

LEMMA BeginStep ==
  ASSUME SInv, NEW o \in Orders, Begin(o)
  PROVE  Preserved
<1>. DEFINE r == order[o]
<1>1. /\ worker = "created" /\ active = o /\ r \in WorkOrder /\ StoreInv(r)
      /\ r.status = "working" /\ r.stage \in ExecutableStages
  BY HeldFacts DEF Begin
<1>2. CASE ~HandoffPresent(r)
  BY <1>1, <1>2, FailStep DEF Begin
<1>3. CASE /\ HandoffPresent(r) /\ r.agent = "strategy" /\ r.stage \in {"dataset", "backtest"}
           /\ r.results.dataset = 0
  <2>1. /\ worker' = "dataset"
        /\ UNCHANGED <<order, circuit, deadLetters, blocked, active, cancelRequested, faults>>
    BY <1>3 DEF Begin
  <2>2. order' \in [Orders -> WorkOrder] /\ \A p \in Orders : Kept(order[p], order'[p])
    BY <2>1, IdleStep
  <2>3. TypeOK'
    BY <2>1, <2>2 DEF SInv, TypeOK, WorkerStates, Executing
  <2>4. OperatorQueuesAgree'
    BY <2>1 DEF SInv, OperatorQueuesAgree
  <2>5. OwnInv'
    BY <1>1, <1>3, <2>1 DEF OwnInv
  <2>6. OwnedInv => OwnedInv'
    BY <1>1, <2>1 DEF OwnedInv
  <2>. QED
    BY <2>2, <2>3, <2>4, <2>5, <2>6 DEF Preserved
<1>4. CASE /\ HandoffPresent(r)
           /\ ~(r.agent = "strategy" /\ r.stage \in {"dataset", "backtest"}
                  /\ r.results.dataset = 0)
  <2>. DEFINE n == IF r.stage = "dataset" THEN Checkpoint(r, "backtest") ELSE r
  <2>1. HandOver(o, n)
    BY <1>4 DEF Begin
  <2>2. Kept(r, n) /\ SameOwner(r, n) /\ n.status = "working"
    <3>1. CASE r.stage = "dataset"
      <4>. DEFINE m == Checkpoint(r, "backtest")
      <4>1. "backtest" \in Stages
        BY DEF Stages, ExecutableStages, ResearchStages
      <4>2. /\ m \in WorkOrder /\ m.status = r.status /\ m.stage = "backtest"
            /\ m.error = r.error /\ SameWork(r, m)
        BY <1>1, <4>1, CheckpointFields
      <4>. HIDE DEF m
      <4>3. Keeps(r, m)
        <5>1. r.agent = "strategy" /\ r.version \in r.manifests
          BY <1>1, <1>4, <3>1, OrderTypes DEF StoreInv, ShapeInv, VersionInv, Researched
        <5>. QED
          BY <1>1, <3>1, <4>2, <5>1, ToBacktestKeeps DEF SameWork
      <4>4. SameOwner(r, m)
        BY <4>2 DEF SameWork
      <4>5. Kept(r, m)
        BY <1>1, <3>1, <4>2, <4>3, <4>4, WorkingKept DEF ResearchStages
      <4>. QED
        BY <1>1, <3>1, <4>2, <4>4, <4>5 DEF m
    <3>2. CASE r.stage # "dataset"
      BY <1>1, <3>2, SameKept DEF SameOwner
    <3>. QED
      BY <3>1, <3>2
  <2>. HIDE DEF n
  <2>. QED
    BY <1>1, <2>1, <2>2, HandOverStep
<1>. QED
  BY <1>2, <1>3, <1>4

LEMMA DatasetReadyStep ==
  ASSUME SInv, NEW o \in Orders, DatasetReady(o)
  PROVE  Preserved
<1>. DEFINE r == order[o]
            d == [r EXCEPT !.results.dataset = r.version]
            n == Checkpoint(d, "backtest")
<1>1. /\ worker = "dataset" /\ active = o /\ r \in WorkOrder /\ StoreInv(r)
      /\ r.status = "working" /\ r.stage \in {"dataset", "backtest"}
  BY HeldFacts DEF DatasetReady
<1>2. CASE ~(r.version # 0 /\ r.kind \in MaterializedKinds)
  BY <1>1, <1>2, FailStep DEF DatasetReady
<1>3. CASE r.version # 0 /\ r.kind \in MaterializedKinds
  <2>1. HandOver(o, n)
    BY <1>3 DEF DatasetReady
  <2>2. /\ d \in WorkOrder /\ d.status = r.status /\ d.error = r.error
        /\ SameOwner(r, d) /\ SameGrants(r, d) /\ SameBudget(r, d) /\ SameVersion(r, d)
        /\ d.results.strategy = r.results.strategy
        /\ d.results.review_implementation = r.results.review_implementation
        /\ d.results.backtest = r.results.backtest
        /\ d.results.review_backtest = r.results.review_backtest
        /\ d.results.optimization = r.results.optimization
    BY <1>1, OrderTypes, DatasetFields, ZenonT(60)
  <2>. HIDE DEF d
  <2>3. "backtest" \in Stages
    BY DEF Stages, ExecutableStages, ResearchStages
  <2>4. /\ n \in WorkOrder /\ n.status = d.status /\ n.stage = "backtest"
        /\ n.error = d.error /\ SameWork(d, n)
    BY <2>2, <2>3, CheckpointFields
  <2>. HIDE DEF n
  <2>5. n.results = d.results
    BY <2>4 DEF SameWork
  <2>6. SameOwner(r, n) /\ SameGrants(r, n)
    BY <2>2, <2>4 DEF SameWork, SameOwner, SameGrants
  <2>7. SameBudget(r, n) /\ SameVersion(r, n)
    BY <2>2, <2>4 DEF SameWork, SameBudget, SameVersion
  <2>8. Keeps(r, n)
    <3>1. r.version \in r.manifests
      BY <1>1, <1>3 DEF StoreInv, VersionInv, Researched, ResearchStages
    <3>. QED
      BY <1>1, <2>2, <2>4, <2>5, <2>6, <2>7, <3>1, ToBacktestKeeps
  <2>9. Kept(r, n)
    BY <1>1, <2>2, <2>4, <2>6, <2>8, WorkingKept DEF ResearchStages
  <2>. QED
    BY <1>1, <2>1, <2>2, <2>4, <2>6, <2>9, HandOverStep
<1>. QED
  BY <1>2, <1>3

\* A failure that is counted.
LEMMA RequeuedKept ==
  ASSUME NEW r \in WorkOrder, NEW x \in WorkOrder, StoreInv(r), StoreInv(x), SameOwner(r, x),
         NEW n, n \in WorkOrder, Keeps(r, n), SameOwner(x, n),
         r.status = "working", n.status \in {"dead_letter", "awaiting_user_input", "queued"},
         n.stage \in ResearchStages => r.stage \in ResearchStages
  PROVE  Kept(r, n) /\ SameOwner(r, n)
<1>1. SameOwner(r, n)
  BY DEF SameOwner
<1>2. Moved(r, n)
  BY <1>1, LiveMoved
<1>. QED
  BY <1>1, <1>2, StatusSets, KeptWhenOpen

\* A turn or a materialization that failed and is counted: x is the order as
\* the failure left it.
LEMMA CountedStep ==
  ASSUME SInv, NEW o \in Orders, active = o, worker \in {"created", "dataset", "turn"},
         NEW x \in WorkOrder, Keeps(order[o], x), SameOwner(order[o], x),
         x.status = "working", x.stage = order[o].stage,
         NEW stage \in ExecutableStages, NEW keys \in SUBSET IssueKeys,
         NEW error \in {"timeout", "other"}, NEW delayed \in BOOLEAN, NEW ask \in BOOLEAN,
         error = "timeout" => keys = {<<stage, "timeout">>},
         \/ stage = x.stage
         \/ /\ x.stage # "optimize" /\ x.agent = "strategy"
            /\ \/ stage = "strategy"
               \/ /\ stage = "dataset" \/ (stage = "backtest" /\ x.stage # "dataset")
                  /\ x.stage \in ResearchStages,
         Requeue(o, Requeued(x, stage, keys, error, delayed, ask)),
         UNCHANGED <<circuit, faults>>
  PROVE  Preserved
<1>. DEFINE r == order[o]
            n == Requeued(x, stage, keys, error, delayed, ask)
<1>1. r \in WorkOrder /\ StoreInv(r) /\ r.status = "working" /\ StoreInv(x)
  BY HeldFacts DEF Keeps
<1>2. CountedAt(x, n, stage, keys, error)
  BY RequeuedFields
<1>3. Keeps(x, n)
  <2>1. x.stage \in ResearchStages =>
          /\ PastApproval(x) /\ x.backtestRequired
          /\ x.stage # "dataset" => x.version \in x.manifests
    BY <1>1 DEF PastApproval, StoreInv, ShapeInv, VersionInv, Researched
  <2>. QED
    BY <1>1, <2>1, RequeuedKeeps
<1>4. Requeue(o, n)
  OBVIOUS
<1>. HIDE DEF n
<1>5. /\ n \in WorkOrder /\ n.stage = stage /\ SameOwner(x, n)
      /\ n.status \in {"dead_letter", "awaiting_user_input", "queued"}
  BY <1>2 DEF CountedAt, Counted
<1>6. Keeps(r, n)
  BY <1>3 DEF Keeps
<1>7. n.stage \in ResearchStages => r.stage \in ResearchStages
  BY <1>5 DEF ResearchStages
<1>8. Kept(r, n) /\ SameOwner(r, n)
  BY <1>1, <1>5, <1>6, <1>7, RequeuedKept
<1>9. circuit' \in {"closed", "open"} /\ faults' \in Nat
  BY DEF SInv, TypeOK
<1>. QED
  BY <1>1, <1>4, <1>5, <1>8, <1>9, RequeueStep

LEMMA SameKeeps ==
  ASSUME NEW r \in WorkOrder, StoreInv(r)
  PROVE  Keeps(r, r) /\ SameOwner(r, r)
BY DEF Keeps, SameOwner

LEMMA AcquisitionStep ==
  ASSUME SInv, NEW o \in Orders, AcquisitionError(o)
  PROVE  Preserved
<1>. DEFINE r == order[o]
            stage == "dataset"
            keys == {<<"dataset", "acquisition">>}
            error == "other"
            late == TRUE
            ask == FALSE
<1>1. /\ worker = "dataset" /\ active = o /\ r \in WorkOrder /\ StoreInv(r)
      /\ r.status = "working" /\ r.stage \in {"dataset", "backtest"} /\ r.agent = "strategy"
  BY HeldFacts, OrderTypes DEF AcquisitionError, StoreInv, ShapeInv
<1>2. /\ Requeue(o, Requeued(r, stage, keys, error, late, ask))
      /\ UNCHANGED <<circuit, faults>>
  BY DEF AcquisitionError
<1>3. Keeps(r, r) /\ SameOwner(r, r)
  BY <1>1, SameKeeps
<1>4. /\ stage \in ExecutableStages /\ keys \in SUBSET IssueKeys
      /\ error \in {"timeout", "other"} /\ error # "timeout"
      /\ late \in BOOLEAN /\ ask \in BOOLEAN
      /\ stage = "dataset" /\ r.stage # "optimize"
      /\ r.stage \in ResearchStages
  BY <1>1 DEF ExecutableStages, ResearchStages, IssueKeys
<1>. HIDE DEF stage, keys, error, late, ask
<1>. QED
  BY <1>1, <1>2, <1>3, <1>4, CountedStep

LEMMA ReviewedKeepsAll ==
  ASSUME NEW r \in WorkOrder, StoreInv(r), r.status = "working", r.stage \in ReviewStages,
         NEW verdict \in {"fail", "incomplete", "unchecked"}
  PROVE  LET x == Reviewed(r, verdict) IN
         /\ x \in WorkOrder /\ Keeps(r, x) /\ SameOwner(r, x) /\ x.status = "working"
         /\ x.stage = r.stage /\ r.agent = "strategy"
<1>. DEFINE x == Reviewed(r, verdict)
<1>a. verdict \in Verdicts
  BY DEF Verdicts
<1>1. /\ x \in WorkOrder /\ x.status = r.status /\ x.stage = r.stage /\ SameOwner(r, x)
  BY <1>a, ReviewedFields
<1>2. /\ StoreInv(x)
      /\ GrantInv(r) => GrantInv(x)
      /\ ShownInv(r) => ShownInv(x)
      /\ ReviewedInv(r) => ReviewedInv(x)
      /\ ProposalInv(r) => ProposalInv(x)
  BY ReviewedKeeps
<1>. HIDE DEF x
<1>3. r.agent = "strategy"
  BY OrderTypes DEF StoreInv, ShapeInv, ReviewStages
<1>4. Keeps(r, x)
  BY <1>2, Zenon DEF Keeps, GateInv
<1>. QED
  BY <1>1, <1>3, <1>4 DEF x

LEMMA ReviewFailsStep ==
  ASSUME SInv, NEW o \in Orders, NEW findings \in SUBSET Findings, NEW ask \in BOOLEAN,
         ReviewFails(o, findings, ask)
  PROVE  Preserved
<1>. DEFINE r == order[o]
            x == Reviewed(r, "fail")
            stage == ReturnStage(x.stage)
            keys == {x.stage} \X findings
            error == "other"
            late == FALSE
<1>1. /\ worker = "turn" /\ active = o /\ r \in WorkOrder /\ StoreInv(r)
      /\ r.status = "working" /\ r.stage \in ReviewStages
  BY HeldFacts DEF ReviewFails, InTurn
<1>2. /\ Requeue(o, Requeued(x, stage, keys, error, late, ask))
      /\ UNCHANGED <<circuit, faults>>
  BY DEF ReviewFails
<1>3. /\ x \in WorkOrder /\ Keeps(r, x) /\ SameOwner(r, x) /\ x.status = "working"
      /\ x.stage = r.stage /\ r.agent = "strategy"
  BY <1>1, ReviewedKeepsAll
<1>. HIDE DEF x
<1>4. /\ stage \in ExecutableStages /\ error \in {"timeout", "other"} /\ error # "timeout"
      /\ late \in BOOLEAN /\ x.stage # "optimize" /\ x.agent = "strategy"
      /\ \/ stage = "strategy"
         \/ stage = "backtest" /\ x.stage # "dataset" /\ x.stage \in ResearchStages
  BY <1>1, <1>3
     DEF ReturnStage, ReviewStages, ExecutableStages, ResearchStages, SameOwner
<1>5. keys \in SUBSET IssueKeys
  <2>1. x.stage \in ExecutableStages
    BY <1>1, <1>3 DEF ReviewStages, ExecutableStages, ResearchStages
  <2>. QED
    BY <2>1 DEF IssueKeys
<1>. HIDE DEF stage, keys, error, late
<1>. QED
  BY <1>1, <1>2, <1>3, <1>4, <1>5, CountedStep

LEMMA ReviewIncompleteStep ==
  ASSUME SInv, NEW o \in Orders, NEW verdict \in {"incomplete", "unchecked"},
         ReviewIncomplete(o, verdict)
  PROVE  Preserved
<1>. DEFINE r == order[o]
            x == Reviewed(r, verdict)
            stage == x.stage
            keys == {<<x.stage, "incomplete">>}
            error == "other"
            late == FALSE
            ask == FALSE
<1>1. /\ worker = "turn" /\ active = o /\ r \in WorkOrder /\ StoreInv(r)
      /\ r.status = "working" /\ r.stage \in ReviewStages
  BY HeldFacts DEF ReviewIncomplete, InTurn
<1>2. /\ Requeue(o, Requeued(x, stage, keys, error, late, ask))
      /\ UNCHANGED <<circuit, faults>>
  BY DEF ReviewIncomplete
<1>3. /\ x \in WorkOrder /\ Keeps(r, x) /\ SameOwner(r, x) /\ x.status = "working"
      /\ x.stage = r.stage
  BY <1>1, ReviewedKeepsAll
<1>. HIDE DEF x
<1>4. /\ stage \in ExecutableStages /\ error \in {"timeout", "other"} /\ error # "timeout"
      /\ late \in BOOLEAN /\ ask \in BOOLEAN /\ stage = x.stage
  BY <1>1, <1>3 DEF ReviewStages, ExecutableStages, ResearchStages
<1>5. keys \in SUBSET IssueKeys
  BY <1>4 DEF IssueKeys
<1>. HIDE DEF stage, keys, error, late, ask
<1>. QED
  BY <1>1, <1>2, <1>3, <1>4, <1>5, CountedStep

LEMMA TimeoutStep ==
  ASSUME SInv, NEW o \in Orders, TurnTimeout(o)
  PROVE  Preserved
<1>. DEFINE r == order[o]
<1>1. /\ worker = "turn" /\ active = o /\ r \in WorkOrder /\ StoreInv(r)
      /\ r.status = "working" /\ r.stage \in ExecutableStages
  BY HeldFacts DEF TurnTimeout, InTurn
<1>2. PICK x \in Interrupted(r) :
        Requeue(o, Requeued(x, x.stage, {<<x.stage, "timeout">>}, "timeout", FALSE, FALSE))
  BY DEF TurnTimeout
<1>3. /\ x \in WorkOrder /\ x.status = "working" /\ x.stage = r.stage /\ SameOwner(r, x)
  BY <1>1, InterruptedFields
<1>4. Keeps(r, x)
  BY <1>1, InterruptedKeeps
<1>. DEFINE stage == x.stage
            keys == {<<x.stage, "timeout">>}
            error == "timeout"
            late == FALSE
            ask == FALSE
<1>5. /\ stage \in ExecutableStages /\ error \in {"timeout", "other"}
      /\ late \in BOOLEAN /\ ask \in BOOLEAN /\ stage = x.stage /\ keys = {<<stage, "timeout">>}
  BY <1>1, <1>3
<1>6. keys \in SUBSET IssueKeys
  BY <1>5 DEF IssueKeys
<1>7. /\ Requeue(o, Requeued(x, stage, keys, error, late, ask))
      /\ UNCHANGED <<circuit, faults>>
  BY <1>2 DEF TurnTimeout
<1>. HIDE DEF stage, keys, error, late, ask
<1>. QED
  BY <1>1, <1>3, <1>4, <1>5, <1>6, <1>7, CountedStep

LEMMA QuotaStep ==
  ASSUME SInv, NEW o \in Orders, TurnQuota(o)
  PROVE  Preserved
<1>. DEFINE r == order[o]
<1>1. /\ worker = "turn" /\ active = o /\ r \in WorkOrder /\ StoreInv(r)
      /\ r.status = "working" /\ "quota" \in Events /\ circuit' = "open" /\ faults' = faults + 1
  BY HeldFacts DEF TurnQuota, InTurn, Fault
<1>2. PICK x \in Interrupted(r) : Requeue(o, Paused(x, "quota", TRUE))
  BY DEF TurnQuota
<1>3. /\ x \in WorkOrder /\ x.status = "working" /\ x.stage = r.stage /\ SameOwner(r, x)
  BY <1>1, InterruptedFields
<1>4. Keeps(r, x)
  BY <1>1, InterruptedKeeps
<1>. DEFINE error == "quota"
            late == TRUE
            n == Paused(x, error, late)
<1>5. error \in {"quota", "other"} /\ late \in BOOLEAN /\ Requeue(o, n)
  BY <1>2
<1>. HIDE DEF late
<1>6. /\ n \in WorkOrder /\ n.status = "queued" /\ n.stage = x.stage /\ n.error = error
      /\ SameWork(x, n)
  BY <1>3, <1>5, PausedFields
<1>. HIDE DEF n
<1>7. StoreInv(n) /\ (GateInv(x) => GateInv(n))
  <2>1. StoreInv(x)
    BY <1>4 DEF Keeps
  <2>. QED
    BY <1>3, <1>6, <2>1, SameWorkKeeps
<1>8. SameOwner(r, n)
  BY <1>3, <1>6 DEF SameWork, SameOwner
<1>9. Moved(r, n)
  BY <1>1, <1>3, <1>6, <1>8, LiveMoved
<1>10. ~FailedReviewShown(n)
  BY <1>6, FailedShown
<1>11. GateInv(r) => GateInv(n)
  BY <1>4, <1>7, Zenon DEF Keeps
<1>12. Kept(r, n)
  BY <1>1, <1>6, <1>7, <1>8, <1>9, <1>10, <1>11, Zenon DEF Kept, Sound
<1>13. circuit' \in {"closed", "open"} /\ faults' \in Nat
  BY <1>1 DEF SInv, TypeOK
<1>. QED
  BY <1>1, <1>5, <1>6, <1>8, <1>12, <1>13, RequeueStep

LEMMA ErrorStep ==
  ASSUME SInv, NEW o \in Orders, TurnError(o)
  PROVE  Preserved
<1>1. active = o /\ worker \in {"created", "dataset", "turn"} /\ Fail(o)
  BY DEF TurnError
<1>2. order[o].status = "working"
  BY <1>1, HeldFacts
<1>. QED
  BY <1>1, <1>2, FailStep

LEMMA MaintenanceStep ==
  ASSUME SInv, NEW o \in Orders, MaintenanceTurn(o)
  PROVE  Preserved
<1>. DEFINE r == order[o]
<1>1. /\ worker = "turn" /\ active = o /\ r.stage = "maintenance" /\ worker' = "closing"
      /\ UNCHANGED <<order, circuit, deadLetters, blocked, active, cancelRequested, faults>>
  BY DEF MaintenanceTurn, InTurn
<1>2. order' \in [Orders -> WorkOrder] /\ \A p \in Orders : Kept(order[p], order'[p])
  BY <1>1, IdleStep
<1>3. TypeOK' /\ OperatorQueuesAgree' /\ OwnInv'
  BY <1>1, <1>2 DEF SInv, TypeOK, OperatorQueuesAgree, OwnInv, WorkerStates, Executing
<1>4. ~OwnedInv
  BY <1>1, OrderFacts DEF OwnedInv, StoreInv, ShapeInv
<1>. QED
  BY <1>2, <1>3, <1>4 DEF Preserved

LEMMA StrategyStep ==
  ASSUME SInv, NEW o \in Orders, StrategyTurn(o)
  PROVE  Preserved
<1>. DEFINE r == order[o]
            Left == {r.manifests, r.manifests \cup {r.made + 1}}
            written(m) == [r EXCEPT !.made = r.made + 1, !.manifests = m,
                                    !.results.strategy = r.made + 1]
<1>1. /\ worker = "turn" /\ active = o /\ r \in WorkOrder /\ StoreInv(r)
      /\ r.status = "working" /\ r.stage = "strategy" /\ r.made \in Nat /\ r.version \in Int
      /\ r.manifests \in SUBSET Nat
  BY HeldFacts, OrderTypes DEF StrategyTurn, InTurn
<1>. DEFINE Outcome(m, b) ==
              LET n == Checkpoint(Written(r, m, b), "review_implementation") IN
              \/ b = 0 /\ HandOver(o, n)
              \/ b # 0 /\ Recordable(n) /\ HandOver(o, Recorded(n))
              \/ /\ b # 0 /\ ~Recordable(n) /\ Put(o, Failed(n)) /\ worker' = "raising"
                 /\ UNCHANGED <<circuit, deadLetters, blocked, active, cancelRequested, faults>>
<1>c. PICK manifests \in Left : \E b \in Bindings(written(manifests)) : Outcome(manifests, b)
  BY DEF StrategyTurn, Written
<1>2. PICK bound \in Bindings(written(manifests)) : Outcome(manifests, bound)
  BY <1>c
<1>a. manifests \in SUBSET Nat
  BY <1>1
<1>3. /\ bound \in {r.version, 0} \cup manifests /\ bound \in Int
      /\ r.version # 0 => bound = r.version
      /\ bound = 0 /\ (\A m, n \in manifests : m = n) => manifests = {}
  <2>1. written(manifests).manifests = manifests /\ written(manifests).version = r.version
    BY <1>1 DEF WorkOrder
  <2>2. 0 \notin manifests
    BY <1>1 DEF StoreInv, VersionInv
  <2>3. bound \in Bindings(written(manifests))
    BY <1>2
  <2>. HIDE DEF written
  <2>4. CASE r.version # 0
    BY <1>1, <2>1, <2>3, <2>4 DEF Bindings
  <2>5. CASE r.version = 0 /\ manifests # {} /\ Recordable(written(manifests))
    BY <1>a, <2>1, <2>2, <2>3, <2>5 DEF Bindings
  <2>6. CASE r.version = 0 /\ ~(manifests # {} /\ Recordable(written(manifests)))
    BY <1>a, <2>1, <2>3, <2>6 DEF Bindings, Recordable
  <2>. QED
    BY <2>4, <2>5, <2>6
<1>. DEFINE w == Written(r, manifests, bound)
            c == Checkpoint(w, "review_implementation")
<1>4. /\ w \in WorkOrder /\ w.status = r.status /\ w.error = r.error
      /\ SameOwner(r, w) /\ SameGrants(r, w) /\ SameBudget(r, w)
      /\ w.made = r.made + 1 /\ w.manifests = manifests /\ w.version = bound
      /\ w.results.strategy = r.made + 1 /\ w.results.dataset = r.results.dataset
      /\ w.results.review_implementation = r.results.review_implementation
      /\ w.results.backtest = r.results.backtest
      /\ w.results.review_backtest = r.results.review_backtest
      /\ w.results.optimization = r.results.optimization
  BY <1>1, <1>3, <1>a, WrittenFields
<1>. HIDE DEF w
<1>5. /\ c \in WorkOrder /\ c.status = w.status /\ c.stage = "review_implementation"
      /\ c.error = w.error /\ SameWork(w, c)
  <2>1. "review_implementation" \in Stages
    BY DEF Stages, ExecutableStages
  <2>. QED
    BY <1>4, <2>1, CheckpointFields
<1>. HIDE DEF c
<1>6. /\ c.results = w.results /\ c.made = r.made + 1 /\ c.version = bound
      /\ c.manifests = manifests
      /\ SameOwner(r, c) /\ SameBudget(r, c)
  BY <1>4, <1>5 DEF SameWork, SameOwner, SameBudget, SameVersion
<1>b. c.version = 0 /\ Recordable(c) => c.manifests = {}
  BY <1>3, <1>6 DEF Recordable
<1>. HIDE DEF Left
<1>7. Keeps(r, c)
  <2>1. c.manifests \in {r.manifests, r.manifests \cup {r.made + 1}}
    BY <1>6 DEF Left
  <2>. QED
    BY <1>1, <1>3, <1>4, <1>5, <1>6, <1>b, <2>1, ToReviewKeeps
<1>8. CASE bound = 0 /\ HandOver(o, c)
  <2>1. Kept(r, c)
    BY <1>1, <1>4, <1>5, <1>6, <1>7, WorkingKept DEF ResearchStages
  <2>. QED
    BY <1>1, <1>4, <1>5, <1>6, <1>8, <2>1, HandOverStep
<1>9. CASE bound # 0 /\ Recordable(c) /\ HandOver(o, Recorded(c))
  <2>. DEFINE n == Recorded(c)
  <2>1. /\ n \in WorkOrder /\ n.status = c.status /\ n.stage = c.stage /\ n.error = c.error
        /\ SameOwner(c, n) /\ SameBudget(c, n)
        /\ n.results = c.results /\ n.version = c.version /\ n.made = c.made
        /\ n.manifests = c.manifests
    BY <1>5, RecordedFields
  <2>2. HandOver(o, n)
    BY <1>9
  <2>. HIDE DEF n
  <2>3. SameOwner(r, n) /\ SameBudget(r, n)
    BY <1>6, <2>1 DEF SameOwner, SameBudget
  <2>4. Keeps(r, n)
    <3>1. n.manifests \in {r.manifests, r.manifests \cup {r.made + 1}}
      BY <1>6, <2>1 DEF Left
    <3>. QED
      BY <1>1, <1>3, <1>4, <1>5, <1>6, <1>9, <2>1, <2>3, <3>1, ToReviewKeeps
  <2>5. Kept(r, n)
    BY <1>1, <1>4, <1>5, <2>1, <2>3, <2>4, WorkingKept DEF ResearchStages
  <2>. QED
    BY <1>1, <1>4, <1>5, <2>1, <2>2, <2>3, <2>5, HandOverStep
<1>10. CASE /\ Put(o, Failed(c)) /\ worker' = "raising"
            /\ UNCHANGED <<circuit, deadLetters, blocked, active, cancelRequested, faults>>
  <2>. DEFINE n == Failed(c)
  <2>1. StoreInv(c)
    BY <1>7 DEF Keeps
  <2>2. Kept(r, n) /\ SameOwner(r, n) /\ n.status = "failed"
    BY <1>1, <1>4, <1>5, <1>6, <2>1, FailedKept
  <2>3. Put(o, n)
    BY <1>10
  <2>. HIDE DEF n
  <2>. QED
    BY <1>1, <1>10, <2>2, <2>3, EndStep
<1>. QED
  BY <1>2, <1>8, <1>9, <1>10 DEF c, w

LEMMA BacktestStep ==
  ASSUME SInv, NEW o \in Orders, BacktestTurn(o)
  PROVE  Preserved
<1>. DEFINE r == order[o]
            run == r.runs + 1
            new == [of |-> r.results.strategy, run |-> run]
<1>1. /\ worker = "turn" /\ active = o /\ r \in WorkOrder /\ StoreInv(r)
      /\ r.status = "working" /\ r.stage = "backtest"
  BY HeldFacts DEF BacktestTurn, InTurn
<1>2. /\ r.runs \in Nat /\ r.report \in Evidence /\ r.results.strategy \in Int
      /\ run \in Nat /\ run > 0
  BY <1>1, OrderTypes, ResultTypes
<1>3. PICK first \in FirstReports(r, new) :
        HandOver(o, Checkpoint(Completed(r, new, first), "review_backtest"))
  BY DEF BacktestTurn, Completed
<1>4. new \in Evidence /\ new.run = run /\ new.of = r.results.strategy /\ new # NoEvidence
  BY <1>2 DEF Evidence, NoEvidence
<1>5. first \in Evidence
  BY <1>2, <1>3, <1>4 DEF FirstReports
<1>. DEFINE b == Completed(r, new, first)
            n == Checkpoint(b, "review_backtest")
<1>6. /\ b \in WorkOrder /\ b.status = r.status /\ b.error = r.error
      /\ SameOwner(r, b) /\ SameGrants(r, b) /\ SameBudget(r, b) /\ SameVersion(r, b)
      /\ b.results.strategy = r.results.strategy
      /\ b.results.review_implementation = r.results.review_implementation
      /\ b.results.backtest = new
      /\ b.results.review_backtest = r.results.review_backtest
      /\ b.results.optimization = r.results.optimization
  <2>. HIDE DEF new
  <2>. QED
    BY <1>1, <1>4, <1>5, BacktestFields
<1>7. HandOver(o, n)
  BY <1>3
<1>. HIDE DEF b, new
<1>8. /\ n \in WorkOrder /\ n.status = b.status /\ n.stage = "review_backtest"
      /\ n.error = b.error /\ SameWork(b, n)
  <2>1. "review_backtest" \in Stages
    BY DEF Stages, ExecutableStages, ResearchStages
  <2>. QED
    BY <1>6, <2>1, CheckpointFields
<1>. HIDE DEF n
<1>9. n.results = b.results /\ SameOwner(r, n) /\ SameGrants(r, n)
  BY <1>6, <1>8 DEF SameWork, SameOwner, SameGrants
<1>10. SameBudget(r, n) /\ SameVersion(r, n)
  BY <1>6, <1>8 DEF SameWork, SameBudget, SameVersion
<1>11. Keeps(r, n)
  BY <1>1, <1>4, <1>6, <1>8, <1>9, <1>10, ToBacktestReviewKeeps
<1>12. Kept(r, n)
  BY <1>1, <1>6, <1>8, <1>9, <1>11, WorkingKept DEF ResearchStages
<1>. QED
  BY <1>1, <1>6, <1>7, <1>8, <1>9, <1>12, HandOverStep

\* A gate opens, or the registry write before it fails.
LEMMA PresentStep ==
  ASSUME SInv, NEW o \in Orders, active = o, worker \in {"created", "dataset", "turn"},
         NEW x \in WorkOrder, Keeps(order[o], x), SameOwner(order[o], x),
         x.status = "working", x.stage = order[o].stage,
         NEW gate \in {"implementation", "optimization", "backtest"}, Passed(x, gate),
         Present(o, x, gate)
  PROVE  Preserved
<1>. DEFINE r == order[o]
<1>1. /\ r \in WorkOrder /\ StoreInv(r) /\ r.status = "working" /\ StoreInv(x)
      /\ UNCHANGED <<circuit, deadLetters, blocked, active, cancelRequested, faults>>
  BY HeldFacts DEF Keeps, Present
<1>2. CASE ~Recordable(x)
  <2>. DEFINE n == Failed(x)
  <2>1. Kept(r, n) /\ SameOwner(r, n) /\ n.status = "failed"
    BY <1>1, FailedKept
  <2>2. Put(o, n) /\ worker' = "raising"
    BY <1>2 DEF Present
  <2>. HIDE DEF n
  <2>. QED
    BY <1>1, <2>1, <2>2, EndStep
<1>3. CASE Recordable(x)
  <2>. DEFINE status == AwaitingStatus(gate)
              n == Recorded(Finished(x, status, "approval"))
  <2>1. Put(o, n) /\ worker' = "closing"
    BY <1>3 DEF Present
  <2>2. Keeps(x, n)
    BY <1>1, <1>3, GateKeeps DEF Gates
  <2>3. status \in Statuses /\ "approval" \in Stages
    BY StatusSets DEF Statuses, Stages
  <2>. HIDE DEF status
  <2>4. /\ n \in WorkOrder /\ n.status = status /\ n.stage = "approval"
        /\ SameOwner(x, n) /\ n.results = x.results
    BY <2>3, FinishFields
  <2>. HIDE DEF n
  <2>5. SameOwner(r, n)
    BY <2>4 DEF SameOwner
  <2>6. status \in {"awaiting_implementation_approval", "awaiting_optimization_approval",
                    "awaiting_backtest_approval"}
    BY StatusSets DEF status
  <2>7. ~FailedReviewShown(n)
    <3>1. CASE gate = "implementation"
      BY <2>4, <3>1, StatusSets, FailedShown DEF status, Passed
    <3>2. CASE gate = "optimization"
      BY <2>4, <3>2, StatusSets, FailedShown DEF status
    <3>3. CASE gate = "backtest"
      BY <2>4, <3>3, StatusSets, FailedShown DEF status, Passed
    <3>. QED
      BY <3>1, <3>2, <3>3
  <2>8. Moved(r, n)
    <3>1. n.inherited = r.inherited /\ n.backtestRequired = r.backtestRequired
          /\ r.inherited \in BOOLEAN
      BY <1>1, <2>5, OrderTypes DEF SameOwner
    <3>2. CASE r.inherited
      BY <3>1, <3>2, PhaseOf DEF Moved
    <3>3. CASE ~r.inherited
      <4>1. Phase(r) = LivePhase(r)
        BY <1>1, <3>3, PhaseOf
      <4>2. CASE gate = "implementation"
        <5>1. r.stage = "review_implementation"
          BY <4>2 DEF Passed
        <5>2. Phase(n) = "implementation_gate"
          BY <2>4, <3>1, <3>3, <4>2, StatusSets, PhaseOf DEF status
        <5>. QED
          BY <3>1, <4>1, <5>1, <5>2 DEF Moved, LivePhase, ResearchStages
      <4>3. CASE gate = "optimization"
        <5>1. r.stage = "optimize"
          BY <4>3 DEF Passed
        <5>2. Phase(n) = "researching"
          BY <2>4, <3>1, <3>3, <4>3, StatusSets, PhaseOf DEF status
        <5>. QED
          BY <3>1, <4>1, <5>1, <5>2 DEF Moved, LivePhase, ResearchStages
      <4>4. CASE gate = "backtest"
        <5>1. r.stage = "review_backtest" /\ r.backtestRequired
          BY <1>1, <4>4 DEF Passed, StoreInv, ShapeInv, ResearchStages
        <5>2. Phase(n) = "backtest_gate"
          BY <2>4, <3>1, <3>3, <4>4, StatusSets, PhaseOf DEF status
        <5>. QED
          BY <3>1, <4>1, <5>1, <5>2 DEF Moved, LivePhase, ResearchStages
      <4>. QED
        BY <4>2, <4>3, <4>4
    <3>. QED
      BY <3>1, <3>2, <3>3
  <2>9. Kept(r, n)
    <3>1. Keeps(r, n)
      BY <2>2, Zenon DEF Keeps
    <3>. QED
      BY <2>4, <2>5, <2>7, <2>8, <3>1, Zenon DEF Kept, Keeps, Sound
  <2>. QED
    BY <1>1, <2>1, <2>4, <2>5, <2>6, <2>9, EndStep
<1>. QED
  BY <1>2, <1>3

LEMMA ReviewPassesStep ==
  ASSUME SInv, NEW o \in Orders, ReviewPasses(o)
  PROVE  Preserved
<1>. DEFINE r == order[o]
            x == Reviewed(r, "pass")
<1>1. /\ worker = "turn" /\ active = o /\ r \in WorkOrder /\ StoreInv(r)
      /\ r.status = "working" /\ r.stage \in ReviewStages
  BY HeldFacts DEF ReviewPasses, InTurn
<1>2. "pass" \in Verdicts
  BY DEF Verdicts
<1>3. /\ x \in WorkOrder /\ x.status = r.status /\ x.stage = r.stage /\ x.error = r.error
      /\ SameOwner(r, x) /\ SameGrants(r, x) /\ SameBudget(r, x) /\ SameVersion(r, x)
      /\ x.results.strategy = r.results.strategy /\ x.results.backtest = r.results.backtest
      /\ r.stage = "review_implementation" =>
           x.results.review_implementation = [of |-> r.results.strategy, verdict |-> "pass"]
      /\ r.stage # "review_implementation" =>
           /\ x.results.review_implementation = r.results.review_implementation
           /\ x.results.review_backtest = [of |-> r.results.backtest.run, verdict |-> "pass"]
  BY <1>1, <1>2, ReviewedFields
<1>4. /\ StoreInv(x)
      /\ GrantInv(r) => GrantInv(x)
      /\ ShownInv(r) => ShownInv(x)
      /\ ReviewedInv(r) => ReviewedInv(x)
      /\ ProposalInv(r) /\ (r.stage = "review_backtest" => ~OptimizationRequired(r)) =>
           ProposalInv(x)
  BY <1>1, ReviewedKeeps
<1>5. IF x.stage = "review_backtest" /\ OptimizationRequired(x)
      THEN HandOver(o, Checkpoint(x, "optimize"))
      ELSE Present(o, x, IF x.stage = "review_implementation" THEN "implementation"
                         ELSE "backtest")
  BY DEF ReviewPasses
<1>. HIDE DEF x
<1>6. OptimizationRequired(x) <=> OptimizationRequired(r)
  BY <1>3 DEF OptimizationRequired, SameOwner
<1>7. CASE r.stage = "review_backtest" /\ OptimizationRequired(r)
  <2>. DEFINE n == Checkpoint(x, "optimize")
  <2>1. HandOver(o, n)
    BY <1>3, <1>5, <1>6, <1>7
  <2>2. "optimize" \in Stages
    BY DEF Stages, ExecutableStages, ResearchStages
  <2>3. /\ n \in WorkOrder /\ n.status = x.status /\ n.stage = "optimize"
        /\ n.error = x.error /\ SameWork(x, n)
    BY <1>3, <2>2, CheckpointFields
  <2>. HIDE DEF n
  <2>4. n.results = x.results /\ SameOwner(r, n) /\ SameGrants(r, n)
    BY <1>3, <2>3 DEF SameWork, SameOwner, SameGrants
  <2>5. SameBudget(r, n) /\ SameVersion(r, n)
    BY <1>3, <2>3 DEF SameWork, SameBudget, SameVersion
  <2>6. r.results.backtest # NoEvidence
    BY <1>1, <1>7 DEF StoreInv, EvidenceInv
  <2>7. /\ StoreInv(n) /\ (GateInv(r) => GateInv(n))
        /\ ReviewedInv(r) /\ n.results.review_backtest.verdict = "pass" => ReviewedInv(n)
    BY <1>1, <1>3, <1>7, <2>3, <2>4, <2>5, <2>6, ToOptimizeKeeps
  <2>8. n.results.review_backtest.verdict = "pass"
    BY <1>3, <1>7, <2>4
  <2>9. Keeps(r, n)
    BY <2>7, <2>8 DEF Keeps
  <2>10. Kept(r, n)
    BY <1>1, <1>3, <1>7, <2>3, <2>4, <2>9, WorkingKept DEF ResearchStages
  <2>. QED
    BY <1>1, <1>3, <2>1, <2>3, <2>4, <2>10, HandOverStep
<1>8. CASE ~(r.stage = "review_backtest" /\ OptimizationRequired(r))
  <2>. DEFINE gate == IF x.stage = "review_implementation" THEN "implementation"
                      ELSE "backtest"
  <2>1. Present(o, x, gate)
    BY <1>3, <1>5, <1>6, <1>8
  <2>2. Keeps(r, x)
    BY <1>4, <1>8, Zenon DEF Keeps, GateInv
  <2>3. Passed(x, gate)
    <3>1. CASE r.stage = "review_implementation"
      BY <1>3, <3>1 DEF Passed
    <3>2. CASE r.stage = "review_backtest"
      BY <1>3, <1>6, <1>8, <3>2 DEF Passed
    <3>. QED
      BY <1>1, <3>1, <3>2 DEF ReviewStages
  <2>4. gate \in {"implementation", "optimization", "backtest"}
    OBVIOUS
  <2>. HIDE DEF gate
  <2>. QED
    BY <1>1, <1>3, <2>1, <2>2, <2>3, <2>4, PresentStep
<1>. QED
  BY <1>7, <1>8

LEMMA OptimizationStep ==
  ASSUME SInv, NEW o \in Orders, NEW complete \in BOOLEAN, OptimizationTurn(o, complete)
  PROVE  Preserved
<1>. DEFINE r == order[o]
            proposal == IF complete THEN "proposal" ELSE "incomplete"
            x == [r EXCEPT !.results.optimization = proposal]
<1>1. /\ worker = "turn" /\ active = o /\ r \in WorkOrder /\ StoreInv(r)
      /\ r.status = "working" /\ r.stage = "optimize"
  BY HeldFacts DEF OptimizationTurn, InTurn
<1>2. \/ complete /\ Present(o, x, "optimization")
      \/ /\ ~complete /\ UNCHANGED <<circuit, faults>>
         /\ Requeue(o, Requeued(x, "optimize", {<<"optimize", "incomplete">>},
                                "other", FALSE, FALSE))
  BY DEF OptimizationTurn
<1>3. proposal \in {"proposal", "incomplete"} /\ (complete => proposal = "proposal")
  OBVIOUS
<1>. HIDE DEF proposal
<1>4. /\ x \in WorkOrder /\ x.status = r.status /\ x.stage = r.stage /\ x.error = r.error
      /\ SameOwner(r, x) /\ SameGrants(r, x) /\ SameBudget(r, x) /\ SameVersion(r, x)
      /\ x.results.strategy = r.results.strategy
      /\ x.results.review_implementation = r.results.review_implementation
      /\ x.results.backtest = r.results.backtest
      /\ x.results.review_backtest = r.results.review_backtest
      /\ x.results.optimization = proposal
  BY <1>1, <1>3, ProposalFields
<1>. HIDE DEF x
<1>5. Keeps(r, x)
  BY <1>1, <1>4, ProposalKeeps
<1>6. CASE complete /\ Present(o, x, "optimization")
  <2>1. Passed(x, "optimization")
    BY <1>1, <1>3, <1>4, <1>6 DEF Passed
  <2>. QED
    BY <1>1, <1>4, <1>5, <1>6, <2>1, PresentStep
<1>7. CASE /\ UNCHANGED <<circuit, faults>>
           /\ Requeue(o, Requeued(x, "optimize", {<<"optimize", "incomplete">>},
                                  "other", FALSE, FALSE))
  <2>. DEFINE stage == "optimize"
              keys == {<<"optimize", "incomplete">>}
              error == "other"
              late == FALSE
              ask == FALSE
  <2>1. /\ stage \in ExecutableStages /\ keys \in SUBSET IssueKeys
        /\ error \in {"timeout", "other"} /\ error # "timeout"
        /\ late \in BOOLEAN /\ ask \in BOOLEAN /\ stage = x.stage
    BY <1>1, <1>4 DEF ExecutableStages, ResearchStages, IssueKeys
  <2>2. Requeue(o, Requeued(x, stage, keys, error, late, ask))
    BY <1>7
  <2>. HIDE DEF stage, keys, error, late, ask
  <2>. QED
    BY <1>1, <1>4, <1>5, <1>7, <2>1, <2>2, CountedStep
<1>. QED
  BY <1>2, <1>6, <1>7

-----------------------------------------------------------------------------
(* The Gateway                                                             *)

\* What the recovery pass does to a record, whatever gate it was found at.
StartedAs(r, n) ==
  /\ n \in WorkOrder /\ StoreInv(n) /\ SameOwner(r, n) /\ n.status # "working"
  /\ GateInv(r) => Sound(n) /\ Moved(r, n)
  /\ GateInv(r) /\ ReviewedInv(r) => ReviewedInv(n)

LEMMA Started ==
  ASSUME NEW r \in WorkOrder, StoreInv(r), NEW ask \in BOOLEAN, NEW q, NEW n,
         RepairedAs(r, q, ask), RecoveredAs(q, n)
  PROVE  StartedAs(r, n)
<1>1. /\ q \in WorkOrder /\ n \in WorkOrder /\ Keeps(r, q) /\ Keeps(q, n)
      /\ SameOwner(r, q) /\ SameOwner(q, n) /\ n.status # "working" /\ ~FailedReviewShown(n)
  BY DEF RepairedAs, RecoveredAs
<1>2. SameOwner(r, n)
  BY <1>1 DEF SameOwner
<1>3. /\ StoreInv(n) /\ (GateInv(r) => GateInv(n))
      /\ GateInv(r) /\ ReviewedInv(r) => ReviewedInv(n)
  BY <1>1, Zenon DEF Keeps
<1>4. ASSUME GateInv(r) PROVE Moved(r, n)
  <2>1. n.inherited = r.inherited /\ n.backtestRequired = r.backtestRequired
        /\ q.backtestRequired = r.backtestRequired
        /\ r.inherited \in BOOLEAN
    BY <1>1, <1>2, OrderTypes DEF SameOwner
  <2>2. CASE r.inherited
    BY <2>1, <2>2, PhaseOf DEF Moved
  <2>3. CASE ~r.inherited
    <3>1. ~OptimizerRegressed(r)
      BY <1>4 DEF GateInv, ProposalInv, OptimizerRegressed
    <3>2. ~PassMisread(r)
      BY <2>3 DEF StoreInv, BudgetInv, PassMisread, FirstLinePasses
    <3>3. ~FailedReviewShown(r)
      BY <1>4, <2>3 DEF GateInv, ShownInv, Acceptable
    <3>4. /\ q.status = IF r.status = "working" THEN "queued" ELSE r.status
          /\ q.stage = r.stage
      BY <3>1, <3>2, <3>3 DEF RepairedAs, Revived
    <3>5. \/ n.status = q.status /\ n.stage = q.stage
          \/ /\ q.status = "queued" /\ q.stage = "backtest" /\ q.backtestRequired
             /\ \/ n.status = "queued" /\ n.stage = "optimize"
                \/ n.status = "awaiting_backtest_approval"
      BY DEF RecoveredAs
    <3>6. CASE n.status = r.status /\ n.stage = r.stage
      <4>1. Phase(n) = Phase(r)
        BY <2>1, <2>3, <3>6 DEF Phase
      <4>. QED
        BY <2>1, <4>1 DEF Moved
    <3>7. CASE r.status \in {"queued", "working"} /\ n.status = "queued" /\ n.stage = r.stage
      <4>1. Phase(n) = Phase(r)
        BY <2>1, <2>3, <3>7, PhaseOf DEF LivePhase
      <4>. QED
        BY <2>1, <4>1 DEF Moved
    <3>8. CASE /\ r.status \in {"queued", "working"} /\ r.stage = "backtest"
               /\ r.backtestRequired
               /\ \/ n.status = "queued" /\ n.stage = "optimize"
                  \/ n.status = "awaiting_backtest_approval"
      <4>1. Phase(r) = "researching"
        BY <2>3, <3>8, PhaseOf DEF LivePhase, ResearchStages
      <4>2. Phase(n) \in {"researching", "backtest_gate"}
        BY <2>1, <2>3, <3>8, PhaseOf DEF LivePhase, ResearchStages
      <4>. QED
        BY <2>1, <3>8, <4>1, <4>2 DEF Moved
    <3>. QED
      BY <2>1, <3>4, <3>5, <3>6, <3>7, <3>8
  <2>. QED
    BY <2>1, <2>2, <2>3
<1>. QED
  BY <1>1, <1>2, <1>3, <1>4, Zenon DEF StartedAs, Sound

LEMMA StartStep ==
  ASSUME SInv, NEW stored \in [Orders -> WorkOrder], StartWorker(stored),
         \A o \in Orders : /\ StoreInv(stored[o]) /\ stored[o].status = order[o].status
                           /\ SameOwner(order[o], stored[o]),
         circuit' \in {"closed", "open"}, UNCHANGED <<cancelRequested, faults>>
  PROVE  /\ TypeOK' /\ OperatorQueuesAgree' /\ OwnInv' /\ worker' = "polling"
         /\ \A o \in Orders : StartedAs(stored[o], order'[o])
         /\ OwnedInv => OwnedInv'
<1>1. PICK asking \in SUBSET {o \in Orders : FailedReviewShown(stored[o])} :
        LET repaired == [o \in Orders |-> Repaired(stored[o], o \in asking)] IN
        /\ order' = [o \in Orders |-> ClearRetry(RecoverBacktest(repaired[o]))]
        /\ deadLetters' = [o \in Orders |->
             IF Revived(stored[o]) THEN 0
             ELSE IF FailedReviewShown(stored[o]) /\ repaired[o].status = "dead_letter"
             THEN deadLetters[o] + 1 ELSE deadLetters[o]]
        /\ blocked' = blocked \cup {o \in asking : repaired[o].status = "awaiting_user_input"}
        /\ worker' = "polling" /\ active' = 0
  BY DEF StartWorker
<1>. DEFINE repaired == [o \in Orders |-> Repaired(stored[o], o \in asking)]
<1>2. \A o \in Orders : RepairedAs(stored[o], repaired[o], o \in asking)
  <2>. SUFFICES ASSUME NEW o \in Orders
                PROVE  RepairedAs(stored[o], repaired[o], o \in asking)
    OBVIOUS
  <2>. DEFINE ask == o \in asking
  <2>1. ask \in BOOLEAN /\ repaired[o] = Repaired(stored[o], ask)
    OBVIOUS
  <2>. HIDE DEF ask, repaired
  <2>2. RepairedAs(stored[o], repaired[o], ask)
    BY <2>1, RepairedKeeps
  <2>. QED
    BY <2>2 DEF ask
<1>3. /\ order' = [o \in Orders |-> ClearRetry(RecoverBacktest(repaired[o]))]
      /\ deadLetters' = [o \in Orders |->
           IF Revived(stored[o]) THEN 0
           ELSE IF FailedReviewShown(stored[o]) /\ repaired[o].status = "dead_letter"
           THEN deadLetters[o] + 1 ELSE deadLetters[o]]
      /\ blocked' = blocked \cup {o \in asking : repaired[o].status = "awaiting_user_input"}
      /\ worker' = "polling" /\ active' = 0
      /\ \A o \in asking : o \in Orders /\ FailedReviewShown(stored[o])
  BY <1>1
<1>. HIDE DEF repaired
<1>4. \A o \in Orders : RecoveredAs(repaired[o], order'[o])
  <2>. SUFFICES ASSUME NEW o \in Orders PROVE RecoveredAs(repaired[o], order'[o])
    OBVIOUS
  <2>1. order'[o] = ClearRetry(RecoverBacktest(repaired[o]))
    BY <1>3
  <2>2. repaired[o] \in WorkOrder /\ StoreInv(repaired[o])
    BY <1>2 DEF RepairedAs, Keeps
  <2>. QED
    BY <2>1, <2>2, RecoveredKeeps
<1>5. \A o \in Orders : StartedAs(stored[o], order'[o])
  <2>. SUFFICES ASSUME NEW o \in Orders PROVE StartedAs(stored[o], order'[o])
    OBVIOUS
  <2>. DEFINE ask == o \in asking
  <2>1. ask \in BOOLEAN /\ RepairedAs(stored[o], repaired[o], ask)
    BY <1>2
  <2>. HIDE DEF ask
  <2>. QED
    BY <1>4, <2>1, Started
<1>6. TypeOK'
  <2>1. order' \in [Orders -> WorkOrder]
    <3>1. \A o \in Orders : order'[o] \in WorkOrder
      BY <1>5 DEF StartedAs
    <3>. QED
      BY <1>3, <3>1
  <2>2. deadLetters' \in [Orders -> Nat]
    BY <1>3 DEF SInv, TypeOK
  <2>3. blocked' \in SUBSET (Orders \cup {Login})
    BY <1>3 DEF SInv, TypeOK
  <2>. QED
    BY <1>3, <2>1, <2>2, <2>3, BoundsAssumption DEF SInv, TypeOK, WorkerStates
<1>7. OperatorQueuesAgree'
  <2>. SUFFICES ASSUME NEW o \in Orders
                PROVE  /\ deadLetters'[o] = IF order'[o].status = "dead_letter" THEN 1 ELSE 0
                       /\ o \in blocked' <=> order'[o].status = "awaiting_user_input"
    BY DEF OperatorQueuesAgree
  <2>. DEFINE r == stored[o]
              q == repaired[o]
  <2>1. /\ order'[o].status = "dead_letter" <=> q.status = "dead_letter"
        /\ order'[o].status = "awaiting_user_input" <=> q.status = "awaiting_user_input"
    BY <1>4 DEF RecoveredAs
  <2>2. /\ deadLetters[o] = IF r.status = "dead_letter" THEN 1 ELSE 0
        /\ o \in blocked <=> r.status = "awaiting_user_input"
    BY DEF SInv, OperatorQueuesAgree
  <2>3. /\ Revived(r) => q.status \notin {"dead_letter", "awaiting_user_input"}
        /\ o \notin asking => (q.status = "awaiting_user_input" => r.status = "awaiting_user_input")
        /\ ~Revived(r) /\ ~FailedReviewShown(r) =>
             q.status = IF r.status = "working" THEN "queued" ELSE r.status
    BY <1>2 DEF RepairedAs
  <2>4. /\ FailedReviewShown(r) => r.status \notin {"dead_letter", "awaiting_user_input"}
        /\ Revived(r) => r.status = "dead_letter"
    BY FailedShown DEF Revived, OptimizerRegressed, PassMisread, FirstLinePasses
  <2>5. deadLetters'[o] = IF Revived(r) THEN 0
                          ELSE IF FailedReviewShown(r) /\ q.status = "dead_letter"
                          THEN deadLetters[o] + 1 ELSE deadLetters[o]
    BY <1>3
  <2>6. /\ o \in asking => FailedReviewShown(r)
        /\ o \in blocked' <=> o \in blocked \/ (o \in asking /\ q.status = "awaiting_user_input")
    BY <1>3
  <2>. HIDE DEF r, q
  <2>7. deadLetters'[o] = IF order'[o].status = "dead_letter" THEN 1 ELSE 0
    <3>1. CASE Revived(r)
      BY <3>1, <2>1, <2>3, <2>5
    <3>2. CASE ~Revived(r) /\ FailedReviewShown(r)
      BY <3>2, <2>1, <2>2, <2>4, <2>5
    <3>3. CASE ~Revived(r) /\ ~FailedReviewShown(r)
      BY <3>3, <2>1, <2>2, <2>3, <2>5
    <3>. QED
      BY <3>1, <3>2, <3>3
  <2>8. o \in blocked' <=> order'[o].status = "awaiting_user_input"
    <3>1. CASE o \in asking
      BY <3>1, <2>1, <2>2, <2>4, <2>6
    <3>2. CASE o \notin asking
      BY <3>2, <2>1, <2>2, <2>3, <2>4, <2>6
    <3>. QED
      BY <3>1, <3>2
  <2>. QED
    BY <2>7, <2>8
<1>8. OwnInv'
  BY <1>3 DEF OwnInv
<1>9. OwnedInv => OwnedInv'
  <2>1. \A o \in Orders : order'[o].status # "working" /\ order'[o].agent = order[o].agent
    BY <1>5 DEF StartedAs, SameOwner
  <2>. QED
    BY <1>3, <2>1 DEF OwnedInv
<1>. QED
  BY <1>3, <1>5, <1>6, <1>7, <1>8, <1>9

GateState ==
  \A o \in Orders : GateInv(order[o]) /\ (GatewayUp => ~FailedReviewShown(order[o]))

ReviewedState == \A o \in Orders : ReviewedInv(order[o])

\* What every step keeps.
Stepped ==
  /\ TypeOK' /\ OperatorQueuesAgree' /\ OwnInv'
  /\ \A p \in Orders : /\ StoreInv(order'[p])
                       /\ \/ SameOwner(order[p], order'[p])
                          \/ order[p].status = "absent" /\ ~order'[p].inherited
  /\ NoOptimizerRetry /\ GateState =>
       \A p \in Orders : /\ Moved(order[p], order'[p]) /\ GateInv(order'[p])
                         /\ worker' # "down" => ~FailedReviewShown(order'[p])
  /\ NoOptimizerRetry /\ "quota" \notin Events /\ GateState /\ ReviewedState =>
       \A p \in Orders : ReviewedInv(order'[p])
  /\ OnlyStrategies /\ OwnedInv => OwnedInv'

\* The steps of a running Gateway.
LEMMA UpStep ==
  ASSUME Preserved, GatewayUp
  PROVE  Stepped
<1>1. GateState => \A p \in Orders : Sound(order[p])
  BY DEF GateState, Sound
<1>2. \A p \in Orders : Kept(order[p], order'[p])
  BY DEF Preserved
<1>3. \A p \in Orders : /\ StoreInv(order'[p])
                        /\ \/ SameOwner(order[p], order'[p])
                           \/ order[p].status = "absent" /\ ~order'[p].inherited
  BY <1>2, Zenon DEF Kept
<1>4. NoOptimizerRetry /\ GateState =>
        \A p \in Orders : Moved(order[p], order'[p]) /\ Sound(order'[p])
  BY <1>1, <1>2, Zenon DEF Kept
<1>5. NoOptimizerRetry /\ "quota" \notin Events /\ GateState /\ ReviewedState =>
        \A p \in Orders : ReviewedInv(order'[p])
  BY <1>1, <1>2, Zenon DEF Kept, ReviewedState
<1>6. NoOptimizerRetry /\ GateState =>
        \A p \in Orders : /\ Moved(order[p], order'[p]) /\ GateInv(order'[p])
                          /\ worker' # "down" => ~FailedReviewShown(order'[p])
  BY <1>4, Zenon DEF Sound
<1>. QED
  BY <1>3, <1>5, <1>6 DEF Preserved, Stepped

LEMMA DelayStep ==
  ASSUME SInv, NEW o \in Orders, DelayElapses(o)
  PROVE  Stepped
<1>. DEFINE r == order[o]
            n == [r EXCEPT !.delayed = FALSE]
<1>1. r \in WorkOrder /\ StoreInv(r) /\ order' = [order EXCEPT ![o] = n]
      /\ UNCHANGED <<circuit, deadLetters, blocked, worker, active, cancelRequested, faults>>
  BY OrderFacts DEF DelayElapses, Put, Quiet
<1>2. /\ n \in WorkOrder /\ n.status = r.status /\ n.stage = r.stage /\ n.error = r.error
      /\ SameWork(r, n)
  BY <1>1, DelayFields
<1>. HIDE DEF n
<1>3. /\ StoreInv(n) /\ (GateInv(r) => GateInv(n))
      /\ ReviewedInv(r) /\ n.error # "quota" => ReviewedInv(n)
  BY <1>1, <1>2, SameWorkKeeps
<1>4. ReviewedInv(r) => ReviewedInv(n)
  BY <1>2, <1>3 DEF ReviewedInv
<1>5. SameOwner(r, n) /\ (FailedReviewShown(n) <=> FailedReviewShown(r))
  BY <1>1, <1>2, FailedShown DEF SameWork
<1>6. Moved(r, n)
  <2>1. Phase(n) = Phase(r) /\ n.backtestRequired = r.backtestRequired
    BY <1>2, <1>5 DEF Phase, SameOwner
  <2>. QED
    BY <2>1 DEF Moved
<1>7. order \in [Orders -> WorkOrder]
  BY DEF SInv, TypeOK
<1>8. /\ order' \in [Orders -> WorkOrder] /\ order'[o] = n
      /\ \A p \in Orders : p # o => order'[p] = order[p]
  BY <1>1, <1>2, <1>7
<1>9. TypeOK'
  BY <1>1, <1>8 DEF SInv, TypeOK
<1>10. OperatorQueuesAgree'
  BY <1>1, <1>2, <1>8 DEF SInv, OperatorQueuesAgree
<1>11. OwnInv'
  BY <1>1, <1>2, <1>8 DEF SInv, OwnInv
<1>12. OwnedInv => OwnedInv'
  BY <1>1, <1>2, <1>5, <1>8 DEF OwnedInv, SameOwner
<1>13. \A p \in Orders : Moved(order[p], order[p]) /\ SameOwner(order[p], order[p])
  BY DEF Moved, SameOwner
<1>14. \A p \in Orders : StoreInv(order'[p]) /\ SameOwner(order[p], order'[p])
  BY <1>3, <1>5, <1>8, <1>13 DEF SInv
<1>15. GateState =>
         \A p \in Orders : /\ Moved(order[p], order'[p]) /\ GateInv(order'[p])
                           /\ worker' # "down" => ~FailedReviewShown(order'[p])
  BY <1>1, <1>3, <1>5, <1>6, <1>8, <1>13 DEF GateState, GatewayUp
<1>16. ReviewedState => \A p \in Orders : ReviewedInv(order'[p])
  BY <1>4, <1>8 DEF ReviewedState
<1>. QED
  BY <1>9, <1>10, <1>11, <1>12, <1>14, <1>15, <1>16 DEF Stepped

LEMMA GatewayStartStep ==
  ASSUME SInv, GatewayStart
  PROVE  Stepped
<1>1. /\ order \in [Orders -> WorkOrder] /\ StartWorker(order)
      /\ circuit' \in {"closed", "open"} /\ UNCHANGED <<cancelRequested, faults>>
      /\ \A o \in Orders : /\ StoreInv(order[o]) /\ order[o].status = order[o].status
                           /\ SameOwner(order[o], order[o])
  BY DEF GatewayStart, SInv, TypeOK, SameOwner
<1>2. /\ TypeOK' /\ OperatorQueuesAgree' /\ OwnInv' /\ worker' = "polling"
      /\ \A o \in Orders : StartedAs(order[o], order'[o])
      /\ OwnedInv => OwnedInv'
  BY <1>1, StartStep
<1>3. \A p \in Orders : StoreInv(order'[p]) /\ SameOwner(order[p], order'[p])
  BY <1>2 DEF StartedAs
<1>4. GateState =>
        \A p \in Orders : Moved(order[p], order'[p]) /\ Sound(order'[p])
  BY <1>2, Zenon DEF StartedAs, GateState
<1>5. GateState /\ ReviewedState => \A p \in Orders : ReviewedInv(order'[p])
  BY <1>2, Zenon DEF StartedAs, GateState, ReviewedState
<1>6. GateState =>
        \A p \in Orders : /\ Moved(order[p], order'[p]) /\ GateInv(order'[p])
                          /\ worker' # "down" => ~FailedReviewShown(order'[p])
  BY <1>4, Zenon DEF Sound
<1>. QED
  BY <1>2, <1>3, <1>5, <1>6 DEF Stepped

LEMMA ResumeStep ==
  ASSUME SInv, NEW selected, ResumeAfterQuota(selected)
  PROVE  Stepped
<1>. DEFINE Selected(o) == o \in selected /\ order[o].status = "queued" /\ order[o].error = "quota"
            stored == [o \in Orders |-> IF Selected(o) THEN [order[o] EXCEPT !.delayed = FALSE]
                                        ELSE order[o]]
<1>1. /\ StartWorker(stored) /\ circuit' \in {"closed", "open"} /\ GatewayUp
      /\ UNCHANGED <<cancelRequested, faults>>
  BY DEF ResumeAfterQuota, GatewayUp
<1>2. \A o \in Orders :
        /\ stored[o] \in WorkOrder /\ stored[o].status = order[o].status
        /\ stored[o].stage = order[o].stage /\ SameOwner(order[o], stored[o])
        /\ StoreInv(stored[o]) /\ (GateInv(order[o]) => GateInv(stored[o]))
        /\ ReviewedInv(order[o]) => ReviewedInv(stored[o])
  <2>. SUFFICES ASSUME NEW o \in Orders
                PROVE  /\ stored[o] \in WorkOrder /\ stored[o].status = order[o].status
                       /\ stored[o].stage = order[o].stage /\ SameOwner(order[o], stored[o])
                       /\ StoreInv(stored[o]) /\ (GateInv(order[o]) => GateInv(stored[o]))
                       /\ ReviewedInv(order[o]) => ReviewedInv(stored[o])
    OBVIOUS
  <2>1. order[o] \in WorkOrder /\ StoreInv(order[o])
    BY OrderFacts
  <2>2. CASE ~Selected(o)
    BY <2>1, <2>2 DEF SameOwner
  <2>3. CASE Selected(o)
    <3>. DEFINE r == order[o]
                n == [r EXCEPT !.delayed = FALSE]
    <3>1. stored[o] = n
      BY <2>3
    <3>2. /\ n \in WorkOrder /\ n.status = r.status /\ n.stage = r.stage
          /\ n.error = r.error /\ SameWork(r, n)
      BY <2>1, DelayFields
    <3>. HIDE DEF n
    <3>3. /\ StoreInv(n) /\ (GateInv(r) => GateInv(n))
          /\ ReviewedInv(r) /\ n.error # "quota" => ReviewedInv(n)
      BY <2>1, <3>2, SameWorkKeeps
    <3>4. ReviewedInv(r) => ReviewedInv(n)
      BY <3>2, <3>3 DEF ReviewedInv
    <3>5. SameOwner(r, n)
      BY <3>2 DEF SameWork
    <3>. QED
      BY <3>1, <3>2, <3>3, <3>4, <3>5
  <2>. QED
    BY <2>2, <2>3
<1>3. stored \in [Orders -> WorkOrder]
  BY <1>2
<1>. HIDE DEF stored
<1>4. /\ TypeOK' /\ OperatorQueuesAgree' /\ OwnInv' /\ worker' = "polling"
      /\ \A o \in Orders : StartedAs(stored[o], order'[o])
      /\ OwnedInv => OwnedInv'
  BY <1>1, <1>2, <1>3, StartStep
<1>5. \A p \in Orders : StoreInv(order'[p]) /\ SameOwner(order[p], order'[p])
  BY <1>2, <1>4 DEF StartedAs, SameOwner
<1>6. \A p \in Orders : /\ Phase(stored[p]) = Phase(order[p])
                        /\ stored[p].backtestRequired = order[p].backtestRequired
  BY <1>2 DEF Phase, SameOwner
<1>7. \A p \in Orders : Moved(stored[p], order'[p]) => Moved(order[p], order'[p])
  BY <1>6 DEF Moved
<1>8. GateState => \A p \in Orders : Moved(order[p], order'[p]) /\ Sound(order'[p])
  BY <1>2, <1>4, <1>7, Zenon DEF StartedAs, GateState
<1>9. GateState /\ ReviewedState => \A p \in Orders : ReviewedInv(order'[p])
  BY <1>2, <1>4, Zenon DEF StartedAs, GateState, ReviewedState
<1>10. GateState =>
         \A p \in Orders : /\ Moved(order[p], order'[p]) /\ GateInv(order'[p])
                           /\ worker' # "down" => ~FailedReviewShown(order'[p])
  BY <1>8, Zenon DEF Sound
<1>. QED
  BY <1>4, <1>5, <1>9, <1>10 DEF Stepped

\* The order in execution is stored again; the worker is gone.
LEMMA StopStep ==
  ASSUME SInv, GatewayStop
  PROVE  Stepped
<1>1. /\ GatewayUp /\ worker' = "down" /\ active' = 0 /\ cancelRequested' = {}
      /\ UNCHANGED <<circuit, deadLetters, blocked>> /\ faults' \in Nat
  BY DEF GatewayStop, Fault, SInv, TypeOK
<1>2. CASE worker \notin {"dataset", "turn"}
  <2>1. order' = order
    BY <1>2 DEF GatewayStop
  <2>2. order' \in [Orders -> WorkOrder] /\ \A p \in Orders : Kept(order[p], order'[p])
    BY <2>1, IdleStep
  <2>3. TypeOK'
    BY <1>1, <2>2, BoundsAssumption DEF SInv, TypeOK, WorkerStates
  <2>4. OperatorQueuesAgree' /\ OwnInv'
    BY <1>1, <2>1 DEF SInv, OperatorQueuesAgree, OwnInv
  <2>5. OwnedInv => OwnedInv'
    BY <1>1, <2>1 DEF OwnedInv
  <2>6. Preserved
    BY <2>2, <2>3, <2>4, <2>5 DEF Preserved
  <2>. QED
    BY <1>1, <2>6, UpStep
<1>3. CASE worker \in {"dataset", "turn"}
  <2>. DEFINE o == active
              r == order[o]
              error == "other"
              late == FALSE
              n == IF o \in cancelRequested THEN Cancelled(r) ELSE Paused(r, error, late)
  <2>1. o \in Orders
    BY <1>3 DEF SInv, OwnInv
  <2>2. r \in WorkOrder /\ StoreInv(r) /\ r.status = "working"
    BY <1>3, <2>1, HeldFacts
  <2>3. order' = [order EXCEPT ![o] = n]
    BY <1>3 DEF GatewayStop
  <2>4. /\ Kept(r, n) /\ SameOwner(r, n)
        /\ n.status \notin {"working", "dead_letter", "awaiting_user_input"}
    <3>1. CASE o \in cancelRequested
      BY <2>2, <3>1, CancelledRecord
    <3>2. CASE o \notin cancelRequested
      <4>. DEFINE m == Paused(r, error, late)
      <4>1. error \in {"quota", "other"} /\ late \in BOOLEAN
        OBVIOUS
      <4>. HIDE DEF late
      <4>2. /\ m \in WorkOrder /\ m.status = "queued" /\ m.stage = r.stage /\ m.error = error
            /\ SameWork(r, m)
        BY <2>2, <4>1, PausedFields
      <4>3. n = m
        BY <3>2
      <4>. HIDE DEF m
      <4>4. /\ StoreInv(m) /\ (GateInv(r) => GateInv(m))
            /\ ReviewedInv(r) /\ m.error # "quota" => ReviewedInv(m)
        BY <2>2, <4>2, SameWorkKeeps
      <4>5. SameOwner(r, m)
        BY <4>2 DEF SameWork
      <4>6. Moved(r, m)
        BY <2>2, <4>2, <4>5, LiveMoved
      <4>7. Keeps(r, m)
        BY <4>2, <4>4 DEF Keeps
      <4>8. Kept(r, m)
        BY <2>2, <4>2, <4>5, <4>6, <4>7, StatusSets, KeptWhenOpen
      <4>. QED
        BY <4>2, <4>3, <4>5, <4>8
    <3>. QED
      BY <3>1, <3>2
  <2>. HIDE DEF n
  <2>5. Put(o, n)
    BY <2>3 DEF Put
  <2>6. /\ order' \in [Orders -> WorkOrder] /\ order'[o] = n
        /\ \A p \in Orders : p # o => order'[p] = order[p]
        /\ \A p \in Orders : Kept(order[p], order'[p])
    BY <2>1, <2>4, <2>5, PutStep
  <2>7. TypeOK'
    BY <1>1, <2>6, BoundsAssumption DEF SInv, TypeOK, WorkerStates
  <2>8. OperatorQueuesAgree' /\ OwnInv'
    <3>1. \A p \in Orders :
            /\ order'[p].status = "dead_letter" <=> order[p].status = "dead_letter"
            /\ order'[p].status = "awaiting_user_input" <=>
                 order[p].status = "awaiting_user_input"
      BY <2>2, <2>4, <2>6
    <3>. QED
      BY <1>1, <3>1 DEF SInv, OperatorQueuesAgree, OwnInv
  <2>9. OwnedInv => OwnedInv'
    BY <1>1, <2>4, <2>6 DEF OwnedInv, SameOwner
  <2>10. Preserved
    BY <2>6, <2>7, <2>8, <2>9 DEF Preserved
  <2>. QED
    BY <1>1, <2>10, UpStep
<1>. QED
  BY <1>2, <1>3

\* The steps that store nothing.
LEMMA StoreNothingStep ==
  ASSUME SInv, Crash \/ EndExecution \/ CloseCircuit \/ ReadinessFails \/ ReadinessReturns
  PROVE  Stepped
<1>1. /\ GatewayUp /\ order' = order /\ deadLetters' = deadLetters
      /\ worker' \in {worker, "down", "polling", "dead"}
      /\ \/ UNCHANGED worker /\ UNCHANGED active
         \/ active' = 0 /\ worker' \in {"down", "polling", "dead"}
      /\ worker' = "polling" => worker \in {"polling", "closing"}
      /\ blocked' \in {blocked, blocked \cup {Login}, blocked \ {Login}}
      /\ circuit' \in {circuit, "closed"} /\ cancelRequested' \in {cancelRequested, {}}
      /\ faults' \in {faults, faults + 1}
  <2>1. CASE Crash
    BY <2>1 DEF Crash, Fault
  <2>2. CASE EndExecution
    BY <2>2 DEF EndExecution, GatewayUp
  <2>3. CASE CloseCircuit
    BY <2>3 DEF CloseCircuit, GatewayUp
  <2>4. CASE ReadinessFails
    BY <2>4 DEF ReadinessFails, GatewayUp, Fault
  <2>5. CASE ReadinessReturns
    BY <2>5 DEF ReadinessReturns, GatewayUp
  <2>. QED
    BY <2>1, <2>2, <2>3, <2>4, <2>5
<1>2. order' \in [Orders -> WorkOrder] /\ \A p \in Orders : Kept(order[p], order'[p])
  BY <1>1, IdleStep
<1>3. TypeOK'
  <2>1. active' \in 0..MaxOrders /\ worker' \in WorkerStates /\ faults' \in Nat
    BY <1>1, BoundsAssumption DEF SInv, TypeOK, WorkerStates
  <2>2. /\ deadLetters' \in [Orders -> Nat] /\ blocked' \in SUBSET (Orders \cup {Login})
        /\ circuit' \in {"closed", "open"} /\ cancelRequested' \in SUBSET Orders
    BY <1>1 DEF SInv, TypeOK
  <2>. QED
    BY <1>2, <2>1, <2>2 DEF TypeOK
<1>4. OperatorQueuesAgree'
  <2>1. \A p \in Orders : p \in blocked' <=> p \in blocked
    BY <1>1, OrderFacts DEF Login
  <2>. QED
    BY <1>1, <2>1 DEF SInv, OperatorQueuesAgree
<1>5. OwnInv'
  BY <1>1 DEF SInv, OwnInv
<1>6. OwnedInv => OwnedInv'
  BY <1>1 DEF OwnedInv
<1>7. Preserved
  BY <1>2, <1>3, <1>4, <1>5, <1>6 DEF Preserved
<1>. QED
  BY <1>1, <1>7, UpStep

LEMMA StutterStep ==
  ASSUME SInv, UNCHANGED vars
  PROVE  Stepped
<1>1. /\ order' = order /\ worker' = worker
      /\ UNCHANGED <<circuit, deadLetters, blocked, active, cancelRequested, faults>>
  BY DEF vars
<1>2. TypeOK' /\ OperatorQueuesAgree' /\ OwnInv' /\ (OwnedInv => OwnedInv')
  BY <1>1 DEF SInv, TypeOK, OperatorQueuesAgree, OwnInv, OwnedInv
<1>3. \A p \in Orders : /\ StoreInv(order'[p]) /\ SameOwner(order[p], order'[p])
                        /\ Moved(order[p], order'[p])
  BY <1>1 DEF SInv, SameOwner, Moved
<1>4. GateState => \A p \in Orders : /\ GateInv(order'[p])
                                     /\ worker' # "down" => ~FailedReviewShown(order'[p])
  BY <1>1 DEF GateState, GatewayUp
<1>5. ReviewedState => \A p \in Orders : ReviewedInv(order'[p])
  BY <1>1 DEF ReviewedState
<1>. QED
  BY <1>2, <1>3, <1>4, <1>5 DEF Stepped

LEMMA TurnEndsStep ==
  ASSUME SInv, NEW o \in Orders, TurnEnds(o)
  PROVE  Preserved /\ GatewayUp
<1>1. GatewayUp
  BY DEF TurnEnds, DatasetReady, AcquisitionError, StrategyTurn, BacktestTurn,
     MaintenanceTurn, ReviewPasses, ReviewIncomplete, ReviewFails, OptimizationTurn,
     TurnTimeout, TurnQuota, TurnError, InTurn, GatewayUp
<1>2. CASE DatasetReady(o)
  BY <1>1, <1>2, DatasetReadyStep
<1>3. CASE AcquisitionError(o)
  BY <1>1, <1>3, AcquisitionStep
<1>4. CASE StrategyTurn(o)
  BY <1>1, <1>4, StrategyStep
<1>5. CASE BacktestTurn(o)
  BY <1>1, <1>5, BacktestStep
<1>6. CASE MaintenanceTurn(o)
  BY <1>1, <1>6, MaintenanceStep
<1>7. CASE ReviewPasses(o)
  BY <1>1, <1>7, ReviewPassesStep
<1>8. CASE \E verdict \in {"incomplete", "unchecked"} : ReviewIncomplete(o, verdict)
  BY <1>1, <1>8, ReviewIncompleteStep
<1>9. CASE \E findings \in (SUBSET Findings) \ {{}}, userAction \in BOOLEAN :
             ReviewFails(o, findings, userAction /\ "user_action" \in Events)
  <2>1. PICK findings \in SUBSET Findings, userAction \in BOOLEAN :
          ReviewFails(o, findings, userAction /\ "user_action" \in Events)
    BY <1>9
  <2>. DEFINE ask == userAction /\ "user_action" \in Events
  <2>2. ask \in BOOLEAN /\ ReviewFails(o, findings, ask)
    BY <2>1
  <2>. HIDE DEF ask
  <2>. QED
    BY <1>1, <2>2, ReviewFailsStep
<1>10. CASE \E complete \in BOOLEAN : OptimizationTurn(o, complete)
  BY <1>1, <1>10, OptimizationStep
<1>11. CASE TurnTimeout(o)
  BY <1>1, <1>11, TimeoutStep
<1>12. CASE TurnQuota(o)
  BY <1>1, <1>12, QuotaStep
<1>13. CASE TurnError(o)
  BY <1>1, <1>13, ErrorStep
<1>. QED
  BY <1>1, <1>2, <1>3, <1>4, <1>5, <1>6, <1>7, <1>8, <1>9, <1>10, <1>11, <1>12, <1>13
     DEF TurnEnds

LEMMA NextStep ==
  ASSUME SInv, [Next]_vars
  PROVE  Stepped
<1>1. ASSUME NEW o \in Orders, UserStep(o)
      PROVE  Preserved /\ GatewayUp
  <2>1. CASE \E profile \in Profiles : Submit(o, profile)
    BY <2>1, SubmitStep DEF Submit
  <2>2. CASE \E kind \in {"signal", "strategy"}, required \in BOOLEAN : Adopt(o, kind, required)
    BY <2>2, AdoptStep DEF Adopt
  <2>3. CASE \E gate \in Gates, approved \in BOOLEAN : Decide(o, gate, approved)
    BY <2>3, DecideStep DEF Decide
  <2>4. CASE Cancel(o)
    BY <2>4, CancelStep DEF Cancel
  <2>5. CASE \E version \in 1..MaxVersions : RetryDeadLetter(o, version)
    BY <2>5, RetryStep DEF RetryDeadLetter
  <2>. QED
    BY <1>1, <2>1, <2>2, <2>3, <2>4, <2>5 DEF UserStep
<1>2. ASSUME NEW o \in Orders, WorkerStep(o)
      PROVE  Preserved /\ GatewayUp
  <2>1. CASE Claim(o)
    BY <2>1, ClaimStep DEF Claim, GatewayUp
  <2>2. CASE Begin(o)
    BY <2>2, BeginStep DEF Begin, GatewayUp
  <2>3. CASE TurnEnds(o)
    BY <2>3, TurnEndsStep
  <2>. QED
    BY <1>2, <2>1, <2>2, <2>3 DEF WorkerStep
<1>3. CASE GatewayStep
  <2>1. CASE GatewayStart
    BY <2>1, GatewayStartStep
  <2>2. CASE GatewayStop
    BY <2>2, StopStep
  <2>3. CASE \E selected \in {Orders} \cup {{o} : o \in Orders} : ResumeAfterQuota(selected)
    BY <2>3, ResumeStep
  <2>4. CASE Crash \/ EndExecution \/ CloseCircuit \/ ReadinessFails \/ ReadinessReturns
    BY <2>4, StoreNothingStep
  <2>. QED
    BY <1>3, <2>1, <2>2, <2>3, <2>4 DEF GatewayStep
<1>4. CASE UNCHANGED vars
  BY <1>4, StutterStep
<1>. QED
  BY <1>1, <1>2, <1>3, <1>4, DelayStep, UpStep DEF Next

-----------------------------------------------------------------------------
(* From steps to behaviours                                                *)

NoneInherited == \A o \in Orders : ~order[o].inherited

LEMMA InitState ==
  ASSUME Init
  PROVE  /\ SInv /\ GateState
         /\ OnlyStrategies => OwnedInv
         /\ Legacy = {} => NoneInherited /\ ReviewedState
         /\ \A o \in Orders : Phase(order[o]) = "absent"
<1>1. PICK first \in {AbsentOrder} \cup Legacy :
        /\ order = [o \in Orders |-> IF o = 1 THEN first ELSE AbsentOrder]
        /\ worker = IF first = AbsentOrder THEN "polling" ELSE "down"
  BY DEF Init
<1>2. /\ circuit = "closed" /\ blocked = {} /\ active = 0 /\ cancelRequested = {} /\ faults = 0
      /\ deadLetters = [o \in Orders |-> IF order[o].status = "dead_letter" THEN 1 ELSE 0]
  BY DEF Init
<1>3. \A o \in Orders : order[o] \in {first, AbsentOrder}
  BY <1>1
<1>4. /\ \A o \in Orders : order[o] = AbsentOrder \/ (order[o] \in Legacy /\ worker = "down")
      /\ worker \in {"polling", "down"}
  BY <1>1, <1>3
<1>. DEFINE Right(r) == /\ r \in WorkOrder /\ StoreInv(r) /\ GateInv(r)
                        /\ r.status # "awaiting_user_input"
                        /\ r = AbsentOrder \/ r \in Legacy
                        /\ r.inherited \/ r.status = "absent"
                        /\ Legacy = {} => ReviewedInv(r) /\ ~r.inherited
                        /\ OnlyStrategies => r.agent = "strategy"
                        /\ worker = "polling" => r.status = "absent"
<1>5. \A o \in Orders : Right(order[o])
  <2>. SUFFICES ASSUME NEW o \in Orders
                PROVE  Right(order[o])
    OBVIOUS
  <2>1. CASE order[o] = AbsentOrder
    BY <2>1, AbsentFields, AbsentKeeps
  <2>2. CASE order[o] \in Legacy /\ worker = "down"
    BY <2>2, LegacyAssumption DEF OnlyStrategies
  <2>. QED
    BY <1>4, <2>1, <2>2
<1>6. order \in [Orders -> WorkOrder]
  BY <1>1, <1>5
<1>7. TypeOK
  BY <1>2, <1>4, <1>6, BoundsAssumption DEF TypeOK, WorkerStates
<1>8. OperatorQueuesAgree /\ OwnInv
  BY <1>2, <1>4, <1>5 DEF OperatorQueuesAgree, OwnInv
<1>9. SInv
  BY <1>5, <1>7, <1>8 DEF SInv
<1>10. GateState
  <2>1. \A o \in Orders : worker = "polling" => ~FailedReviewShown(order[o])
    BY <1>5, StatusSets
       DEF FailedReviewShown, GateReview, AwaitingStatus, FirstLinePasses
  <2>. QED
    BY <1>4, <1>5, <2>1 DEF GateState, GatewayUp
<1>11. OnlyStrategies => OwnedInv
  BY <1>4, <1>5 DEF OwnedInv
<1>12. Legacy = {} => NoneInherited /\ ReviewedState
  BY <1>5 DEF NoneInherited, ReviewedState
<1>13. \A o \in Orders : Phase(order[o]) = "absent"
  BY <1>5, PhaseOf
<1>. QED
  BY <1>9, <1>10, <1>11, <1>12, <1>13

LEMMA StoreKept ==
  ASSUME SInv, [Next]_vars
  PROVE  SInv'
BY NextStep DEF Stepped, SInv

LEMMA GatesKept ==
  ASSUME NoOptimizerRetry, SInv, GateState, [Next]_vars
  PROVE  GateState'
BY NextStep DEF Stepped, GateState, GatewayUp

LEMMA ReviewsKept ==
  ASSUME NoOptimizerRetry, "quota" \notin Events, SInv, GateState, ReviewedState, [Next]_vars
  PROVE  ReviewedState'
BY NextStep DEF Stepped, ReviewedState

LEMMA OwnedKept ==
  ASSUME OnlyStrategies, SInv, OwnedInv, [Next]_vars
  PROVE  OwnedInv'
BY NextStep DEF Stepped

LEMMA NoneInheritedKept ==
  ASSUME SInv, NoneInherited, [Next]_vars
  PROVE  NoneInherited'
<1>1. \A p \in Orders : \/ SameOwner(order[p], order'[p])
                        \/ order[p].status = "absent" /\ ~order'[p].inherited
  BY NextStep DEF Stepped
<1>. QED
  BY <1>1 DEF NoneInherited, SameOwner

\* The stored state can be worked with at any time: whatever was requeued,
\* rejected, cancelled, interrupted, retried and recovered, no order lacks a
\* handoff its stage reads, and the dashboard's two lists agree with the orders.
THEOREM StoreIsSoundHolds == Spec => []StoreIsSound
<1>1. Init => SInv
  BY InitState
<1>2. SInv /\ [Next]_vars => SInv'
  BY StoreKept
<1>3. SInv => StoreIsSound
  <2>. SUFFICES ASSUME SInv
                PROVE  HandoffsSurvive
    BY DEF SInv, StoreIsSound
  <2>. SUFFICES ASSUME NEW o \in Orders, order[o].status \in {"queued", "working"},
                       order[o].agent = "strategy"
                PROVE  HandoffPresent(order[o])
    BY DEF HandoffsSurvive, HandoffPresent
  <2>1. ShapeInv(order[o]) /\ EvidenceInv(order[o])
    BY DEF SInv, StoreInv
  <2>2. order[o].stage \in ExecutableStages /\ order[o].stage # "maintenance"
    BY <2>1 DEF ShapeInv, ExecutableStatuses
  <2>3. order[o].stage \in ResearchStages => order[o].backtestRequired
    BY <2>1 DEF ShapeInv
  <2>. QED
    BY <2>1, <2>2, <2>3
       DEF EvidenceInv, HandoffPresent, ExecutableStages, ResearchStages
<1>. QED
  BY <1>1, <1>2, <1>3, PTL DEF Spec

\* What is live-approved is what the registry records: the order's record names the
\* version that is bound and that version has its manifest, however often the order
\* was rebuilt, retried and rebound.  It names none only for an order that never had
\* a manifest and that the user required no backtest of.
THEOREM ReleaseIsRegisteredHolds == Spec => []ReleaseIsRegistered
<1>1. Init => SInv
  BY InitState
<1>2. SInv /\ [Next]_vars => SInv'
  BY StoreKept
<1>3. SInv => ReleaseIsRegistered
  <2>. SUFFICES ASSUME SInv, NEW o \in Orders, order[o].status = "approved"
                PROVE  LET r == order[o] IN
                       /\ r.recorded = r.version
                       /\ IF r.version # 0 THEN r.version \in r.manifests
                          ELSE r.manifests = {} /\ ~r.backtestRequired
    BY DEF ReleaseIsRegistered
  <2>1. VersionInv(order[o]) /\ Presented(order[o]) /\ order[o] \in WorkOrder
    BY DEF SInv, StoreInv, Presented, TypeOK
  <2>. QED
    BY <2>1 DEF VersionInv, Researched, Identified
<1>. QED
  BY <1>1, <1>2, <1>3, PTL DEF Spec

\* An order is in the dead-letter queue exactly when its counted failures have
\* reached a limit.  An order that an older Gateway had misread returns to its
\* gate with its failures used up, so the store begins empty here.
THEOREM BudgetRespectedHolds ==
  ASSUME Legacy = {}
  PROVE  Spec => []BudgetRespected
<1>1. Init => SInv /\ NoneInherited
  BY InitState
<1>2. SInv /\ NoneInherited /\ [Next]_vars => SInv' /\ NoneInherited'
  BY StoreKept, NoneInheritedKept
<1>3. SInv /\ NoneInherited => BudgetRespected
  BY DEF SInv, StoreInv, BudgetInv, NoneInherited, BudgetRespected
<1>. QED
  BY <1>1, <1>2, <1>3, PTL DEF Spec

\* No order is researched without the user's approval of the very implementation
\* under research, and none is live-ready without every approval that applies.
THEOREM ApprovalsInOrderHolds ==
  ASSUME NoOptimizerRetry
  PROVE  Spec => []ApprovalsInOrder
<1>1. Init => SInv /\ GateState
  BY InitState
<1>2. SInv /\ GateState /\ [Next]_vars => SInv' /\ GateState'
  BY StoreKept, GatesKept
<1>3. SInv /\ GateState => ApprovalsInOrder
  <2>. SUFFICES ASSUME SInv, GateState, NEW o \in Orders
                PROVE  ApprovedSoFar(order[o])
    BY DEF ApprovalsInOrder
  <2>1. GrantInv(order[o]) /\ EvidenceInv(order[o])
    BY DEF SInv, StoreInv, GateState, GateInv
  <2>2. Downstream(order[o]) => PastApproval(order[o])
    BY DEF Downstream, PastApproval
  <2>3. Downstream(order[o]) =>
          \/ order[o].stage \in ResearchStages
          \/ Presented(order[o])
    BY StatusSets DEF Downstream, Presented
  <2>. QED
    BY <2>1, <2>2, <2>3 DEF GrantInv, EvidenceInv, ApprovedSoFar
<1>. QED
  BY <1>1, <1>2, <1>3, PTL DEF Spec

\* While the Gateway can take a decision, no gate of any order rests on a review
\* that failed, whatever an older Gateway had left, and no gate of an order of this
\* Gateway on one that was incomplete.
THEOREM NoGateOnFailedReviewHolds ==
  ASSUME NoOptimizerRetry
  PROVE  Spec => []NoGateOnFailedReview
<1>1. Init => SInv /\ GateState
  BY InitState
<1>2. SInv /\ GateState /\ [Next]_vars => SInv' /\ GateState'
  BY StoreKept, GatesKept
<1>3. GateState => NoGateOnFailedReview
  <2>. SUFFICES ASSUME GateState, GatewayUp, NEW o \in Orders
                PROVE  LET r == order[o] IN
                       /\ r.status \in GateStatuses \cup {"approved"} =>
                            r.results.review_implementation.verdict \in Acceptable(r)
                       /\ r.status = "awaiting_backtest_approval" =>
                            r.results.review_backtest.verdict \in Acceptable(r) \cup {"native"}
    BY DEF NoGateOnFailedReview
  <2>. DEFINE r == order[o]
  <2>1. ShownInv(r) /\ ~FailedReviewShown(r)
    BY DEF GateState, GateInv
  <2>. HIDE DEF r
  <2>2. r.status = "awaiting_implementation_approval" =>
          r.results.review_implementation.verdict \in Acceptable(r)
    BY <2>1
       DEF ShownInv, FailedReviewShown, GateReview, AwaitingStatus, Acceptable,
       FirstLinePasses
  <2>3. r.status = "awaiting_backtest_approval" =>
          r.results.review_backtest.verdict \in Acceptable(r) \cup {"native"}
    BY <2>1
       DEF ShownInv, FailedReviewShown, GateReview, AwaitingStatus, Acceptable,
       FirstLinePasses
  <2>4. r.status \in GateStatuses \cup {"approved"} =>
          r.status = "awaiting_implementation_approval" \/ PastApproval(r)
    BY StatusSets DEF PastApproval
  <2>5. PastApproval(r) => r.results.review_implementation.verdict \in Acceptable(r)
    BY <2>1 DEF ShownInv
  <2>. QED
    BY <2>2, <2>3, <2>4, <2>5 DEF r
<1>. QED
  BY <1>1, <1>2, <1>3, PTL DEF Spec

\* What a gate shows has passed an independent review of exactly that work, as
\* long as no quota error interrupts a backtest: then the recovery pass takes a
\* report from disk and calls it reviewed.
THEOREM GatesShowReviewedWorkHolds ==
  ASSUME NoOptimizerRetry, "quota" \notin Events, Legacy = {}
  PROVE  Spec => []GatesShowReviewedWork
<1>1. Init => SInv /\ GateState /\ ReviewedState
  BY InitState
<1>2. SInv /\ GateState /\ ReviewedState /\ [Next]_vars => SInv' /\ GateState' /\ ReviewedState'
  BY StoreKept, GatesKept, ReviewsKept
<1>3. ReviewedState => GatesShowReviewedWork
  BY DEF ReviewedState, ReviewedInv, Presented, GatesShowReviewedWork
<1>. QED
  BY <1>1, <1>2, <1>3, PTL DEF Spec

\* While the worker polls or executes, an order marked "working" is the one it
\* executes, across claims, cancellations, stops, crashes and restarts.
THEOREM WorkingIsOwnedHolds ==
  ASSUME OnlyStrategies
  PROVE  Spec => []WorkingIsOwned
<1>1. Init => SInv /\ OwnedInv
  BY InitState
<1>2. SInv /\ OwnedInv /\ [Next]_vars => SInv' /\ OwnedInv'
  BY StoreKept, OwnedKept
<1>3. SInv /\ OwnedInv => WorkingIsOwned
  BY OrderFacts DEF SInv, OwnInv, OwnedInv, WorkingIsOwned, Executing
<1>. QED
  BY <1>1, <1>2, <1>3, PTL DEF Spec

-----------------------------------------------------------------------------
(* The circuit and the login                                               *)

Held == {"created", "dataset", "turn"}

\* What may close the circuit and start work: a claim starts it only when nothing
\* is in its way, and what puts something in its way is not at work afterwards.
CodexKept ==
  /\ circuit' = "open" => circuit = "open" \/ worker' \notin Held
  /\ Login \in blocked' => Login \in blocked \/ worker' \notin Held
  /\ worker' \in Held => worker \in Held \/ (circuit' = "closed" /\ Login \notin blocked')

LEMMA PublishKeepsLogin ==
  ASSUME NEW o \in Orders, NEW n, Publish(o, n)
  PROVE  Login \in blocked' <=> Login \in blocked
BY BoundsAssumption DEF Publish, Login, Orders

LEMMA RequeueKeepsCodex ==
  ASSUME NEW o \in Orders, NEW n, Requeue(o, n)
  PROVE  CodexKept
<1>1. worker' = "closing" /\ (Login \in blocked' <=> Login \in blocked)
  BY PublishKeepsLogin DEF Requeue
<1>. QED
  BY <1>1 DEF CodexKept, Held

LEMMA EndKeepsCodex ==
  ASSUME NEW o, NEW n, NEW gate, Fail(o) \/ Present(o, n, gate)
  PROVE  CodexKept
BY DEF Fail, Present, CodexKept, Held

LEMMA HandOverKeepsCodex ==
  ASSUME NEW o, NEW n, HandOver(o, n), worker \in Held
  PROVE  CodexKept
BY DEF HandOver, CodexKept

LEMMA UserKeepsCodex ==
  ASSUME NEW o \in Orders, UserStep(o)
  PROVE  CodexKept
<1>1. CASE \E profile \in Profiles : Submit(o, profile)
  BY <1>1 DEF Submit, Quiet, CodexKept
<1>2. CASE \E kind \in {"signal", "strategy"}, required \in BOOLEAN : Adopt(o, kind, required)
  BY <1>2 DEF Adopt, Quiet, CodexKept
<1>3. CASE \E gate \in Gates, approved \in BOOLEAN : Decide(o, gate, approved)
  BY <1>3 DEF Decide, Quiet, CodexKept
<1>4. CASE Cancel(o)
  BY <1>4 DEF Cancel, CodexKept, Held
<1>5. CASE \E version \in 1..MaxVersions : RetryDeadLetter(o, version)
  BY <1>5 DEF RetryDeadLetter, CodexKept
<1>. QED
  BY <1>1, <1>2, <1>3, <1>4, <1>5 DEF UserStep

LEMMA TurnKeepsCodex ==
  ASSUME NEW o \in Orders, TurnEnds(o)
  PROVE  CodexKept
<1>0. worker \in Held
  BY DEF TurnEnds, DatasetReady, AcquisitionError, StrategyTurn, BacktestTurn,
     MaintenanceTurn, ReviewPasses, ReviewIncomplete, ReviewFails, OptimizationTurn,
     TurnTimeout, TurnQuota, TurnError, InTurn, Held
<1>1. CASE DatasetReady(o)
  <2>1. CASE Fail(o)
    BY <2>1, EndKeepsCodex
  <2>2. CASE ~Fail(o)
    BY <1>0, <1>1, <2>2, HandOverKeepsCodex DEF DatasetReady
  <2>. QED
    BY <2>1, <2>2
<1>2. CASE AcquisitionError(o)
  BY <1>2, RequeueKeepsCodex DEF AcquisitionError
<1>3. CASE StrategyTurn(o)
  BY <1>0, <1>3 DEF StrategyTurn, HandOver, CodexKept, Held
<1>4. CASE BacktestTurn(o)
  BY <1>0, <1>4 DEF BacktestTurn, HandOver, CodexKept, Held
<1>5. CASE MaintenanceTurn(o)
  BY <1>5 DEF MaintenanceTurn, CodexKept, Held
<1>6. CASE ReviewPasses(o)
  BY <1>0, <1>6 DEF ReviewPasses, HandOver, Present, CodexKept, Held
<1>7. CASE \E verdict \in {"incomplete", "unchecked"} : ReviewIncomplete(o, verdict)
  BY <1>7, RequeueKeepsCodex DEF ReviewIncomplete
<1>8. CASE \E findings \in (SUBSET Findings) \ {{}}, userAction \in BOOLEAN :
             ReviewFails(o, findings, userAction /\ "user_action" \in Events)
  BY <1>8, RequeueKeepsCodex DEF ReviewFails
<1>9. CASE \E complete \in BOOLEAN : OptimizationTurn(o, complete)
  <2>1. PICK complete \in BOOLEAN : OptimizationTurn(o, complete)
    BY <1>9
  <2>2. CASE complete
    BY <2>1, <2>2 DEF OptimizationTurn, Present, CodexKept, Held
  <2>3. CASE ~complete
    BY <2>1, <2>3, RequeueKeepsCodex DEF OptimizationTurn
  <2>. QED
    BY <2>2, <2>3
<1>10. CASE TurnTimeout(o)
  BY <1>10, RequeueKeepsCodex DEF TurnTimeout
<1>11. CASE TurnQuota(o)
  BY <1>11, RequeueKeepsCodex DEF TurnQuota
<1>12. CASE TurnError(o)
  BY <1>12, EndKeepsCodex DEF TurnError
<1>. QED
  BY <1>1, <1>2, <1>3, <1>4, <1>5, <1>6, <1>7, <1>8, <1>9, <1>10, <1>11, <1>12
     DEF TurnEnds

LEMMA WorkerKeepsCodex ==
  ASSUME NEW o \in Orders, WorkerStep(o)
  PROVE  CodexKept
<1>1. CASE Claim(o)
  BY <1>1 DEF Claim, CodexKept
<1>2. CASE Begin(o)
  <2>1. worker \in Held
    BY <1>2 DEF Begin, Held
  <2>2. CASE Fail(o)
    BY <2>2, EndKeepsCodex
  <2>3. CASE ~Fail(o)
    BY <1>2, <2>1, <2>3 DEF Begin, HandOver, CodexKept
  <2>. QED
    BY <2>2, <2>3
<1>3. CASE TurnEnds(o)
  BY <1>3, TurnKeepsCodex
<1>. QED
  BY <1>1, <1>2, <1>3 DEF WorkerStep

LEMMA StartKeepsCodex ==
  ASSUME NEW stored, StartWorker(stored), circuit' \in {circuit, "closed"}
  PROVE  CodexKept
<1>1. worker' = "polling"
  BY DEF StartWorker
<1>. QED
  BY <1>1 DEF CodexKept, Held

LEMMA GatewayKeepsCodex ==
  ASSUME GatewayStep
  PROVE  CodexKept
<1>1. CASE GatewayStart
  BY <1>1, StartKeepsCodex DEF GatewayStart
<1>2. CASE \E selected \in {Orders} \cup {{o} : o \in Orders} : ResumeAfterQuota(selected)
  BY <1>2, StartKeepsCodex DEF ResumeAfterQuota
<1>3. CASE GatewayStop \/ Crash
  BY <1>3 DEF GatewayStop, Crash, CodexKept, Held
<1>4. CASE EndExecution \/ CloseCircuit
  BY <1>4 DEF EndExecution, CloseCircuit, CodexKept, Held
<1>5. CASE ReadinessFails \/ ReadinessReturns
  BY <1>5 DEF ReadinessFails, ReadinessReturns, CodexKept, Held
<1>. QED
  BY <1>1, <1>2, <1>3, <1>4, <1>5 DEF GatewayStep

\* One quota error stops all Codex work, and so does a missing login, for any mix
\* of orders: while the circuit is open or the user is asked to log in no order
\* is claimed or executed, also after a crash, a restart or a cancellation.
THEOREM WorkWaitsForCodexHolds == Spec => []WorkWaitsForCodex
<1>1. Init => WorkWaitsForCodex
  BY DEF Init, WorkWaitsForCodex
<1>2. WorkWaitsForCodex /\ [Next]_vars => WorkWaitsForCodex'
  <2>. SUFFICES ASSUME WorkWaitsForCodex, [Next]_vars
                PROVE  WorkWaitsForCodex'
    OBVIOUS
  <2>1. CASE UNCHANGED vars
    BY <2>1 DEF vars, WorkWaitsForCodex
  <2>2. ASSUME NEW o \in Orders, DelayElapses(o)
        PROVE  CodexKept
    BY <2>2 DEF DelayElapses, Quiet, CodexKept
  <2>3. CASE Next
    <3>1. CodexKept
      BY <2>2, <2>3, UserKeepsCodex, WorkerKeepsCodex, GatewayKeepsCodex DEF Next
    <3>. QED
      BY <3>1 DEF CodexKept, Held, WorkWaitsForCodex
  <2>. QED
    BY <2>1, <2>3
<1>. QED
  BY <1>1, <1>2, PTL DEF Spec

-----------------------------------------------------------------------------
(* The release contract                                                    *)

LEMMA MovedIsContract ==
  ASSUME SInv, TypeOK', NEW o \in Orders, Moved(order[o], order'[o])
  PROVE  \/ Release!Stays(o) \/ Release!Submit(o) \/ Release!Build(o)
         \/ Release!DecideImplementation(o) \/ Release!Research(o)
         \/ Release!DecideBacktest(o) \/ Release!DecideLive(o)
BY DEF Moved, Release!Stays, Release!Submit, Release!Build,
   Release!DecideImplementation, Release!Research, Release!DecideBacktest,
   Release!DecideLive, Release!ChoiceKept, Release!Moves

\* Every behaviour of the work orders, with its retries, faults and recoveries,
\* is a behaviour of the release contract.
THEOREM GatesRespectedHolds ==
  ASSUME NoOptimizerRetry
  PROVE  Spec => GatesRespected
<1>1. Init => SInv /\ GateState
  BY InitState
<1>2. SInv /\ GateState /\ [Next]_vars => SInv' /\ GateState'
  BY StoreKept, GatesKept
<1>3. Init => Release!Init
  <2>. SUFFICES ASSUME Init
                PROVE  Release!Init
    OBVIOUS
  <2>1. SInv /\ \A o \in Orders : Phase(order[o]) = "absent"
    BY InitState
  <2>2. \A o \in Orders : order[o].backtestRequired \in BOOLEAN
    BY <2>1, OrderFacts DEF WorkOrder
  <2>. QED
    BY <2>1, <2>2 DEF Release!Init
<1>4. SInv /\ GateState /\ [Next]_vars => [Release!Next]_(Release!vars)
  <2>. SUFFICES ASSUME SInv, GateState, [Next]_vars
                PROVE  Release!Next
    OBVIOUS
  <2>1. TypeOK' /\ \A p \in Orders : Moved(order[p], order'[p])
    BY NextStep DEF Stepped
  <2>. QED
    BY <2>1, MovedIsContract DEF Release!Next
<1>. QED
  BY <1>1, <1>2, <1>3, <1>4, PTL DEF Spec, GatesRespected, Release!Spec
=============================================================================
