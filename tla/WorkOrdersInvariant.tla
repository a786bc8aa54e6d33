------------------------ MODULE WorkOrdersInvariant ------------------------
(***************************************************************************)
(* What holds of one stored work order, whatever happened to it.  StoreInv *)
(* holds of every order; GateInv holds of every order as long as none is   *)
(* retried at its optimizer stage; ReviewedInv holds of orders that no     *)
(* quota error interrupts and no older Gateway left.  They are what the    *)
(* store may be assumed to hold when this Gateway opens it, and the        *)
(* invariants that WorkOrdersProofs shows to be kept.                      *)
(***************************************************************************)
EXTENDS WorkOrders

ExecutableStatuses == {"queued", "working", "dead_letter", "awaiting_user_input"}

\* A status and a stage belong together.
ShapeInv(r) ==
  /\ r.status = "absent" <=> r.stage = "absent"
  /\ r.status \in ExecutableStatuses <=> r.stage \in ExecutableStages
  /\ r.status \in GateStatuses <=> r.stage = "approval"
  /\ r.status = "approved" <=> r.stage = "released"
  /\ r.status = "failed" <=> r.stage = "failed"
  /\ r.agent = "maintenance" =>
       /\ r.stage \in {"maintenance", "failed", "cancelled"}
       /\ r.results = NoResults
  /\ r.agent = "strategy" => r.stage # "maintenance"
  /\ r.stage \in ResearchStages => r.backtestRequired
  /\ r.status \in {"awaiting_optimization_approval", "awaiting_backtest_approval"} =>
       r.backtestRequired

\* Work that was reviewed or approved exists.
Presented(r) == r.status \in GateStatuses \cup {"approved"}

EvidenceInv(r) ==
  /\ r.stage \in ResearchStages \cup {"review_implementation"} \/ Presented(r) =>
       r.results.strategy # 0
  /\ r.results.review_implementation.verdict # "none" => r.results.strategy # 0
  /\ r.results.backtest # NoEvidence => r.results.strategy # 0
  /\ r.results.review_backtest.verdict # "none" => r.results.backtest # NoEvidence
  /\ r.stage = "review_backtest" => r.results.backtest # NoEvidence
  /\ r.stage = "optimize" => r.results.review_backtest.verdict # "none"

\* Research needs the manifest of the bound version from its dataset on.
Researched(r) ==
  \/ r.results.dataset # 0 \/ r.results.backtest # NoEvidence
  \/ r.stage \in ResearchStages \ {"dataset"}
  \/ r.status \in {"awaiting_optimization_approval", "awaiting_backtest_approval"}
  \/ r.status \in {"awaiting_live_approval", "approved"} /\ r.backtestRequired

\* The bound version has a manifest, or the order has none to bind.
Identified(r) == IF r.version = 0 THEN r.manifests = {} ELSE r.version \in r.manifests

\* The version that is bound has a manifest and, at a gate, its record.
VersionInv(r) ==
  /\ r.manifests \subseteq 1..r.made
  /\ r.version \in {Adopted, 0} \cup r.manifests
  /\ r.stage = "review_implementation" /\ r.version = 0 /\ Recordable(r) => r.manifests = {}
  /\ r.stage = "dataset" => r.version # Adopted
  /\ Researched(r) => r.version \in r.manifests
  /\ Presented(r) \/ PassMisread(r) => Identified(r) /\ r.recorded = r.version

\* Under which failures an order died, and that it had not before.
BudgetInv(r) ==
  ~r.inherited =>
    /\ r.error # "misread"
    /\ r.status = "dead_letter" <=> Exhausted(r.attempts, r.issues, IssueKeys)
    /\ r.attempts <= MaxAttempts
    /\ r.error = "timeout" /\ r.status = "dead_letter" =>
         /\ r.issues[<<r.stage, "timeout">>] > 0
         /\ \A key \in IssueKeys : key # <<r.stage, "timeout">> => r.issues[key] <= SameIssueLimit

\* What rests on an implementation the user has approved, whatever its status.
PastApproval(r) ==
  \/ r.stage \in ResearchStages
  \/ r.status \in {"awaiting_optimization_approval", "awaiting_backtest_approval",
                   "awaiting_live_approval", "approved"}

\* What the user has approved.
GrantInv(r) ==
  /\ PastApproval(r) =>
       r.approvals["implementation"] = "yes" /\ r.approvedFor = r.results.strategy
  /\ r.status \in {"awaiting_live_approval", "approved"} /\ r.backtestRequired =>
       r.approvals["backtest"] = "yes"
  /\ r.status = "approved" => r.approvals["live"] = "yes"

\* Evidence that has passed stays at the optimizer until there is a proposal.
ProposalInv(r) ==
  OptimizationRequired(r) /\ r.results.review_backtest.verdict = "pass"
    /\ r.results.optimization = "none" => r.stage \in {"optimize", "cancelled"}

ShownInv(r) ==
  /\ r.results.review_implementation.verdict # "native"
  /\ PastApproval(r) =>
       r.results.review_implementation.verdict \in Acceptable(r)
  /\ r.status = AwaitingStatus("implementation") =>
       r.results.review_implementation.verdict \in Acceptable(r) \cup {"fail", "incomplete"}
  /\ r.stage = "optimize" \/ r.status = AwaitingStatus("optimization") =>
       r.results.review_backtest.verdict \in Acceptable(r) \cup {"native"}
  /\ r.status = AwaitingStatus("backtest") =>
       r.results.review_backtest.verdict \in
         Acceptable(r) \cup {"native", "fail", "incomplete"}
  /\ ~r.inherited => ~FailedReviewShown(r)

ReviewedInv(r) ==
  /\ r.error \notin {"quota", "misread"}
  /\ r.stage \in ResearchStages \/ Presented(r) =>
       r.results.review_implementation = [of |-> r.results.strategy, verdict |-> "pass"]
  /\ r.stage = "review_backtest" => r.results.backtest.of = r.results.strategy
  /\ \/ r.stage = "optimize"
     \/ r.status \in {"awaiting_optimization_approval", "awaiting_backtest_approval"}
     \/ r.status \in {"awaiting_live_approval", "approved"} /\ r.backtestRequired
     => /\ r.results.review_backtest = [of |-> r.results.backtest.run, verdict |-> "pass"]
        /\ r.results.backtest.of = r.results.strategy

StoreInv(r) == ShapeInv(r) /\ EvidenceInv(r) /\ VersionInv(r) /\ BudgetInv(r)
GateInv(r) == GrantInv(r) /\ ProposalInv(r) /\ ShownInv(r)

-----------------------------------------------------------------------------
(* What older Gateways left                                                *)

\* An older Gateway wrote well-formed orders.  It may have shown a failed
\* review at a gate and lost a passed one among the dead letters, but it let
\* nothing past a gate that the user had not approved.
ASSUME LegacyAssumption ==
  \A r \in Legacy :
    /\ r \in WorkOrder /\ r.inherited
    /\ r.status \notin {"absent", "awaiting_user_input"}
    /\ StoreInv(r) /\ GateInv(r)
=============================================================================
