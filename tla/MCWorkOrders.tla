---------------------------- MODULE MCWorkOrders ----------------------------
(* Model-checking instances of WorkOrders: what users submit in each run.   *)
EXTENDS WorkOrdersInvariant

Research == {<<"strategy", "strategy", TRUE>>}
Direct == {<<"strategy", "signal", FALSE>>}
SignalResearch == {<<"strategy", "signal", TRUE>>}
Repair == {<<"maintenance", "signal", FALSE>>}
Evidenced == Research \cup SignalResearch
Anything == Research \cup Direct \cup SignalResearch \cup Repair

\* What older Gateways left behind: an implementation gate and a backtest gate
\* that a failed review had opened, reports without a verdict or without checks
\* at a gate, and dead letters whose review said PASS.
Built ==
  [NewOrder("strategy", "signal", FALSE) EXCEPT
     !.inherited = TRUE, !.stage = "approval",
     !.made = 1, !.manifests = {1}, !.version = 1, !.recorded = 1,
     !.results.strategy = 1, !.results.review_implementation = [of |-> 1, verdict |-> "pass"]]
Backtested ==
  [Built EXCEPT
     !.backtestRequired = TRUE, !.approvals["implementation"] = "yes", !.approvedFor = 1,
     !.results.dataset = 1, !.runs = 1, !.report = [of |-> 1, run |-> 1],
     !.results.backtest = [of |-> 1, run |-> 1],
     !.results.review_backtest = [of |-> 1, verdict |-> "fail"],
     !.status = AwaitingStatus("backtest")]
OlderGateways ==
  {[Built EXCEPT !.status = AwaitingStatus("implementation"), !.attempts = used,
                 !.results.review_implementation.verdict = verdict] :
     verdict \in {"fail", "incomplete", "unchecked"}, used \in {0, MaxAttempts - 1}}
  \cup {[Backtested EXCEPT !.results.review_backtest.verdict = verdict] :
          verdict \in {"fail", "unchecked"}}
  \cup {[Built EXCEPT !.status = "dead_letter", !.stage = "strategy", !.error = "misread",
                      !.attempts = MaxAttempts,
                      !.results.review_implementation.verdict = verdict] :
          verdict \in {"pass", "unchecked"}}
=============================================================================
