-------------------------- MODULE MCStudioWorkflow --------------------------
(* Model-checking instance of StudioWorkflow.  Projects do not interact, so *)
(* one project shows every behaviour of the machine; the proofs in          *)
(* StudioWorkflowProofs cover any number of them.                           *)
EXTENDS StudioWorkflow
=============================================================================
