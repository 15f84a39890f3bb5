------------------------- MODULE MCWorkflowApprovals -------------------------
(* Small instances of WorkflowApprovals for TLC.                             *)
EXTENDS WorkflowApprovals

=============================================================================
