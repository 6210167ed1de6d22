------------------------ MODULE MCApprovalGovernance ------------------------
(* Small instances of ApprovalGovernance; the .cfg files set the bounds. *)
EXTENDS ApprovalGovernance
=============================================================================
