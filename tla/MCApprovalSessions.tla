------------------------- MODULE MCApprovalSessions -------------------------
(* Small instance of ApprovalSessions: two approvers, one                  *)
(* instance of a chain of two nodes, approving and rejecting.              *)
EXTENDS ApprovalSessions

MCChain == <<1, 1>>
=============================================================================
