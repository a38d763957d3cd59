------------------------- MODULE MCApprovalMessage -------------------------
(* The instance of MCApproval with all notifications switched on.            *)
EXTENDS MCApproval, ApprovalMessage

MCNotify == [it \in Item |-> {"approved", "rejected", "ignored", "reset"}]
=============================================================================
