---------------------------- MODULE MCApprovalFeed ----------------------------
(* Instances of ApprovalFeed for TLC.                                      *)
EXTENDS ApprovalFeed, TLC
=============================================================================
