----------------------------- MODULE MCResubmit -----------------------------
(* Resubmit, for the actions of MCBank. *)
EXTENDS Resubmit, MCBank
=============================================================================
