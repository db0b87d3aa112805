----------------------------- MODULE MCFollowup -----------------------------
(* Instance of Followup for TLC. *)
EXTENDS Followup
=============================================================================
