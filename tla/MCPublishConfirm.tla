-------------------------- MODULE MCPublishConfirm --------------------------
(***************************************************************************)
(* A small instance of PublishConfirm for TLC: it needs its bounds only.   *)
(***************************************************************************)
EXTENDS PublishConfirm
=============================================================================
