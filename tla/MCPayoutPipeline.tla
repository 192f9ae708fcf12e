--------------------------- MODULE MCPayoutPipeline ---------------------------
(***************************************************************************)
(* A small instance of PayoutPipeline for TLC.                             *)
(***************************************************************************)
EXTENDS PayoutPipeline, TLC

CONSTANTS r1, r2, w1, w2, p1

Order == p1 :> 0
=============================================================================
