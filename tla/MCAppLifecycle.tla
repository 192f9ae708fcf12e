--------------------------- MODULE MCAppLifecycle ---------------------------
(***************************************************************************)
(* A small instance of AppLifecycle for TLC.                               *)
(***************************************************************************)
EXTENDS AppLifecycle

CONSTANTS q1, q2
=============================================================================
