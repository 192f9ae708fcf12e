---------------------------- MODULE MCOutboxRelay ----------------------------
(***************************************************************************)
(* Small instances of OutboxRelay for TLC.                                 *)
(***************************************************************************)
EXTENDS OutboxRelay, TLC

CONSTANTS r1, r2, job1, job2, webhook

\* The webhook event is the oldest, and of a type the relays do not take.
Order == (webhook :> 0) @@ (job1 :> 1) @@ (job2 :> 2)
=============================================================================
