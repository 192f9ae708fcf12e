-------------------------- MODULE MCPayoutExecution --------------------------
(***************************************************************************)
(* Small instances of PayoutExecution for TLC.                             *)
(***************************************************************************)
EXTENDS PayoutExecution, TLC

CONSTANTS w1, w2, p1, p2, m1, m2, m3, m4

\* Payout p1 was published twice; m4 is not a job at all.
TwicePublished == (m1 :> p1) @@ (m2 :> p1) @@ (m4 :> Malformed)

\* Two payouts, one of a client without webhook.
OnePerPayout == (m1 :> p1) @@ (m3 :> p2)
=============================================================================
