--------------------------- MODULE MCPayoutIntake ---------------------------
(***************************************************************************)
(* Small instances of PayoutIntake for TLC.                                *)
(***************************************************************************)
EXTENDS PayoutIntake, TLC

CONSTANTS c1, c2, c3, alice, bob, k1, k2, ext, fundsA, fundsB, d1, d2

Req(client, key, source, externalId, details) ==
    [client |-> client, key |-> key, fundingSource |-> source,
     externalId |-> externalId, details |-> details]

MCFundingOwner == (fundsA :> alice) @@ (fundsB :> bob)

\* One client's request, and the requests that differ from it in one way.
First        == Req(alice, k1, fundsA, ext, d1)
OtherBody    == Req(alice, k1, fundsA, ext, d2)
OtherKey     == Req(alice, k2, fundsA, ext, d1)
NoExternal   == Req(alice, k1, fundsA, NoExternalId, d1)
OtherClient  == Req(bob, k1, fundsB, ext, d1)
ForeignFunds == Req(bob, k2, fundsA, ext, d1)
BlankKey     == Req(alice, NoKey, fundsA, ext, d1)
BadDetails   == Req(alice, k1, fundsA, ext, Malformed)

\* Every kind of request, for the safety properties.
AllRequests ==
    {First, OtherBody, OtherKey, NoExternal, OtherClient, ForeignFunds,
     BlankKey, BadDetails}

\* The requests that contend for a key, for an external id, or for both.
ContendingRequests == {First, OtherBody, OtherKey}

Symmetry == Permutations(Calls)
=============================================================================
