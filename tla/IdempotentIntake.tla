-------------------------- MODULE IdempotentIntake --------------------------
(***************************************************************************)
(* What payout intake promises its clients, without tables, transactions   *)
(* or locks: a ledger of accepted payouts that only grows, one entry per   *)
(* (client, idempotency key) and per (client, external id), and answers    *)
(* that the ledger justifies at the moment they are given.                 *)
(***************************************************************************)

CONSTANTS Calls, Requests, FundingOwner, NoKey, NoExternalId, Malformed, None

VARIABLES
    asked,      \* asked[c]: the request of call c, or None
    accepted,   \* the accepted payouts, with the request each was made from
    answer      \* answer[c]: the answer of call c

vars == <<asked, accepted, answer>>

Hash(r) == <<r.client, r.fundingSource, r.externalId, r.details>>

SameKey(r, s) == r.client = s.client /\ r.key = s.key
SameExternalId(r, s) ==
    /\ r.externalId # NoExternalId
    /\ r.client = s.client
    /\ r.externalId = s.externalId

Wellformed(r) == r.key # NoKey /\ r.details # Malformed
Funded(r) ==
    /\ r.fundingSource \in DOMAIN FundingOwner
    /\ FundingOwner[r.fundingSource] = r.client

Unanswered(c) == asked[c] # None /\ answer[c].code = "none"

Init ==
    /\ asked = [c \in Calls |-> None]
    /\ accepted = {}
    /\ answer = [c \in Calls |-> [code |-> "none", payout |-> None]]

Tell(c, code, payout) ==
    /\ Unanswered(c)
    /\ answer' = [answer EXCEPT ![c] = [code |-> code, payout |-> payout]]
    /\ UNCHANGED asked

\* The request of call c enters the ledger.
Enter(c) ==
    LET r == asked[c] IN
    /\ Wellformed(r) /\ Funded(r)
    /\ \A a \in accepted :
          ~SameKey(r, a.request) /\ ~SameExternalId(r, a.request)
    /\ accepted' = accepted \cup {[id |-> c, request |-> r]}

Ask(c, r) ==
    /\ asked[c] = None
    /\ asked' = [asked EXCEPT ![c] = r]
    /\ UNCHANGED <<accepted, answer>>

\* A request that fails validation is refused as it arrives.
AskMalformed(c, r) ==
    /\ asked[c] = None
    /\ ~Wellformed(r)
    /\ asked' = [asked EXCEPT ![c] = r]
    /\ \E code \in {"invalidIdempotencyKey", "invalidPayout"} :
          answer' = [answer EXCEPT ![c] = [code |-> code, payout |-> None]]
    /\ UNCHANGED accepted

Accept(c) == Unanswered(c) /\ Enter(c) /\ UNCHANGED <<asked, answer>>

\* The entry is made, and the client is told of an internal error.
AcceptUnacknowledged(c) == Tell(c, "internal", None) /\ Enter(c)

AnswerCreated(c) ==
    /\ Unanswered(c)
    /\ \E a \in accepted :
          /\ SameKey(asked[c], a.request)
          /\ Hash(asked[c]) = Hash(a.request)
          /\ Tell(c, "created", a.id)
    /\ UNCHANGED accepted

AnswerConflict(c) ==
    /\ Tell(c, "idempotencyConflict", None)
    /\ \E a \in accepted :
          SameKey(asked[c], a.request) /\ Hash(asked[c]) # Hash(a.request)
    /\ UNCHANGED accepted

AnswerDuplicate(c) ==
    /\ Tell(c, "duplicateExternalId", None)
    /\ \E a \in accepted : SameExternalId(asked[c], a.request)
    /\ UNCHANGED accepted

AnswerUnfunded(c) ==
    /\ Tell(c, "fundingSourceNotFound", None)
    /\ ~Funded(asked[c])
    /\ UNCHANGED accepted

AnswerInternal(c) == Tell(c, "internal", None) /\ UNCHANGED accepted

Next ==
    \E c \in Calls :
        \/ \E r \in Requests : Ask(c, r) \/ AskMalformed(c, r)
        \/ Accept(c)
        \/ AcceptUnacknowledged(c)
        \/ AnswerCreated(c)
        \/ AnswerConflict(c)
        \/ AnswerDuplicate(c)
        \/ AnswerUnfunded(c)
        \/ AnswerInternal(c)

Spec == Init /\ [][Next]_vars
=============================================================================
