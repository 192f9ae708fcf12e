---------------------------- MODULE PayoutPromise ----------------------------
(***************************************************************************)
(* What becomes of a payout, without outbox, queue, claims, locks or       *)
(* deliveries: it is accepted, marked, paid and concluded.  How often it   *)
(* is paid, and whether a conclusion may be taken back, is told by the     *)
(* trouble there was: a crash, an error, a lost acknowledgement, a lost    *)
(* connection, or a claim that was overtaken by its timeout.               *)
(***************************************************************************)
EXTENDS Naturals, Sequences

CONSTANTS Payouts, Subscribed, Outcomes

VARIABLES
    accepted,   \* the payouts that were accepted
    status,     \* status[p]: what a client that asks is told
    paid,       \* paid[p]: the provider's answers for p, in order
    told,       \* told[p]: the outcomes of p announced to its client
    trouble     \* how much went wrong so far

vars == <<accepted, status, paid, told, trouble>>

Init ==
    /\ accepted = {}
    /\ status = [p \in Payouts |-> "pending"]
    /\ paid = [p \in Payouts |-> <<>>]
    /\ told = [p \in Payouts |-> <<>>]
    /\ trouble = 0

Accept(p) ==
    /\ p \notin accepted
    /\ accepted' = accepted \cup {p}
    /\ UNCHANGED <<status, paid, told, trouble>>

\* Whoever commits may lose the acknowledgement of that very commit.
MayGoWrong == trouble' \in {trouble, trouble + 1}

\* An accepted payout is marked as being processed.  One that was concluded is
\* taken up again only after trouble.
Mark(p) ==
    /\ p \in accepted
    /\ status[p] # "pending" => trouble > 0
    /\ status' = [status EXCEPT ![p] = "processing"]
    /\ UNCHANGED <<accepted, paid, told>>
    /\ MayGoWrong

\* The provider is asked for a payout that was accepted and marked, and again
\* for each trouble there was, at most.
Pay(p, o) ==
    /\ p \in accepted
    /\ status[p] # "pending"
    /\ Len(paid[p]) <= trouble
    /\ paid' = [paid EXCEPT ![p] = Append(@, o)]
    /\ UNCHANGED <<accepted, status, told, trouble>>

\* The payout takes an outcome that was answered for it, and a client with a
\* webhook URL is told of that outcome in the same step, once for each answer.
Conclude(p, o) ==
    /\ \E i \in 1 .. Len(paid[p]) : paid[p][i] = o
    /\ status[p] # "pending"
    /\ status' = [status EXCEPT ![p] = o]
    /\ IF p \in Subscribed
       THEN /\ Len(told[p]) < Len(paid[p])
            /\ told' = [told EXCEPT ![p] = Append(@, o)]
       ELSE UNCHANGED told
    /\ UNCHANGED <<accepted, paid>>
    /\ MayGoWrong

GoWrong ==
    /\ trouble' = trouble + 1
    /\ UNCHANGED <<accepted, status, paid, told>>

Next ==
    \/ \E p \in Payouts :
          \/ Accept(p)
          \/ Mark(p)
          \/ \E o \in Outcomes : Pay(p, o) \/ Conclude(p, o)
    \/ GoWrong

Spec == Init /\ [][Next]_vars
=============================================================================
