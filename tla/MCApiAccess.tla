----------------------------- MODULE MCApiAccess -----------------------------
(***************************************************************************)
(* A small instance of ApiAccess for TLC: a caller that walks the lists of *)
(* its client, while a second creates and reads for two clients and a      *)
(* third creates, too.                                                     *)
(***************************************************************************)
EXTENDS ApiAccess, TLC

CONSTANTS walker, writer, maker, alice, bob, aliceKey, bobKey, unknownKey

Owner == (aliceKey :> alice) @@ (bobKey :> bob)

Request(operation, kind, key) ==
    [operation |-> operation, kind |-> kind, key |-> key, id |-> None,
     limit |-> None, offset |-> None, amount |-> None]

AmountsAsked == {Malformed} \cup
    {[int |-> 0, scale |-> 0], [int |-> 120, scale |-> 0], [int |-> 1005, scale |-> 3],
     [int |-> 7, scale |-> 2], [int |-> 4, scale |-> 3], [int |-> 1000, scale |-> 0]}

List(kind, key, limit) == [Request("list", kind, key) EXCEPT !.limit = limit]

Lists ==
    {List("source", aliceKey, n) : n \in {None, 0, 3}}
    \cup {List("payout", aliceKey, n) : n \in {None, 2, Malformed}}
    \cup {[Request("list", "source", aliceKey) EXCEPT !.offset = -1]}

Others ==
    {Request("me", None, aliceKey), Request("me", None, unknownKey),
     Request("create", "source", aliceKey), Request("create", "source", bobKey),
     [Request("create", "source", aliceKey) EXCEPT !.id = Malformed],
     [Request("get", "source", bobKey) EXCEPT !.id = 1],
     [Request("get", "payout", aliceKey) EXCEPT !.id = 2],
     [Request("get", "payout", aliceKey) EXCEPT !.id = Malformed],
     List("payout", bobKey, 2)}
    \cup {[Request("create", "payout", aliceKey) EXCEPT !.id = 1, !.amount = a]
              : a \in AmountsAsked}

RequestsByCaller ==
    (walker :> Lists) @@ (writer :> Others) @@ (maker :> {Request("create", "source", aliceKey)})
=============================================================================
