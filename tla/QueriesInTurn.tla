--------------------------- MODULE QueriesInTurn ---------------------------
(***************************************************************************)
(* What an HttpEngine promises a program that starts one query at a time,  *)
(* with no replies, flags and timers in it.  A query is open until it is   *)
(* complete or has failed.  It hears one host, that of the query until it  *)
(* is led elsewhere, and starts over each time it is led.  The answer is   *)
(* all it has heard from where it was led last, or nothing.                *)
(***************************************************************************)
EXTENDS Naturals, Sequences

CONSTANTS
    Hosts,    \* numbers, each that of the query that asks the host
    NoHost,   \* the one that no query asks
    Pieces    \* that bodies arrive in

VARIABLES
    asked,    \* number of queries made
    query,    \* the query under way, or NoQuery
    answers   \* what each query that is over was answered

turnVars == <<asked, query, answers>>

\* own says that a relative redirection is resolved against the query's own host.
NoQuery == [phase |-> "none", own |-> FALSE, host |-> NoHost, target |-> NoHost, heard |-> <<>>]

TurnsInit ==
    /\ asked = 0
    /\ query = NoQuery
    /\ answers = <<>>

Ask(get) ==
    /\ query = NoQuery
    /\ asked' = asked + 1
    /\ query' = [phase |-> "open", own |-> get, host |-> asked + 1, target |-> NoHost,
                 heard |-> <<>>]
    /\ UNCHANGED answers

Open == query.phase = "open"

Hear(p) ==
    /\ Open
    /\ query' = [query EXCEPT !.heard = Append(@, p)]
    /\ UNCHANGED <<asked, answers>>

\* The query is led to the host named by target, or by a relative URL.
Follow(target) ==
    /\ Open
    /\ \E host \in Hosts :
          /\ target # NoHost => host = target
          /\ target = NoHost /\ query.own => host = query.host
          /\ query' = [phase |-> "open", own |-> TRUE, host |-> host, target |-> target,
                       heard |-> <<>>]
    /\ UNCHANGED <<asked, answers>>

Complete ==
    /\ Open
    /\ query' = [query EXCEPT !.phase = "complete"]
    /\ UNCHANGED <<asked, answers>>

\* A query may be cancelled after it was complete and before it is answered.
Fail ==
    /\ Open \/ query.phase = "complete"
    /\ query' = [query EXCEPT !.phase = "failed"]
    /\ UNCHANGED <<asked, answers>>

Answer ==
    /\ query.phase \in {"complete", "failed"}
    /\ answers' = Append(answers,
           [query |-> asked,
            data |-> IF query.phase = "failed" THEN <<>> ELSE query.heard])
    /\ query' = NoQuery
    /\ UNCHANGED asked

TurnsNext ==
    \/ \E get \in BOOLEAN : Ask(get)
    \/ \E p \in Pieces : Hear(p)
    \/ \E target \in Hosts : Follow(target)
    \/ Complete
    \/ Fail
    \/ Answer

TurnsSpec == TurnsInit /\ [][TurnsNext]_turnVars
=============================================================================
