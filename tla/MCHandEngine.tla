---------------------------- MODULE MCHandEngine ----------------------------
(* Three seats, one human, uneven stacks of a few big blinds. *)
EXTENDS HandEngine

MCPlayers == {"ann", "bob", "cy"}
MCRing == [p \in MCPlayers |-> CASE p = "ann" -> 0 [] p = "bob" -> 1 [] p = "cy" -> 2]
MCHumans == {"ann"}

Stacks(a, b, c) ==
    [p \in MCPlayers |-> CASE p = "ann" -> a [] p = "bob" -> b [] p = "cy" -> c]

\* Short, middling and deep stacks at once; two ways for a tie of stacks.
MCUneven == {Stacks(5, 3, 1), Stacks(4, 4, 2), Stacks(8, 8, 7), Stacks(2, 6, 5)}

\* One hand is enough for the question whether a hand ends.
MCFew == {Stacks(5, 3, 1), Stacks(4, 2, 4)}
=============================================================================
