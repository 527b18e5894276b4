---------------------------- MODULE MCTournament ----------------------------
(* Seven entrants at tables of three: three tables. *)
EXTENDS Tournament

MCSeven == {"me", "a1", "a2", "a3", "a4", "a5", "a6"}

Place == [me |-> 1, a1 |-> 2, a2 |-> 3, a3 |-> 4, a4 |-> 5, a5 |-> 6, a6 |-> 7]

\* Every entrant by the number of those entered no later.
MCEntry == [p \in Players |-> Cardinality({q \in Players : Place[q] <= Place[p]})]
=============================================================================
