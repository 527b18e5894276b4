---------------------------- MODULE MCLiveTable ----------------------------
(* Four entrants at two tables of three; the human is the one to be moved. *)
EXTENDS LiveTable

MCFour == {"me", "a1", "a2", "a3"}
MCPlace == [a1 |-> 1, a2 |-> 2, a3 |-> 3, me |-> 4]
=============================================================================
