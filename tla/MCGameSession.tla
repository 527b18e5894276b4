--------------------------- MODULE MCGameSession ---------------------------
(***************************************************************************)
(* A deal, a player's turn and two AIs' turns.  The requests that meet on  *)
(* a game are a crew: a player at the table, with a trigger and two polls; *)
(* a leave of a cash session with a poll or a trigger, each with an        *)
(* eviction or a crash; two leaves with a poll; two leaves against the     *)
(* loop; and a leave crossed by fast-forward or retry and by a delete.     *)
(* The first crew starts with the deal, the others at the AIs' turns, two  *)
(* leaves with a poll at the last of them.                                 *)
(***************************************************************************)
EXTENDS GameSession

CONSTANTS s1, t1, t2, f1, g1, g2, r1, d1, l1, l2

MCTurn == <<"deal", "human", "ai", "ai">>
MCStarts == {<<>>, <<"deal", "call">>, <<"deal", "call", "ai">>}

Playing == {s1, t1, g1, g2}
Losing == {Playing, {g1, l1}, {t1, l1}}
Rejoining == {g1, l1, l2}
Crews == Losing \cup {Rejoining, {t1, t2, l1, l2}, {f1, d1, l1}, {r1, d1, l1}}

VARIABLE crew

MCInit ==
    /\ Init
    /\ crew \in Crews
    /\ Len(row) = CASE crew = Playing -> 0 [] crew = Rejoining -> 3 [] OTHER -> 2

MCNext ==
    /\ Next
    /\ \A t \in Threads \ crew : pc'[t] = "idle"
    /\ crew \notin Losing => losses' = losses
    /\ crew' = crew

MCSpec == MCInit /\ [][MCNext]_<<vars, crew>> /\ Fairness
=============================================================================
