------------------------------- MODULE MCHands -------------------------------
(* Two questions of one run, each with its own stacks: "many" hands in a row *)
(* for the safety of the engine, and "one" under fairness for its end.       *)
EXTENDS MCHandEngine

VARIABLE lane

MCStacks == MCUneven \cup MCFew

lvars == <<vars, lane>>

LInit == Init /\ \/ lane = "many" /\ stack \in MCUneven
                 \/ lane = "one" /\ stack \in MCFew

\* The lane of one hand stops when the hand is over.
LNext == /\ UNCHANGED lane
         /\ \/ lane = "many" /\ Next
            \/ lane = "one" /\ phase # "HAND_OVER" /\ Next
            \/ lane = "one" /\ phase = "HAND_OVER" /\ UNCHANGED vars

Server == lane = "one" /\ phase # "HAND_OVER" /\ ServerStep /\ UNCHANGED lane

LSpec == LInit /\ [][LNext]_lvars /\ WF_lvars(Server)

\* Once a hand is under way the server brings it to its end or to a human's turn,
\* whatever the players do: AI players never loop and no run-out stalls
\* (progress_game and run_until_player_action): HandCompletes of one hand.
OneHandCompletes == lane = "one" => HandCompletes
=============================================================================
