-------------------------- MODULE MCPotDistribution --------------------------
(* Three seats; player i sits i seats to the left of the dealer, so player 3 *)
(* is the dealer.                                                            *)
EXTENDS PotDistribution

MCPlayers == 1..3
MCDist == [p \in MCPlayers |-> p]
=============================================================================
