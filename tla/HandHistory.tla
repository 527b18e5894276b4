---------------------------- MODULE HandHistory ----------------------------
(***************************************************************************)
(* The hand engine with a history variable for the rule on short all-ins:  *)
(* closed holds the players who have acted and since then have faced only  *)
(* all-ins smaller than a full raise.  It restricts no step of the engine. *)
(***************************************************************************)
EXTENDS HandEngine

VARIABLE closed

hvars == <<vars, closed>>

RaisedBy == HighestBet' - HighestBet

HInit == Init /\ closed = {}

HNext ==
    /\ Next
    /\ closed' = CASE phase \notin BettingPhases \/ phase' # phase -> {}
                   [] RaisedBy >= lastRaise -> {}
                   [] RaisedBy > 0 /\ RaisedBy < lastRaise ->
                        (closed \cup (acted \cap CanAct)) \ {cur}
                   [] awaiting /\ ~awaiting' -> closed \ {cur}
                   [] OTHER -> closed

HSpec == HInit /\ [][HNext]_hvars

\* What the comment in player_all_in says ("A "short all-in" doesn't reopen
\* betting or change the min raise"): a player who has acted and now faces only
\* a short all-in may call or fold but is not offered a raise.
ShortAllInDoesNotReopen ==
    awaiting /\ ~runItOut /\ cur \in closed => "raise" \notin Options
=============================================================================
