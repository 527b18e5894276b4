------------------------------ MODULE MCPayout ------------------------------
(***************************************************************************)
(* Three paid places in a field of three; "syn" is a synthetic seat.  The  *)
(* callers that can meet on one tournament are a crew: requests with the   *)
(* watchdog, the live table with a request and the watchdog, and, for a    *)
(* tournament without a human, the world tick with the watchdog.           *)
(***************************************************************************)
EXTENDS Payout

MCCurve == <<38, 24, 15>>

MCPrize == <<3, 2, 1>>

Requesting == {"advance", "play-out", "sweep"}
Live       == {"table", "play-out", "sweep"}
Autonomous == {"tick", "sweep"}

VARIABLE crew

MCInit == Init /\ crew \in {Requesting, Live, Autonomous}

\* Without a crash the last hand is dealt once, so its outcome may as well be
\* drawn beforehand.
DrawnBefore == crashes' = crashes /\ session' \in {session, fate}

MCNext ==
    /\ Next
    /\ \A c \in Callers \ crew : pc'[c] = "idle"
    /\ crew = Live => DrawnBefore
    /\ crew' = crew

MCFairness ==
    /\ \A c \in Callers : WF_vars(c \in crew /\ Continues(c))
    /\ \A w \in Watchdogs : WF_vars(w \in crew /\ Resume(w))

MCSpec == MCInit /\ [][MCNext]_<<vars, crew>> /\ MCFairness
=============================================================================
