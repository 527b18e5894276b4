--------------------------- MODULE PotDistribution ---------------------------
(***************************************************************************)
(* determine_winner as a state machine: the input of one call, then one    *)
(* step per pass of its while loop and one for the sweep that follows it.  *)
(* What the finished call must have done is stated layer by layer, chip by *)
(* chip, without tiers, pots or remainders.                                *)
(***************************************************************************)
EXTENDS SidePots

CONSTANTS MaxBet,   \* bound: the largest contribution of one player
          Scale,    \* a chip, in parts that divide evenly among any number of winners
          dist      \* dist[p]: seats from the dealer, the dealer's own = number of seats

ASSUME MaxBetAssumption == MaxBet \in Nat \ {0}
ASSUME ScaleAssumption == /\ Scale \in Nat \ {0}
                          /\ \A n \in 1..Cardinality(Players) : Scale % n = 0
ASSUME DistAssumption == /\ dist \in [Players -> 1..Cardinality(Players)]
                         /\ \A p, q \in Players : dist[p] = dist[q] => p = q

VARIABLES bet,      \* player.bet: contribution to this hand
          folded,   \* the players with is_folded
          rank,     \* place of each hand, 1 is best
          t,        \* the loop's local variables
          pc        \* "loop", "sweep" or "done"

vars == <<bet, folded, rank, t, pc>>

TypeOK == /\ bet \in [Players -> Nat]
          /\ folded \in SUBSET Players
          /\ rank \in [Players -> Nat]
          /\ t \in LoopState
          /\ pc \in {"loop", "sweep", "done"}

\* A call that gets past the early return: somebody live has contributed.
Init == /\ bet \in [Players -> 0..MaxBet]
        /\ folded \in SUBSET Players
        /\ rank \in [Players -> 1..Cardinality(Players)]
        /\ t = LoopStart(bet)
        /\ pc = "loop"
        /\ \E p \in Players \ folded : bet[p] > 0

\* One pass over a tier with several live players, or over the main pot.
ContestTier ==
    /\ pc = "loop"
    /\ ~LoopDone(t, folded)
    /\ Cardinality(Eligible(t, folded)) > 1 \/ t.pots = 0
    /\ t' = ContestedTier(t, folded, rank, dist)
    /\ UNCHANGED <<bet, folded, rank, pc>>

\* One pass over a side tier that only p can still reach.
SettleLoneTier ==
    /\ pc = "loop"
    /\ t.pots > 0
    /\ \E p \in Players : /\ Eligible(t, folded) = {p}
                          /\ t' = LoneTier(t, p)
    /\ UNCHANGED <<bet, folded, rank, pc>>

LeaveLoop ==
    /\ pc = "loop"
    /\ LoopDone(t, folded)
    /\ pc' = "sweep"
    /\ UNCHANGED <<bet, folded, rank, t>>

Sweep ==
    /\ pc = "sweep"
    /\ t' = Swept(t)
    /\ pc' = "done"
    /\ UNCHANGED <<bet, folded, rank>>

Next == ContestTier \/ SettleLoneTier \/ LeaveLoop \/ Sweep

Spec == Init /\ [][Next]_vars

\* The call runs on one thread and nothing in it waits.
FairSpec == Spec /\ WF_vars(Next)

-----------------------------------------------------------------------------
Live == Players \ folded

Paid(p) == t.won[p] + t.returned[p]

\* Layer k is the k-th chip of every contribution that has one.
Contributors(k) == {p \in Players : bet[p] >= k}
Contenders(k) == Contributors(k) \cap Live

\* The tiers p takes part in: one for each height of stake among live players
\* that p reaches.
Tiers(p) == Cardinality({bet[q] : q \in {r \in Live : 0 < bet[r] /\ bet[r] <= bet[p]}})

\* p's exact share of layer k, in parts: the layer is split among its best
\* contenders, or goes back where it came from when no live player reaches it.
Share(p, k) ==
    LET W == {q \in Contenders(k) : \A r \in Contenders(k) : rank[q] <= rank[r]}
    IN  CASE Contenders(k) = {} -> IF p \in Contributors(k) THEN Scale ELSE 0
          [] p \in W            -> (Scale * Cardinality(Contributors(k))) \div Cardinality(W)
          [] OTHER              -> 0

Exact(p) == SumFunction([k \in 1..MaxBet |-> Share(p, k)])

\* No pass of the loop creates or loses a chip, whatever order the tiers are
\* consumed in and however the odd chips fall (determine_winner's comment:
\* "so chips are always conserved - no tier can strand them").
ChipsConserved == Chips(t) = SumFunction(bet)

\* The tiers, side pots, dead money and odd chips add up to the layer by layer
\* division: exactly where no hands tie, and otherwise within one chip for
\* every tier the player takes part in.  And they are Payout, the function by
\* which the hand engine awards the hand.
MatchesLayers ==
    pc = "done" =>
        \A p \in Players :
            LET off == Scale * Paid(p) - Exact(p)
            IN  /\ off = 0 \/ \E q \in Live \ {p} : rank[q] = rank[p]
                /\ off <= Scale * Tiers(p) /\ -off <= Scale * Tiers(p)
                /\ Paid(p) = Payout(bet, folded, rank, dist)[p]

\* Of two tied players with equal stakes the one nearer the dealer's left never
\* gets less, and at most one chip per tier more.
OddChipsLeftOfDealer ==
    pc = "done" =>
        \A p, q \in Live :
            (bet[p] = bet[q] /\ rank[p] = rank[q] /\ dist[p] < dist[q]) =>
                Paid(p) - Paid(q) \in 0..Tiers(p)

\* The loop ends for every input.
Terminates == <>(pc = "done")
=============================================================================
