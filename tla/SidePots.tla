------------------------------ MODULE SidePots ------------------------------
(***************************************************************************)
(* The division of the pot at the end of a hand: determine_winner and      *)
(* award_pot_winnings of poker/poker_game.py.                              *)
(*                                                                         *)
(* determine_winner consumes the players' contributions tier by tier, from *)
(* the smallest stake still in the hand upwards.  One pass of its while    *)
(* loop is Tier; the whole loop is Payout.  The hole cards appear only as  *)
(* rank[p], the place of p's hand in the order of hands (1 is best, equal  *)
(* ranks tie): nothing else of a card reaches this code.                   *)
(*                                                                         *)
(* NoOddChip, OddChipsRightOfDealer and WorstHands are faulty variants of  *)
(* the operator that follows each: what a slip in that code would do.      *)
(***************************************************************************)
EXTENDS Integers, FiniteSets, Functions, FiniteSetsExt

CONSTANT Players

ASSUME PlayersFinite == IsFiniteSet(Players)

Lesser(a, b) == IF a <= b THEN a ELSE b

(***************************************************************************)
(* The local variables of the loop: what each player's contribution still  *)
(* holds, what each has won from a pot, what has been handed back to each  *)
(* and the number of pots made so far.                                     *)
(***************************************************************************)
LoopState == [rem      : [Players -> Nat],
              won      : [Players -> Nat],
              returned : [Players -> Nat],
              pots     : Nat]

LoopStart(bet) == [rem      |-> bet,
                   won      |-> [p \in Players |-> 0],
                   returned |-> [p \in Players |-> 0],
                   pots     |-> 0]

\* Every chip of the pot, wherever it is.
Chips(t) == SumFunction(t.rem) + SumFunction(t.won) + SumFunction(t.returned)

\* active_players_sorted: the players who did not fold and still hold a
\* contribution.  Every one of them holds at least the smallest, so they are
\* also the players eligible for the next tier.
Eligible(t, folded) == {p \in Players \ folded : t.rem[p] > 0}

TierContribution(t, folded) == Min({t.rem[p] : p \in Eligible(t, folded)})

\* Every contribution, the folded ones too, gives the tier at most what it holds.
Taken(t, tier) == [p \in Players |-> Lesser(t.rem[p], tier)]

WorstHands(E, rank) == {p \in E : \A q \in E : rank[p] >= rank[q]}

TierWinners(E, rank) == {p \in E : \A q \in E : rank[p] <= rank[q]}

NoOddChip(p, W, odd, dist) == 0

OddChipsRightOfDealer(p, W, odd, dist) ==
    IF Cardinality({q \in W : dist[q] > dist[p]}) < odd THEN 1 ELSE 0

\* Odd chips go one each to the winners closest to the dealer's left.
\* dist[p] counts seats from the dealer; the dealer's own distance is the
\* number of seats, so the dealer comes last.
OddChip(p, W, odd, dist) ==
    IF Cardinality({q \in W : dist[q] < dist[p]}) < odd THEN 1 ELSE 0

\* A tier that is contested, or the main pot.
ContestedTier(t, folded, rank, dist) ==
    LET E     == Eligible(t, folded)
        tier  == TierContribution(t, folded)
        taken == Taken(t, tier)
        pot   == SumFunction(taken)
        W     == TierWinners(E, rank)
        n     == Cardinality(W)
    IN  [t EXCEPT
            !.rem  = [p \in Players |-> t.rem[p] - taken[p]],
            !.won  = [p \in Players |->
                        IF p \in W
                        THEN t.won[p] + (pot \div n) + OddChip(p, W, pot % n, dist)
                        ELSE t.won[p]],
            !.pots = t.pots + 1]

\* Only p is left in a side tier.  p covers the folded players' dead money up
\* to what p holds and wins it; what p holds above the largest contribution
\* covered was never called and goes back to p.
LoneTier(t, p) ==
    LET mine  == t.rem[p]
        dead  == {q \in Players \ {p} : t.rem[q] > 0}
        taken == [q \in dead |-> Lesser(t.rem[q], mine)]
        cover == IF dead = {} THEN 0 ELSE Max({taken[q] : q \in dead})
    IN  [t EXCEPT
            !.rem      = [q \in Players |->
                            CASE q = p       -> 0
                              [] q \in dead  -> t.rem[q] - taken[q]
                              [] OTHER       -> t.rem[q]],
            !.won      = [t.won EXCEPT ![p] = @ + IF dead = {} THEN 0
                                                  ELSE cover + SumFunction(taken)],
            !.returned = [t.returned EXCEPT ![p] = @ + (mine - cover)],
            !.pots     = IF dead = {} THEN t.pots ELSE t.pots + 1]

DoneWhenEmpty(t, folded) == \A p \in Players : t.rem[p] = 0

LoopDone(t, folded) == Eligible(t, folded) = {}

\* One pass of the loop.
Tier(t, folded, rank, dist) ==
    LET E == Eligible(t, folded)
    IN  IF Cardinality(E) = 1 /\ t.pots > 0
        THEN LoneTier(t, CHOOSE p \in E : TRUE)
        ELSE ContestedTier(t, folded, rank, dist)

\* The sweep after the loop: whatever is left belongs to folded players who
\* put in more than any live player could match.
Swept(t) == [t EXCEPT
                !.rem      = [p \in Players |-> 0],
                !.returned = [p \in Players |-> t.returned[p] + t.rem[p]]]

\* Every pass leaves at least one live player fewer with chips in the pot.
Passes == Cardinality(Players)

\* The whole call.  With nobody live and contributing determine_winner returns before
\* the loop and the sweep, and nothing is paid.
Payout(bet, folded, rank, dist) ==
    LET Pass == [t \in LoopState |->
                    IF LoopDone(t, folded) THEN t ELSE Tier(t, folded, rank, dist)]
        Loop[k \in 0..Passes] ==
            IF k = 0 THEN LoopStart(bet) ELSE Pass[Loop[k - 1]]
        Paid == [t \in LoopState |-> [p \in Players |-> t.won[p] + t.returned[p]]]
    IN  IF LoopDone(LoopStart(bet), folded)
        THEN [p \in Players |-> 0]
        ELSE Paid[Swept(Loop[Passes])]
=============================================================================
