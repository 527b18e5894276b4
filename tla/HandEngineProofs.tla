-------------------------- MODULE HandEngineProofs --------------------------
(***************************************************************************)
(* The hand engine for any number of players, any stacks, any blinds and   *)
(* any number of hands: one inductive invariant and the safety properties  *)
(* of HandEngine that follow from it.                                      *)
(***************************************************************************)
EXTENDS HandEngine, SidePotTheorems

-----------------------------------------------------------------------------
(* The seats. *)

LEMMA SeatsType ==
  /\ Cardinality(Players) \in Nat /\ Cardinality(Players) >= 2
  /\ Ring \in [Players -> 0..(Cardinality(Players) - 1)]
BY PlayersFinite, FS_CardinalityType, SetsAssumption, RingAssumption

\* Within a lap every other seat is at its own distance, and one's own seat is
\* the farthest.
LEMMA DistanceFacts ==
  ASSUME NEW p \in Players
  PROVE  /\ \A q \in Players : Distance(p, q) \in 1..Cardinality(Players)
         /\ \A q, r \in Players : Distance(p, q) = Distance(p, r) => q = r
         /\ Distance(p, p) = Cardinality(Players)
<1> DEFINE n == Cardinality(Players)
           d(q) == (Ring[q] - Ring[p]) % n
<1>1. n \in Nat /\ n >= 2 /\ \A q \in Players : Ring[q] \in 0..(n - 1)
  BY SeatsType
<1> HIDE DEF n
<1>2. \A a, b \in 0..(n - 1) :
        (a - b) % n = IF a >= b THEN a - b ELSE (a - b) + n
  BY <1>1
<1>3. \A q \in Players : /\ d(q) = IF Ring[q] >= Ring[p] THEN Ring[q] - Ring[p]
                                   ELSE (Ring[q] - Ring[p]) + n
  BY <1>1, <1>2
<1>4. \A q \in Players : Distance(p, q) = IF d(q) = 0 THEN n ELSE d(q)
  BY DEF Distance, n
<1>5. \A q \in Players : d(q) \in 0..(n - 1)
  BY <1>1, <1>3
<1>6. \A q, r \in Players : d(q) = d(r) => q = r
  BY <1>1, <1>3, RingAssumption
<1>7. d(p) = 0
  BY <1>1, <1>3
<1> HIDE DEF d
<1>8. \A q \in Players : Distance(p, q) \in 1..n
  BY <1>1, <1>4, <1>5
<1>9. \A q, r \in Players : Distance(p, q) = Distance(p, r) => q = r
  BY <1>1, <1>4, <1>5, <1>6
<1>10. Distance(p, p) = n
  BY <1>4, <1>7
<1> QED BY <1>8, <1>9, <1>10 DEF n

\* The next player is one of those asked for, and somebody else if there is one.
LEMMA NextAfterFacts ==
  ASSUME NEW p \in Players, NEW S \in SUBSET Players, S # {}
  PROVE  /\ NextAfter(p, S) \in S
         /\ \A q \in S : q # p => NextAfter(p, S) # p
<1> DEFINE D == {Distance(p, q) : q \in S}
<1>1. \A q \in Players : Distance(p, q) \in Nat
  BY DistanceFacts, SeatsType
<1>2. D \in SUBSET Nat /\ D # {}
  BY <1>1
<1>3. Min(D) \in D /\ \A x \in D : Min(D) <= x
  <2> HIDE DEF D
  <2> QED BY <1>2, NatMin
<1>4. \E q \in S : \A r \in S : Distance(p, q) <= Distance(p, r)
  BY <1>3
<1> DEFINE m == NextAfter(p, S)
<1>5. m \in S /\ \A r \in S : Distance(p, m) <= Distance(p, r)
  BY <1>4 DEF NextAfter
<1> HIDE DEF m
<1>6. ASSUME NEW q \in S, q # p PROVE m # p
  <2>1. Distance(p, q) < Distance(p, p)
    BY <1>6, DistanceFacts, SeatsType
  <2>2. Distance(p, m) <= Distance(p, q)
    BY <1>5
  <2> QED BY <1>1, <2>1, <2>2
<1> QED BY <1>5, <1>6 DEF m

\* The highest bet is a bet, or nothing was bet.
LEMMA TopBetFacts ==
  ASSUME NEW b \in [Players -> Nat], NEW S \in SUBSET Players
  PROVE  /\ TopBet(b, S) \in Nat
         /\ \A p \in S : b[p] <= TopBet(b, S)
         /\ TopBet(b, S) > 0 => \E p \in S : b[p] = TopBet(b, S)
<1> DEFINE B == {b[p] : p \in S} \cup {0}
<1>1. B \in SUBSET Nat /\ B # {}
  OBVIOUS
<1>2. SumFunctionOnSet(b, Players) \in Nat /\ \A p \in Players : b[p] <= SumFunctionOnSet(b, Players)
  <2>1. \A p \in Players : b[p] \in Nat
    OBVIOUS
  <2> QED BY <2>1, PlayersFinite, SumNat, SumMember
<1>3. \A x \in B : x <= SumFunctionOnSet(b, Players)
  BY <1>2
<1> HIDE DEF B
<1>4. IsFiniteSet(B)
  BY <1>1, <1>2, <1>3, FS_BoundedSetOfNaturals
<1>5. Max(B) \in B /\ \A x \in B : Max(B) >= x
  BY <1>1, <1>4, NatMax
<1>6. TopBet(b, S) = Max(B)
  BY DEF TopBet, B
<1> QED BY <1>5, <1>6 DEF B

-----------------------------------------------------------------------------
(* The inductive invariant. *)

\* At least two are seated, the button is with one of them, and a hand is worth
\* something.
SeatInv == /\ Cardinality(seated) >= 2 /\ dealer \in seated /\ cur \in seated
           /\ ante >= 1

\* Before the blinds nothing has happened in the hand and everybody seated has
\* chips.
Fresh == phase \in {"INITIALIZING_GAME", "INITIALIZING_HAND"} =>
            /\ bet = [p \in Players |-> 0] /\ pot = 0 /\ board = 0
            /\ folded = {} /\ allIn = {} /\ acted = {}
            /\ ~bbActed /\ ~awaiting /\ ~runItOut
            /\ \A p \in seated : stack[p] > 0

\* The phase tells the number of cards on the board.
BoardInv == /\ phase = "PRE_FLOP" => board = 0
            /\ phase = "FLOP" => board = 3
            /\ phase = "TURN" => board = 4
            /\ phase = "RIVER" => board = 5
            /\ phase = "DEALING_CARDS" => board # 5
            /\ phase = "INITIALIZING_BET_ROUND" => board # 0

\* While anybody can still act, it is the turn of one who can; when nobody can,
\* the big blind's option has been used.
TurnInv == phase \in BettingPhases =>
              /\ Active # {} => cur \in Active
              /\ Active = {} => ~BigBlindOption

\* Whoever has acted since the last raise and is not all-in has matched it.
Matched == phase \in BettingPhases => \A p \in CanAct \cap acted : bet[p] = HighestBet

\* Before the flop the big blind has posted it all, or is all-in.
BlindPosted == phase \in BettingPhases /\ board = 0 =>
                  BigBlind \in allIn \/ bet[BigBlind] >= ante

\* Somebody is awaited only during betting, and then is one who can act, unless
\* the board is to be run out.
Waiting == /\ awaiting => /\ phase \in BettingPhases /\ Cardinality(Live) # 1
                          /\ runItOut \/ cur \in Active
           /\ runItOut => awaiting

HandInv ==
    /\ TypeOK /\ SeatInv /\ Fresh /\ BoardInv
    /\ ChipsConserved /\ HighestBetIsLive /\ AllInIsBroke
    /\ TurnInv /\ Matched /\ BlindPosted /\ Waiting
    /\ RunOutOnlyWhenSettled /\ BetsMatchedAtClose

-----------------------------------------------------------------------------
(* Facts about the seats and the bets that every step needs. *)

LEMMA Finite ==
  ASSUME NEW S \in SUBSET Players
  PROVE  IsFiniteSet(S) /\ Cardinality(S) \in Nat
BY PlayersFinite, FS_Subset, FS_CardinalityType

\* Of two or more there is always another.
LEMMA Another ==
  ASSUME NEW S \in SUBSET Players, Cardinality(S) >= 2, NEW p
  PROVE  \E q \in S : q # p
<1>1. SUFFICES ASSUME \A q \in S : q = p PROVE FALSE
  OBVIOUS
<1>2. S \in SUBSET {p}
  BY <1>1
<1>3. Cardinality(S) <= 1
  <2>1. IsFiniteSet({p}) /\ Cardinality({p}) = 1
    BY FS_Singleton
  <2>2. Cardinality(S) <= Cardinality({p})
    BY <1>2, <2>1, FS_Subset
  <2> QED BY <2>1, <2>2
<1> QED BY <1>3, Finite

\* The blinds are two different players at the table.
LEMMA BlindsSeated ==
  ASSUME seated \in SUBSET Players, dealer \in seated, Cardinality(seated) >= 2
  PROVE  SmallBlind \in seated /\ BigBlind \in seated /\ BigBlind # SmallBlind
<1>1. seated # {}
  OBVIOUS
<1>2. SmallBlind \in seated
  BY <1>1, NextAfterFacts DEF SmallBlind
<1>3. BigBlind \in seated
  BY <1>1, <1>2, NextAfterFacts DEF BigBlind
<1>4. \E q \in seated : q # SmallBlind
  BY Another
<1>5. BigBlind # SmallBlind
  BY <1>1, <1>2, <1>4, NextAfterFacts DEF BigBlind
<1> QED BY <1>2, <1>3, <1>5

\* Raising one player's bet raises the highest bet to it, or leaves it.
LEMMA TopBetRaised ==
  ASSUME NEW b \in [Players -> Nat], NEW c \in [Players -> Nat],
         NEW S \in SUBSET Players, NEW p \in S,
         \A q \in S \ {p} : c[q] = b[q], c[p] >= b[p]
  PROVE  TopBet(c, S) = IF c[p] > TopBet(b, S) THEN c[p] ELSE TopBet(b, S)
<1> DEFINE x == TopBet(b, S)
           y == TopBet(c, S)
<1>1. x \in Nat /\ \A q \in S : b[q] <= x
  BY TopBetFacts
<1>2. x > 0 => \E q \in S : b[q] = x
  BY TopBetFacts
<1>3. y \in Nat /\ \A q \in S : c[q] <= y
  BY TopBetFacts
<1>4. y > 0 => \E q \in S : c[q] = y
  BY TopBetFacts
<1> HIDE DEF x, y
<1>5. p \in Players /\ c[p] \in Nat /\ b[p] \in Nat
  OBVIOUS
<1>6. CASE c[p] > x
  <2>1. \A q \in S : c[q] <= c[p]
    BY <1>1, <1>5, <1>6
  <2>2. y <= c[p]
    BY <1>3, <1>4, <1>5, <2>1
  <2> QED BY <1>3, <1>5, <1>6, <2>2 DEF x, y
<1>7. CASE ~(c[p] > x)
  <2>1. \A q \in S : c[q] <= x
    BY <1>1, <1>5, <1>7
  <2>2. y <= x
    BY <1>1, <1>3, <1>4, <2>1
  <2>3. x <= y
    <3>1. CASE x = 0
      BY <1>3, <3>1
    <3>2. CASE x > 0
      <4>1. PICK q \in S : b[q] = x
        BY <1>2, <3>2
      <4>2. CASE q = p
        BY <1>1, <1>3, <1>5, <4>1, <4>2
      <4>3. CASE q # p
        BY <1>3, <4>1, <4>3
      <4> QED BY <4>2, <4>3
    <3> QED BY <1>1, <3>1, <3>2
  <2> QED BY <1>1, <1>3, <1>7, <2>2, <2>3 DEF x, y
<1> QED BY <1>6, <1>7

-----------------------------------------------------------------------------
(* The first state. *)

\* Somebody sits in the first seat.
LEMMA FirstSeat == \E p \in Players : Ring[p] = 0
<1> DEFINE n == Cardinality(Players)
<1>1. n \in Nat /\ n >= 2 /\ Ring \in [Players -> 0..(n - 1)]
  BY SeatsType
<1>2. IsFiniteSet(0..(n - 1)) /\ Cardinality(0..(n - 1)) = n
  BY <1>1, FS_Interval
<1>3. Ring \in Injection(Players, 0..(n - 1))
  BY <1>1, RingAssumption DEF Injection, IsInjective
<1>4. Ring \in Surjection(Players, 0..(n - 1))
  BY <1>2, <1>3, FS_Injection
<1> QED BY <1>1, <1>4 DEF Surjection

LEMMA HandInit == Init => HandInv
<1> SUFFICES ASSUME Init PROVE HandInv
  OBVIOUS
<1> USE DEF Init
<1>1. cur \in Players
  BY FirstSeat
<1>2. stack \in [Players -> Nat \ {0}]
  BY SetsAssumption
<1>3. TypeOK
  BY <1>1, <1>2, BlindAssumption DEF TypeOK, Phases, BettingPhases
<1>4. SeatInv
  BY <1>1, SetsAssumption, BlindAssumption DEF SeatInv
<1>5. Fresh
  BY <1>2 DEF Fresh
<1>6. ChipsConserved
  <2>1. \A p \in Players : bet[p] = 0
    OBVIOUS
  <2>2. SumFunction(bet) = 0
    <3>1. SumFunctionOnSet(bet, Players) = 0 * Cardinality(Players)
      BY <2>1, PlayersFinite, SumConst
    <3>2. Cardinality(Players) \in Nat
      BY SeatsType
    <3> QED BY <3>1, <3>2, TotalIsSum
  <2>3. stack \in [Players -> Nat]
    BY <1>2
  <2>4. SumFunction(stack) \in Nat
    BY <2>3, TotalNat
  <2> QED BY <2>2, <2>4 DEF ChipsConserved
<1>7. BoardInv /\ HighestBetIsLive /\ AllInIsBroke /\ TurnInv /\ Matched /\ BlindPosted
      /\ Waiting /\ RunOutOnlyWhenSettled /\ BetsMatchedAtClose
  BY DEF BoardInv, HighestBetIsLive, AllInIsBroke, TurnInv, Matched, BlindPosted,
         Waiting, RunOutOnlyWhenSettled, BetsMatchedAtClose, BettingPhases
<1> QED BY <1>3, <1>4, <1>5, <1>6, <1>7 DEF HandInv

-----------------------------------------------------------------------------
(* A player's turn. *)

\* Whoever is awaited is in the hand, has chips, and has not acted.
LEMMA AwaitedCanAct ==
  ASSUME HandInv, awaiting, ~runItOut
  PROVE  /\ phase \in BettingPhases
         /\ cur \in seated /\ cur \in Players /\ cur \in CanAct /\ cur \in Live
         /\ cur \notin folded /\ cur \notin allIn /\ cur \notin acted
         /\ stack[cur] \in Nat /\ stack[cur] > 0 /\ bet[cur] \in Nat
         /\ HighestBet \in Nat /\ bet[cur] <= HighestBet
         /\ \A p \in seated : bet[p] <= HighestBet
<1> USE DEF HandInv
<1>1. phase \in BettingPhases /\ cur \in Active
  BY DEF Waiting
<1>2. cur \in seated /\ cur \in CanAct /\ cur \in Live /\ stack[cur] > 0
      /\ cur \notin folded /\ cur \notin allIn /\ cur \notin acted
  BY <1>1 DEF Active, CanAct, Live
<1>3. HighestBet \in Nat /\ \A p \in seated : bet[p] <= HighestBet
  BY TopBetFacts DEF TypeOK, HighestBet
<1> QED BY <1>1, <1>2, <1>3 DEF TypeOK

\* The turn passes to somebody who can act, if anybody can, and the big blind's
\* option is used up once the big blind has acted.
LEMMA TurnPasses ==
  ASSUME TypeOK, TypeOK', seated' = seated, EndTurn, cur \in seated
  PROVE  /\ cur' \in seated'
         /\ Active' # {} => cur' \in Active'
         /\ Active' = {} => ~BigBlindOption'
<1>1. Active' \in SUBSET seated /\ seated \in SUBSET Players /\ cur \in Players
  BY DEF Active, TypeOK
<1>2. CASE Active' = {}
  <2>1. cur' = cur
    BY <1>2 DEF EndTurn
  <2>2. BigBlind' = BigBlind
    BY DEF EndTurn, table, BigBlind, SmallBlind
  <2>3. cur = BigBlind /\ board = 0 /\ HighestBet' = ante => bbActed'
    BY DEF EndTurn
  <2>4. board' = board /\ ante' = ante
    BY DEF EndTurn, level
  <2>5. ~BigBlindOption'
    BY <2>1, <2>2, <2>3, <2>4 DEF BigBlindOption
  <2> QED BY <1>2, <2>1, <2>5
<1>3. CASE Active' # {}
  <2>1. cur' = NextAfter(cur, Active')
    BY <1>3 DEF EndTurn
  <2>2. cur' \in Active'
    BY <1>1, <1>3, <2>1, NextAfterFacts
  <2> QED BY <1>1, <1>3, <2>2
<1> QED BY <1>2, <1>3

\* What place_bet does to the bets: the player's own grows by what was put in,
\* and the highest bet becomes it or stays.
LEMMA PlaceBetFacts ==
  ASSUME HandInv, awaiting, ~runItOut, NEW amount \in Nat, PlaceBet(amount), seated' = seated,
         NEW put, put = Lesser(amount, stack[cur])
  PROVE  /\ put \in Nat /\ put <= stack[cur]
         /\ stack' \in [Players -> Nat] /\ bet' \in [Players -> Nat]
         /\ stack'[cur] = stack[cur] - put /\ bet'[cur] = bet[cur] + put
         /\ \A p \in Players \ {cur} : stack'[p] = stack[p] /\ bet'[p] = bet[p]
         /\ HighestBet' = IF bet[cur] + put > HighestBet THEN bet[cur] + put ELSE HighestBet
<1>1. /\ cur \in seated /\ cur \in Players /\ stack[cur] \in Nat /\ bet[cur] \in Nat
  BY AwaitedCanAct
<1>2. put \in Nat /\ put <= stack[cur]
  BY <1>1 DEF Lesser
<1>3. /\ stack' = [stack EXCEPT ![cur] = @ - put]
      /\ bet' = [bet EXCEPT ![cur] = @ + put]
  BY DEF PlaceBet
<1>4. TypeOK
  BY DEF HandInv
<1>5. /\ stack' \in [Players -> Nat] /\ bet' \in [Players -> Nat]
      /\ stack'[cur] = stack[cur] - put /\ bet'[cur] = bet[cur] + put
      /\ \A p \in Players \ {cur} : stack'[p] = stack[p] /\ bet'[p] = bet[p]
  <2>1. stack[cur] - put \in Nat
    BY <1>1, <1>2
  <2>2. bet[cur] + put \in Nat
    BY <1>1, <1>2
  <2> QED BY <1>1, <1>3, <1>4, <2>1, <2>2 DEF TypeOK
<1>6. TopBet(bet', seated) = IF bet'[cur] > TopBet(bet, seated) THEN bet'[cur]
                             ELSE TopBet(bet, seated)
  <2>1. \A q \in seated \ {cur} : bet'[q] = bet[q]
    BY <1>4, <1>5 DEF TypeOK
  <2>2. bet'[cur] >= bet[cur]
    BY <1>1, <1>2, <1>5
  <2> QED BY <1>1, <1>4, <1>5, <2>1, <2>2, TopBetRaised DEF TypeOK
<1>7. HighestBet' = IF bet[cur] + put > HighestBet THEN bet[cur] + put ELSE HighestBet
  BY <1>5, <1>6 DEF HighestBet
<1> QED BY <1>2, <1>5, <1>7

\* Putting in an amount that calls, raises, or is all the player has keeps the
\* invariant.
LEMMA BetStep ==
  ASSUME HandInv, awaiting, ~runItOut, NEW amount \in Nat, PlaceBet(amount),
         amount < stack[cur] => bet[cur] + amount >= HighestBet,
         folded' = folded, seated' = seated, raises' \in Nat, lastRaise' \in Nat, EndTurn
  PROVE  HandInv'
<1> DEFINE put == Lesser(amount, stack[cur])
           nb == bet[cur] + put
<1>1. /\ phase \in BettingPhases
      /\ cur \in seated /\ cur \in Players /\ cur \in CanAct /\ cur \in Live
      /\ cur \notin folded /\ cur \notin allIn /\ cur \notin acted
      /\ stack[cur] \in Nat /\ stack[cur] > 0 /\ bet[cur] \in Nat
      /\ HighestBet \in Nat /\ bet[cur] <= HighestBet
      /\ \A p \in seated : bet[p] <= HighestBet
  BY AwaitedCanAct
<1>2. put \in Nat /\ put <= stack[cur] /\ nb \in Nat /\ nb >= bet[cur]
  BY <1>1 DEF Lesser
<1>3. /\ stack' = [stack EXCEPT ![cur] = @ - put]
      /\ bet' = [bet EXCEPT ![cur] = @ + put]
      /\ pot' = pot + put
      /\ allIn' = AllInAfter(amount)
      /\ acted' = ActedAfter(nb)
  BY DEF PlaceBet
<1>4. amount < stack[cur] => put = amount /\ nb >= HighestBet
  BY <1>1 DEF Lesser
<1>5. amount >= stack[cur] => put = stack[cur]
  BY <1>1 DEF Lesser
<1> HIDE DEF put, nb
<1>6. TypeOK
  BY DEF HandInv
<1>7. /\ stack' \in [Players -> Nat] /\ bet' \in [Players -> Nat]
      /\ stack'[cur] = stack[cur] - put /\ bet'[cur] = nb
      /\ \A p \in Players \ {cur} : stack'[p] = stack[p] /\ bet'[p] = bet[p]
      /\ HighestBet' = IF nb > HighestBet THEN nb ELSE HighestBet
  BY PlaceBetFacts DEF put, nb
<1>8. /\ UNCHANGED <<phase, seated, dealer, ante, handCount, board, runItOut>>
      /\ awaiting' = FALSE
      /\ bbActed' \in BOOLEAN
  BY DEF EndTurn, table, level
<1>9. cur' \in seated'
  <2>1. CASE Active' = {}
    BY <1>1, <2>1 DEF EndTurn
  <2>2. CASE Active' # {}
    <3>1. Active' \in SUBSET seated /\ seated \in SUBSET Players
      BY <1>6 DEF Active, TypeOK
    <3>2. cur' \in Active'
      BY <1>1, <2>2, <3>1, NextAfterFacts DEF EndTurn
    <3> QED BY <3>1, <3>2
  <2> QED BY <2>1, <2>2
<1>10. TypeOK'
  <2>1. pot' \in Nat
    BY <1>2, <1>3, <1>6 DEF TypeOK
  <2>2. allIn' \in SUBSET Players /\ acted' \in SUBSET Players
    BY <1>1, <1>3, <1>6 DEF TypeOK, AllInAfter, ActedAfter
  <2>3. cur' \in Players
    BY <1>6, <1>9 DEF TypeOK
  <2> QED BY <1>6, <1>7, <1>8, <2>1, <2>2, <2>3 DEF TypeOK
<1>11. HighestBet' = IF nb > HighestBet THEN nb ELSE HighestBet
  BY <1>7
<1>12. Live' = Live
  BY <1>8 DEF Live
<1>13. \A p \in Players \ {cur} : p \in allIn' <=> p \in allIn
  BY <1>3 DEF AllInAfter
<1>14. cur \in allIn' <=> stack[cur] <= amount
  BY <1>1, <1>3 DEF AllInAfter
<1>15. SeatInv'
  BY <1>8, <1>9 DEF SeatInv, HandInv
<1>16. Fresh' /\ BoardInv' /\ Waiting' /\ RunOutOnlyWhenSettled' /\ BetsMatchedAtClose'
  BY <1>1, <1>8 DEF Fresh, BoardInv, Waiting, RunOutOnlyWhenSettled, BetsMatchedAtClose,
                    HandInv, BettingPhases
<1>17. ChipsConserved'
  <2>1. SumFunction(bet') = SumFunction(bet) + put
    <3>1. SumFunction(bet') = SumFunction(bet) + (bet'[cur] - bet[cur])
      BY <1>1, <1>6, <1>7, TotalChange DEF TypeOK
    <3>2. SumFunction(bet) \in Nat
      BY <1>6, TotalNat DEF TypeOK
    <3> QED BY <1>1, <1>2, <1>7, <3>1, <3>2 DEF nb
  <2>2. SumFunction(stack') = SumFunction(stack) - put /\ SumFunction(stack) \in Nat
    <3>1. SumFunction(stack') = SumFunction(stack) + (stack'[cur] - stack[cur])
      BY <1>1, <1>6, <1>7, TotalChange DEF TypeOK
    <3>2. SumFunction(stack) \in Nat
      BY <1>6, TotalNat DEF TypeOK
    <3> QED BY <1>1, <1>2, <1>7, <3>1, <3>2
  <2>3. phase # "HAND_OVER" /\ phase' # "HAND_OVER"
    BY <1>1, <1>8 DEF BettingPhases
  <2>4. PICK start \in InitStacks : SumFunction(start) = SumFunction(stack) + pot
    BY <2>3 DEF HandInv, ChipsConserved
  <2>5. pot \in Nat /\ pot = SumFunction(bet)
    BY <1>6 DEF HandInv, ChipsConserved, TypeOK
  <2>6. SumFunction(start) = SumFunction(stack') + pot' /\ pot' = SumFunction(bet')
    BY <1>2, <1>3, <2>1, <2>2, <2>4, <2>5
  <2> QED BY <2>3, <2>6 DEF ChipsConserved
<1>18. HighestBetIsLive'
  <2>1. PICK p \in Live : bet[p] = HighestBet /\ bet[p] > 0
    BY <1>1 DEF HandInv, HighestBetIsLive, BettingPhases
  <2>2. p \in Players
    BY <1>6 DEF Live, TypeOK
  <2>3. CASE nb > HighestBet
    BY <1>1, <1>2, <1>7, <1>11, <1>12, <2>3 DEF HighestBetIsLive
  <2>4. CASE ~(nb > HighestBet) /\ p # cur
    BY <1>7, <1>11, <1>12, <2>1, <2>2, <2>4 DEF HighestBetIsLive
  <2>5. CASE ~(nb > HighestBet) /\ p = cur
    <3>1. bet'[p] = HighestBet /\ bet'[p] > 0
      BY <1>1, <1>2, <1>7, <2>1, <2>5
    <3> QED BY <1>11, <1>12, <2>5, <3>1 DEF HighestBetIsLive
  <2> QED BY <2>3, <2>4, <2>5
<1>19. AllInIsBroke'
  <2>1. \A p \in seated : p \in allIn <=> stack[p] = 0
    BY <1>1 DEF HandInv, AllInIsBroke
  <2>2. cur \in allIn' <=> stack'[cur] = 0
    BY <1>1, <1>2, <1>4, <1>5, <1>7, <1>14
  <2>3. \A p \in seated : p \in allIn' <=> stack'[p] = 0
    BY <1>6, <1>7, <1>13, <2>1, <2>2 DEF TypeOK
  <2> QED BY <1>8, <2>3 DEF AllInIsBroke
<1>20. TurnInv'
  BY <1>1, <1>6, <1>10, TurnPasses DEF TurnInv
<1>21. Matched'
  <2>1. SUFFICES ASSUME NEW p \in CanAct' \cap acted'
                 PROVE  bet'[p] = HighestBet'
    BY DEF Matched
  <2>2. p \in Players /\ p \in Live /\ p \notin allIn'
    BY <1>6, <1>12 DEF CanAct, Live, TypeOK
  <2>3. CASE p = cur
    <3>1. amount < stack[cur]
      BY <1>1, <1>14, <2>2, <2>3
    <3> QED BY <1>1, <1>2, <1>4, <1>7, <1>11, <2>3, <3>1
  <2>4. CASE p # cur
    <3>1. ~(nb > HighestBet) /\ p \in acted
      BY <1>3, <2>4 DEF ActedAfter
    <3>2. p \in CanAct
      BY <1>13, <2>2, <2>4 DEF CanAct
    <3>3. bet[p] = HighestBet
      BY <1>1, <3>1, <3>2 DEF HandInv, Matched
    <3> QED BY <1>7, <1>11, <2>2, <2>4, <3>1, <3>3
  <2> QED BY <2>3, <2>4
<1>22. BlindPosted'
  <2>1. SUFFICES ASSUME board = 0
                 PROVE  BigBlind' \in allIn' \/ bet'[BigBlind'] >= ante'
    BY <1>8 DEF BlindPosted
  <2>2. BigBlind' = BigBlind
    BY <1>8 DEF BigBlind, SmallBlind
  <2>3. BigBlind \in Players
    BY <1>6, BlindsSeated DEF HandInv, SeatInv, TypeOK
  <2>4. BigBlind \in allIn \/ bet[BigBlind] >= ante
    BY <1>1, <2>1 DEF HandInv, BlindPosted
  <2>5. CASE BigBlind = cur
    <3>1. bet[cur] >= ante
      BY <1>1, <2>4, <2>5
    <3>2. nb >= ante /\ ante \in Nat
      BY <1>1, <1>2, <1>6, <3>1 DEF TypeOK
    <3> QED BY <1>7, <1>8, <2>2, <2>5, <3>2
  <2>6. CASE BigBlind # cur
    BY <1>7, <1>8, <1>13, <2>2, <2>3, <2>4, <2>6
  <2> QED BY <2>5, <2>6
<1> QED BY <1>10, <1>15, <1>16, <1>17, <1>18, <1>19, <1>20, <1>21, <1>22 DEF HandInv

\* Folding when something is owed, or checking when nothing is, keeps the
\* invariant.
LEMMA StayStep ==
  ASSUME HandInv, awaiting, ~runItOut, acted' = acted \cup {cur}, EndTurn,
         UNCHANGED <<stack, bet, pot, allIn, seated, lastRaise, raises>>,
         \/ folded' = folded /\ bet[cur] = HighestBet
         \/ folded' = folded \cup {cur} /\ bet[cur] < HighestBet
  PROVE  HandInv'
<1>1. /\ phase \in BettingPhases
      /\ cur \in seated /\ cur \in Players /\ cur \in CanAct /\ cur \in Live
      /\ cur \notin folded /\ cur \notin allIn /\ cur \notin acted
      /\ bet[cur] \in Nat /\ HighestBet \in Nat
  BY AwaitedCanAct
<1>2. TypeOK
  BY DEF HandInv
<1>3. /\ UNCHANGED <<phase, seated, dealer, ante, handCount, board, runItOut>>
      /\ awaiting' = FALSE
      /\ bbActed' \in BOOLEAN
  BY DEF EndTurn, table, level
<1>4. cur' \in seated'
  <2>1. CASE Active' = {}
    BY <1>1, <2>1 DEF EndTurn
  <2>2. CASE Active' # {}
    <3>1. Active' \in SUBSET seated /\ seated \in SUBSET Players
      BY <1>2 DEF Active, TypeOK
    <3>2. cur' \in Active'
      BY <1>1, <2>2, <3>1, NextAfterFacts DEF EndTurn
    <3> QED BY <3>1, <3>2
  <2> QED BY <2>1, <2>2
<1>5. TypeOK'
  BY <1>1, <1>2, <1>3, <1>4 DEF TypeOK
<1>6. HighestBet' = HighestBet
  BY <1>3 DEF HighestBet
<1>7. SeatInv'
  BY <1>3, <1>4 DEF SeatInv, HandInv
<1>8. Fresh' /\ BoardInv' /\ Waiting' /\ RunOutOnlyWhenSettled' /\ BetsMatchedAtClose'
  BY <1>1, <1>3 DEF Fresh, BoardInv, Waiting, RunOutOnlyWhenSettled, BetsMatchedAtClose,
                    HandInv, BettingPhases
<1>9. ChipsConserved'
  BY <1>3 DEF HandInv, ChipsConserved
<1>10. HighestBetIsLive'
  <2>1. PICK p \in Live : bet[p] = HighestBet /\ bet[p] > 0
    BY <1>1 DEF HandInv, HighestBetIsLive, BettingPhases
  <2>2. p \in Live'
    BY <1>1, <1>3, <2>1 DEF Live
  <2> QED BY <1>6, <2>1, <2>2 DEF HighestBetIsLive
<1>11. AllInIsBroke'
  BY <1>1, <1>3 DEF HandInv, AllInIsBroke
<1>12. TurnInv'
  BY <1>1, <1>2, <1>5, TurnPasses DEF TurnInv
<1>13. Matched'
  <2>1. SUFFICES ASSUME NEW p \in CanAct' \cap acted' PROVE bet'[p] = HighestBet'
    BY DEF Matched
  <2>2. CASE p = cur
    BY <1>6, <2>1, <2>2 DEF CanAct, Live
  <2>3. CASE p # cur
    <3>1. p \in CanAct \cap acted
      BY <1>3, <2>1, <2>3 DEF CanAct, Live
    <3> QED BY <1>1, <1>6, <3>1 DEF HandInv, Matched
  <2> QED BY <2>2, <2>3
<1>14. BlindPosted'
  <2>1. BigBlind' = BigBlind
    BY <1>3 DEF BigBlind, SmallBlind
  <2> QED BY <1>3, <2>1 DEF HandInv, BlindPosted
<1> QED BY <1>5, <1>7, <1>8, <1>9, <1>10, <1>11, <1>12, <1>13, <1>14 DEF HandInv

LEMMA FoldStep == ASSUME HandInv, Fold PROVE HandInv'
<1>1. awaiting /\ ~runItOut /\ CostToCall > 0
  BY DEF Fold, MayTake, Options, Open
<1>2. bet[cur] < HighestBet
  BY <1>1, AwaitedCanAct DEF CostToCall
<1> QED BY <1>1, <1>2, StayStep DEF Fold, money

\* With the option the big blind is in for the full blind already.
LEMMA CheckStep == ASSUME HandInv, Check PROVE HandInv'
<1>1. awaiting /\ ~runItOut
  BY DEF Check, MayTake
<1>2. bet[cur] = HighestBet
  <2>1. CASE BigBlindOption
    <3>1. cur \notin allIn /\ phase \in BettingPhases
      BY <1>1, AwaitedCanAct
    <3>2. bet[cur] >= ante /\ HighestBet = ante
      BY <2>1, <3>1 DEF BigBlindOption, HandInv, BlindPosted
    <3> QED BY <1>1, <3>2, AwaitedCanAct
  <2>2. CASE ~BigBlindOption
    <3>1. CostToCall = 0
      BY <2>2 DEF Check, MayTake, Options, Open
    <3> QED BY <1>1, <3>1, AwaitedCanAct DEF CostToCall
  <2> QED BY <2>1, <2>2
<1> QED BY <1>1, <1>2, StayStep DEF Check, money

LEMMA CallStep == ASSUME HandInv, Call PROVE HandInv'
<1>1. awaiting /\ ~runItOut /\ CostToCall > 0
  BY DEF Call, MayTake, Options, Open
<1>2. CostToCall \in Nat /\ bet[cur] + CostToCall >= HighestBet
  BY <1>1, AwaitedCanAct DEF CostToCall
<1>3. raises' \in Nat /\ lastRaise' \in Nat
  BY DEF Call, HandInv, TypeOK
<1> QED BY <1>1, <1>2, <1>3, BetStep DEF Call

LEMMA GoAllInStep == ASSUME HandInv, awaiting, ~runItOut, GoAllIn PROVE HandInv'
<1>1. stack[cur] \in Nat /\ bet[cur] \in Nat /\ HighestBet \in Nat
  BY AwaitedCanAct
<1>2. raises \in Nat /\ lastRaise \in Nat
  BY DEF HandInv, TypeOK
<1>3. raises' \in Nat /\ lastRaise' \in Nat
  BY <1>1, <1>2 DEF GoAllIn
<1>4. PlaceBet(stack[cur]) /\ folded' = folded /\ seated' = seated /\ EndTurn
  BY DEF GoAllIn
<1> QED BY <1>1, <1>3, <1>4, BetStep

\* A corrected raise that leaves chips behind beats the highest bet.
LEMMA RaiseStep == ASSUME HandInv, NEW to \in Nat, Raise(to) PROVE HandInv'
<1> DEFINE sanitized == SanitizedRaise(to)
<1>1. awaiting /\ ~runItOut
  BY DEF Raise, MayTake
<1>2. CASE sanitized = MaxRaiseTo
  BY <1>1, <1>2, GoAllInStep DEF Raise
<1>3. CASE sanitized # MaxRaiseTo
  <2>1. stack[cur] \in Nat /\ bet[cur] \in Nat /\ HighestBet \in Nat /\ bet[cur] <= HighestBet
    BY <1>1, AwaitedCanAct
  <2>2. raises \in Nat /\ lastRaise \in Nat
    BY DEF HandInv, TypeOK
  <2>3. sanitized \in Nat /\ sanitized >= HighestBet
    BY <1>3, <2>1, <2>2 DEF SanitizedRaise, MinRaiseTo, MaxRaiseTo
  <2>4. PlaceBet(sanitized - bet[cur]) /\ raises' = raises + 1
        /\ lastRaise' = sanitized - HighestBet
        /\ folded' = folded /\ seated' = seated /\ EndTurn
    BY <1>3 DEF Raise
  <2> HIDE DEF sanitized
  <2>5. sanitized - bet[cur] \in Nat /\ bet[cur] + (sanitized - bet[cur]) >= HighestBet
    BY <2>1, <2>3
  <2>6. raises' \in Nat /\ lastRaise' \in Nat
    BY <2>1, <2>2, <2>3, <2>4
  <2> QED BY <1>1, <2>4, <2>5, <2>6, BetStep
<1> QED BY <1>2, <1>3

LEMMA PlayTurnStep == ASSUME HandInv, PlayTurn PROVE HandInv'
<1>1. CASE AllIn
  BY <1>1, GoAllInStep DEF AllIn, MayTake
<1>2. CASE \E to \in 0..(MaxRaiseTo + 1) : Raise(to)
  BY <1>2, RaiseStep
<1> QED BY <1>1, <1>2, FoldStep, CheckStep, CallStep DEF PlayTurn

-----------------------------------------------------------------------------
(* The phase machine. *)

LEMMA InitializeGameStep == ASSUME HandInv, InitializeGame PROVE HandInv'
<1> USE DEF HandInv, InitializeGame, table, money, flags, level
<1>1. TypeOK' /\ SeatInv'
  BY DEF TypeOK, SeatInv, Phases
<1>2. Fresh' /\ BoardInv' /\ Waiting' /\ RunOutOnlyWhenSettled' /\ BetsMatchedAtClose'
  BY DEF Fresh, BoardInv, Waiting, RunOutOnlyWhenSettled, BetsMatchedAtClose, BettingPhases
<1>3. ChipsConserved'
  BY DEF ChipsConserved
<1>4. HighestBetIsLive' /\ AllInIsBroke' /\ TurnInv' /\ Matched' /\ BlindPosted'
  BY DEF HighestBetIsLive, AllInIsBroke, TurnInv, Matched, BlindPosted, BettingPhases
<1> QED BY <1>1, <1>2, <1>3, <1>4

\* The sums of what two players move from one function to the other.
LEMMA TwoChange ==
  ASSUME NEW f \in [Players -> Nat], NEW g \in [Players -> Nat],
         NEW p \in Players, NEW q \in Players, p # q,
         \A x \in Players \ {p, q} : g[x] = f[x]
  PROVE  SumFunction(g) = SumFunction(f) + (g[p] - f[p]) + (g[q] - f[q])
<1> DEFINE h == [f EXCEPT ![p] = g[p]]
<1>1. h \in [Players -> Nat] /\ h[p] = g[p] /\ h[q] = f[q]
  OBVIOUS
<1>2. \A x \in Players \ {p} : h[x] = f[x]
  OBVIOUS
<1>3. \A x \in Players \ {q} : g[x] = h[x]
  OBVIOUS
<1> HIDE DEF h
<1>4. SumFunction(h) = SumFunction(f) + (h[p] - f[p])
  BY <1>1, <1>2, TotalChange
<1>5. SumFunction(g) = SumFunction(h) + (g[q] - h[q])
  BY <1>1, <1>3, TotalChange
<1> QED BY <1>1, <1>4, <1>5

\* With nobody active and nobody marked as having acted, nobody can act.
LEMMA NobodyCanAct ==
  ASSUME TypeOK, Active = {}, acted = {}, \A p \in seated : p \in allIn <=> stack[p] = 0
  PROVE  CanAct = {}
<1>1. \A p \in seated : stack[p] \in Nat
  BY DEF TypeOK
<1> QED BY <1>1 DEF Active, CanAct, Live

LEMMA InitializeHandStep == ASSUME HandInv, InitializeHand PROVE HandInv'
<1> DEFINE sb == SmallBlind
           bb == BigBlind
           small == Blind(sb, ante \div 2)
           big == Blind(bb, ante)
<1>1. TypeOK /\ SeatInv /\ ChipsConserved
  BY DEF HandInv
<1>2. phase = "INITIALIZING_HAND"
  BY DEF InitializeHand
<1>3. /\ bet = [p \in Players |-> 0] /\ pot = 0 /\ board = 0
      /\ folded = {} /\ allIn = {} /\ acted = {}
      /\ ~bbActed /\ ~awaiting /\ ~runItOut
      /\ \A p \in seated : stack[p] > 0
  BY <1>2 DEF HandInv, Fresh
<1>4. sb \in seated /\ bb \in seated /\ bb # sb /\ sb \in Players /\ bb \in Players
  BY <1>1, BlindsSeated DEF SeatInv, TypeOK
<1>5. /\ ante \in Nat /\ ante >= 1 /\ (ante \div 2) \in Nat
      /\ stack[sb] \in Nat /\ stack[sb] > 0 /\ stack[bb] \in Nat /\ stack[bb] > 0
  BY <1>1, <1>3, <1>4 DEF TypeOK, SeatInv
<1>6. /\ small \in Nat /\ small <= stack[sb] /\ big \in Nat /\ big <= stack[bb] /\ big >= 1
      /\ (stack[sb] <= ante \div 2 => small = stack[sb])
      /\ (~(stack[sb] <= ante \div 2) => small = ante \div 2)
      /\ (stack[bb] <= ante => big = stack[bb])
      /\ (~(stack[bb] <= ante) => big = ante)
  <2> DEFINE half == ante \div 2
  <2>1. half \in Nat
    BY <1>5
  <2> HIDE DEF half
  <2>2. /\ small = Lesser(half, stack[sb])
        /\ big = Lesser(ante, stack[bb])
    BY DEF Blind, half
  <2> HIDE DEF small, big, sb, bb
  <2> QED BY <1>5, <2>1, <2>2 DEF Lesser, half
<1>7. /\ stack' = [stack EXCEPT ![sb] = @ - small, ![bb] = @ - big]
      /\ bet' = [bet EXCEPT ![sb] = @ + small, ![bb] = @ + big]
      /\ pot' = pot + small + big
      /\ allIn' = {p \in {sb, bb} : IF p = sb THEN stack[p] <= ante \div 2
                                    ELSE stack[p] <= ante}
      /\ UNCHANGED <<seated, folded, acted, dealer, ante, handCount, board, lastRaise,
                     bbActed, awaiting, runItOut>>
  BY DEF InitializeHand, level
<1>8. IF Active' = {}
      THEN phase' = "SHOWDOWN" /\ UNCHANGED <<cur, raises>>
      ELSE phase' = "PRE_FLOP" /\ cur' = NextAfter(bb, Active') /\ raises' = 0
  BY DEF InitializeHand
<1> HIDE DEF sb, bb, small, big
<1>9. /\ stack' \in [Players -> Nat] /\ bet' \in [Players -> Nat]
      /\ stack'[sb] = stack[sb] - small /\ stack'[bb] = stack[bb] - big
      /\ bet'[sb] = small /\ bet'[bb] = big
      /\ \A p \in Players \ {sb, bb} : stack'[p] = stack[p] /\ bet'[p] = bet[p]
  <2>1. stack[sb] - small \in Nat /\ stack[bb] - big \in Nat
    BY <1>5, <1>6
  <2>2. bet[sb] = 0 /\ bet[bb] = 0 /\ bet \in [Players -> Nat] /\ stack \in [Players -> Nat]
    BY <1>1, <1>3, <1>4 DEF TypeOK
  <2>3. 0 + small = small /\ 0 + big = big
    BY <1>6
  <2>4. bet' = [bet EXCEPT ![sb] = small, ![bb] = big]
    BY <1>4, <1>7, <2>2, <2>3
  <2>5. bet' \in [Players -> Nat] /\ bet'[sb] = small /\ bet'[bb] = big
        /\ \A p \in Players \ {sb, bb} : bet'[p] = bet[p]
    BY <1>4, <1>6, <2>2, <2>4
  <2>6. stack' = [stack EXCEPT ![sb] = stack[sb] - small, ![bb] = stack[bb] - big]
    BY <1>4, <1>7, <2>2
  <2>7. stack' \in [Players -> Nat]
        /\ stack'[sb] = stack[sb] - small /\ stack'[bb] = stack[bb] - big
        /\ \A p \in Players \ {sb, bb} : stack'[p] = stack[p]
    BY <1>4, <2>1, <2>2, <2>6
  <2> QED BY <2>5, <2>7
<1>10. Active' \in SUBSET seated /\ seated \in SUBSET Players
  BY <1>1, <1>7 DEF Active, TypeOK
<1>11. cur' \in seated /\ (Active' # {} => cur' \in Active')
  BY <1>1, <1>4, <1>8, <1>10, NextAfterFacts DEF SeatInv
<1>12. phase' \in {"SHOWDOWN", "PRE_FLOP"} /\ (Active' # {} <=> phase' = "PRE_FLOP")
  BY <1>8
<1>13. TypeOK'
  <2>1. pot' \in Nat
    BY <1>3, <1>6, <1>7
  <2>2. raises' \in Nat
    BY <1>1, <1>8 DEF TypeOK
  <2>3. allIn' \in SUBSET Players
    BY <1>4, <1>7
  <2> QED BY <1>1, <1>7, <1>9, <1>10, <1>11, <1>12, <2>1, <2>2, <2>3
          DEF TypeOK, Phases, BettingPhases
<1>14. SeatInv'
  BY <1>1, <1>7, <1>11 DEF SeatInv
<1>15. ChipsConserved'
  <2>1. stack \in [Players -> Nat] /\ bet \in [Players -> Nat]
    BY <1>1 DEF TypeOK
  <2>2. SumFunction(stack') = SumFunction(stack) + (stack'[sb] - stack[sb])
                              + (stack'[bb] - stack[bb])
    <3>1. \A p \in Players \ {sb, bb} : stack'[p] = stack[p]
      BY <1>9
    <3>2. stack' \in [Players -> Nat] /\ sb \in Players /\ bb \in Players /\ sb # bb
      BY <1>4, <1>9
    <3> QED BY ONLY <2>1, <3>1, <3>2, TwoChange
  <2>3. SumFunction(bet') = SumFunction(bet) + (bet'[sb] - bet[sb]) + (bet'[bb] - bet[bb])
    <3>1. \A p \in Players \ {sb, bb} : bet'[p] = bet[p]
      BY <1>9
    <3>2. bet' \in [Players -> Nat] /\ sb \in Players /\ bb \in Players /\ sb # bb
      BY <1>4, <1>9
    <3> QED BY ONLY <2>1, <3>1, <3>2, TwoChange
  <2>4. SumFunction(stack) \in Nat /\ SumFunction(bet) = 0
    BY <1>1, <1>3, <2>1, TotalNat DEF ChipsConserved
  <2>5. bet[sb] = 0 /\ bet[bb] = 0
    BY <1>3, <1>4
  <2>6. PICK start \in InitStacks : SumFunction(start) = SumFunction(stack) + pot
    BY <1>1, <1>2 DEF ChipsConserved
  <2>7. pot' = SumFunction(bet') /\ SumFunction(start) = SumFunction(stack') + pot'
    BY <1>3, <1>5, <1>6, <1>7, <1>9, <2>2, <2>3, <2>4, <2>5, <2>6
  <2> QED BY <1>12, <2>7 DEF ChipsConserved
<1>16. HighestBetIsLive'
  <2>1. HighestBet' \in Nat /\ bet'[bb] <= HighestBet'
        /\ (HighestBet' > 0 => \E p \in seated' : bet'[p] = HighestBet')
    <3>1. HighestBet' = TopBet(bet', seated')
      BY DEF HighestBet
    <3>2. bet' \in [Players -> Nat] /\ seated' \in SUBSET Players /\ bb \in seated'
      BY <1>4, <1>7, <1>9, <1>10
    <3> QED BY <3>1, <3>2, TopBetFacts
  <2>2. HighestBet' > 0
    BY <1>6, <1>9, <2>1
  <2>3. Live' = seated'
    BY <1>3, <1>7 DEF Live
  <2> QED BY <2>1, <2>2, <2>3 DEF HighestBetIsLive
<1>17. \A p \in seated' : p \in allIn' <=> stack'[p] = 0
  <2>1. SUFFICES ASSUME NEW p \in seated PROVE p \in allIn' <=> stack'[p] = 0
    BY <1>7
  <2>2. CASE p = sb
    <3>1. sb \in allIn' <=> stack[sb] <= ante \div 2
      BY <1>7
    <3>2. stack'[sb] = 0 <=> stack[sb] <= ante \div 2
      <4> DEFINE half == ante \div 2
      <4>1. half \in Nat /\ (stack[sb] <= half => small = stack[sb])
            /\ (~(stack[sb] <= half) => small = half)
        BY <1>5, <1>6
      <4> HIDE DEF half
      <4>2. stack'[sb] = 0 <=> stack[sb] <= half
        BY <1>5, <1>6, <1>9, <4>1
      <4> QED BY <4>2 DEF half
    <3> QED BY <2>2, <3>1, <3>2
  <2>3. CASE p = bb
    <3>1. bb \in allIn' <=> stack[bb] <= ante
      BY <1>4, <1>7
    <3>2. stack'[bb] = 0 <=> stack[bb] <= ante
      BY <1>5, <1>6, <1>9
    <3> QED BY <2>3, <3>1, <3>2
  <2>4. CASE p \notin {sb, bb}
    <3>1. p \in Players /\ p \notin allIn'
      BY <1>7, <1>10, <2>4
    <3>2. stack'[p] = stack[p] /\ stack[p] > 0 /\ stack[p] \in Nat
      BY <1>1, <1>3, <1>9, <2>4, <3>1 DEF TypeOK
    <3> QED BY <3>1, <3>2
  <2> QED BY <2>2, <2>3, <2>4
<1>18. AllInIsBroke'
  BY <1>17 DEF AllInIsBroke
<1>19. BetsMatchedAtClose'
  <2>1. SUFFICES ASSUME phase' = "SHOWDOWN" PROVE CanAct' = {}
    BY <1>12 DEF BetsMatchedAtClose
  <2>2. Active' = {} /\ acted' = {}
    BY <1>3, <1>7, <1>12, <2>1
  <2>3. \A p \in seated' : stack'[p] \in Nat
    BY <1>13 DEF TypeOK
  <2> QED BY <1>17, <2>2, <2>3 DEF Active, CanAct, Live
<1>20. Fresh' /\ BoardInv' /\ Waiting' /\ RunOutOnlyWhenSettled'
  BY <1>3, <1>7, <1>12 DEF Fresh, BoardInv, Waiting, RunOutOnlyWhenSettled
<1>21. TurnInv'
  BY <1>11, <1>12 DEF TurnInv, BettingPhases
<1>22. Matched'
  BY <1>3, <1>7 DEF Matched
<1>23. BlindPosted'
  <2>1. BigBlind' = bb
    BY <1>7 DEF BigBlind, SmallBlind, bb
  <2>2. bb \in allIn' \/ bet'[bb] >= ante
    <3>1. CASE stack[bb] <= ante
      BY <1>4, <1>7, <3>1
    <3>2. CASE ~(stack[bb] <= ante)
      BY <1>5, <1>6, <1>9, <3>2
    <3> QED BY <3>1, <3>2
  <2> QED BY <1>7, <2>1, <2>2 DEF BlindPosted
<1> QED BY <1>13, <1>14, <1>15, <1>16, <1>18, <1>19, <1>20, <1>21, <1>22, <1>23 DEF HandInv

LEMMA InitializeBettingRoundStep ==
  ASSUME HandInv, InitializeBettingRound PROVE HandInv'
<1>1. /\ phase = "INITIALIZING_BET_ROUND" /\ board \in {3, 4, 5}
      /\ ~awaiting /\ ~runItOut
  BY DEF InitializeBettingRound, HandInv, TypeOK, BoardInv, Waiting, BettingPhases
<1>2. /\ UNCHANGED <<seated, dealer, stack, bet, pot, folded, allIn, board, ante,
                     handCount, bbActed>>
  BY DEF InitializeBettingRound, table, money, level
<1>3. TypeOK /\ SeatInv
  BY DEF HandInv
<1>4. HighestBet' = HighestBet /\ Live' = Live /\ CanAct' = CanAct
  BY <1>2 DEF HighestBet, Live, CanAct
<1>5. Live \in SUBSET Players
  BY <1>3 DEF Live, TypeOK
<1>6. ChipsConserved' /\ HighestBetIsLive' /\ AllInIsBroke'
  <2>1. phase' # "HAND_OVER"
    BY <1>1 DEF InitializeBettingRound, NextBettingPhase
  <2> QED BY <1>1, <1>2, <1>4, <2>1 DEF HandInv, ChipsConserved, HighestBetIsLive, AllInIsBroke
<1>7. CASE Cardinality(Live) <= 1
  <2>1. phase' = "SHOWDOWN" /\ UNCHANGED <<cur, acted, lastRaise, raises, awaiting, runItOut>>
    BY <1>5, <1>7, Finite DEF InitializeBettingRound
  <2>2. TypeOK' /\ SeatInv'
    BY <1>2, <1>3, <2>1 DEF TypeOK, SeatInv, Phases
  <2>3. BetsMatchedAtClose'
    BY <1>4, <1>5, <1>7, Finite DEF BetsMatchedAtClose
  <2> QED BY <1>1, <1>2, <1>6, <2>1, <2>2, <2>3
      DEF HandInv, Fresh, BoardInv, TurnInv, Matched, BlindPosted, Waiting,
          RunOutOnlyWhenSettled, BettingPhases
<1>8. CASE Cardinality(Live) > 1
  <2>1. acted' = {} /\ phase' = NextBettingPhase
    BY <1>5, <1>8, Finite DEF InitializeBettingRound
  <2>2. /\ phase' \in {"FLOP", "TURN", "RIVER"}
        /\ board' = 3 <=> phase' = "FLOP"
        /\ board' = 4 <=> phase' = "TURN"
        /\ board' = 5 <=> phase' = "RIVER"
        /\ board' \in {3, 4, 5}
    BY <1>1, <1>2, <2>1 DEF NextBettingPhase
  <2>3. /\ Fresh' /\ BoardInv' /\ Matched' /\ BlindPosted' /\ BetsMatchedAtClose'
    BY <2>1, <2>2 DEF Fresh, BoardInv, Matched, BlindPosted, BetsMatchedAtClose
  <2>4. ~BigBlindOption'
    BY <2>2 DEF BigBlindOption
  <2>5. Cardinality(Live') # 1
    BY <1>4, <1>8
  <2>6. Active' \in SUBSET seated /\ seated \in SUBSET Players
    BY <1>2, <1>3 DEF Active, TypeOK
  <2>7. CASE Active' = {}
    <3>1. awaiting' = TRUE /\ runItOut' = TRUE /\ UNCHANGED <<cur, lastRaise, raises>>
      BY <1>5, <1>8, <2>7, Finite DEF InitializeBettingRound
    <3>2. TypeOK' /\ SeatInv'
      BY <1>2, <1>3, <2>1, <2>2, <3>1 DEF TypeOK, SeatInv, Phases, BettingPhases
    <3>3. TurnInv'
      BY <2>4, <2>7 DEF TurnInv
    <3>4. CanAct' = {}
      <4>1. \A p \in seated' : stack'[p] \in Nat
        BY <3>2 DEF TypeOK
      <4>2. \A p \in seated' : p \in allIn' <=> stack'[p] = 0
        BY <1>6, <2>2 DEF AllInIsBroke, BettingPhases
      <4> QED BY <2>1, <2>7, <4>1, <4>2 DEF Active, CanAct, Live
    <3>5. RunOutOnlyWhenSettled'
      BY <3>4, FS_EmptySet DEF RunOutOnlyWhenSettled, SomeoneMustCall
    <3>6. Waiting'
      BY <2>2, <2>5, <3>1 DEF Waiting, BettingPhases
    <3> QED BY <1>6, <2>3, <3>2, <3>3, <3>5, <3>6 DEF HandInv
  <2>8. CASE Active' # {}
    <3> DEFINE from == IF board > 0 THEN dealer ELSE BigBlind
    <3>1. /\ cur' = NextAfter(from, Active') /\ lastRaise' = ante /\ raises' = 0
          /\ runItOut' = FALSE /\ awaiting' = awaiting
      BY <1>5, <1>8, <2>8, Finite DEF InitializeBettingRound
    <3>2. from \in Players
      BY <1>1, <1>3 DEF TypeOK
    <3>3. cur' \in Active'
      <4> HIDE DEF from
      <4> QED BY <2>6, <2>8, <3>1, <3>2, NextAfterFacts
    <3>4. TypeOK' /\ SeatInv'
      BY <1>2, <1>3, <2>1, <2>2, <2>6, <3>1, <3>3 DEF TypeOK, SeatInv, Phases, BettingPhases
    <3>5. TurnInv'
      BY <2>8, <3>3 DEF TurnInv
    <3>6. Waiting' /\ RunOutOnlyWhenSettled'
      BY <1>1, <3>1 DEF Waiting, RunOutOnlyWhenSettled
    <3> QED BY <1>6, <2>3, <3>4, <3>5, <3>6 DEF HandInv
  <2> QED BY <2>7, <2>8
<1> QED BY <1>5, <1>7, <1>8, Finite

LEMMA RunBettingRoundStep == ASSUME HandInv, RunBettingRound PROVE HandInv'
<1>1. phase \in BettingPhases
  BY DEF RunBettingRound
<1>2. UNCHANGED <<seated, dealer, cur, stack, bet, pot, folded, allIn, acted, board, ante,
                  handCount, lastRaise, raises, bbActed>>
  BY DEF RunBettingRound, table, money, flags, level
<1>3. TypeOK /\ SeatInv
  BY DEF HandInv
<1>4. /\ HighestBet' = HighestBet /\ Live' = Live /\ CanAct' = CanAct /\ Active' = Active
      /\ BigBlind' = BigBlind /\ BigBlindOption' = BigBlindOption
      /\ SomeoneMustCall' = SomeoneMustCall
  BY <1>2 DEF HighestBet, Live, CanAct, Active, BigBlind, SmallBlind, BigBlindOption,
              SomeoneMustCall
<1>5. Live \in SUBSET Players /\ CanAct \in SUBSET Players
  BY <1>3 DEF Live, CanAct, TypeOK
<1>6. phase' \in BettingPhases \cup {"SHOWDOWN", "EVALUATING_HAND", "DEALING_CARDS"}
  BY <1>1 DEF RunBettingRound
<1>7. /\ ChipsConserved' /\ HighestBetIsLive' /\ AllInIsBroke' /\ SeatInv' /\ Fresh'
  BY <1>1, <1>2, <1>3, <1>4, <1>6
     DEF HandInv, ChipsConserved, HighestBetIsLive, AllInIsBroke, SeatInv, Fresh, BettingPhases
<1>8. awaiting' \in BOOLEAN /\ runItOut' \in BOOLEAN
  BY <1>3 DEF RunBettingRound, TypeOK
<1>9. TypeOK'
  BY <1>2, <1>3, <1>6, <1>8 DEF TypeOK, Phases
<1>10. \A p \in CanAct : stack[p] > 0 /\ stack[p] \in Nat /\ bet[p] \in Nat
                         /\ bet[p] <= HighestBet /\ HighestBet \in Nat
  <2>1. HighestBet \in Nat /\ \A p \in seated : bet[p] <= HighestBet
    BY <1>3, TopBetFacts DEF TypeOK, HighestBet
  <2>2. \A p \in seated : stack[p] \in Nat /\ bet[p] \in Nat
    BY <1>3 DEF TypeOK
  <2>3. \A p \in seated : p \in allIn <=> stack[p] = 0
    BY <1>1 DEF HandInv, AllInIsBroke
  <2> QED BY <2>1, <2>2, <2>3 DEF CanAct, Live
<1>11. CASE phase' = phase
  <2>1. /\ Cardinality(Live) # 1 /\ awaiting' = TRUE
        /\ \/ Cardinality(CanAct) <= 1 /\ runItOut' = (runItOut \/ ~SomeoneMustCall)
           \/ ~ContributionsValid /\ runItOut' = runItOut
    BY <1>1, <1>11 DEF RunBettingRound, BettingPhases
  <2>2. BoardInv' /\ TurnInv' /\ Matched' /\ BlindPosted'
    BY <1>2, <1>4, <1>11 DEF HandInv, BoardInv, TurnInv, Matched, BlindPosted
  <2>3. BetsMatchedAtClose'
    BY <1>1, <1>11 DEF BetsMatchedAtClose, BettingPhases
  <2>4. RunOutOnlyWhenSettled'
    BY <1>4, <2>1 DEF HandInv, RunOutOnlyWhenSettled, SomeoneMustCall
  <2>5. runItOut' \/ Active # {}
    <3>1. CASE ~ContributionsValid
      BY <1>1, <3>1 DEF ContributionsValid, HandInv, TurnInv
    <3>2. CASE runItOut' = (runItOut \/ ~SomeoneMustCall)
      <4>1. SUFFICES ASSUME SomeoneMustCall PROVE Active # {}
        BY <3>2
      <4>2. PICK p \in CanAct : bet[p] < HighestBet
        BY <4>1 DEF SomeoneMustCall
      <4>3. p \notin acted
        BY <1>1, <1>10, <4>2 DEF HandInv, Matched
      <4>4. p \in Active
        BY <1>10, <4>3 DEF Active, CanAct, Live
      <4> QED BY <4>4
    <3> QED BY <2>1, <3>1, <3>2
  <2>6. Waiting'
    BY <1>1, <1>2, <1>4, <1>11, <2>1, <2>5 DEF HandInv, Waiting, TurnInv
  <2> QED BY <1>7, <1>9, <2>2, <2>3, <2>4, <2>6 DEF HandInv
<1>12. CASE phase' = "SHOWDOWN" /\ Cardinality(Live) = 1
             /\ awaiting' = awaiting /\ runItOut' = runItOut
  <2>1. ~awaiting' /\ ~runItOut'
    BY <1>12 DEF HandInv, Waiting
  <2> QED BY <1>4, <1>7, <1>9, <1>12, <2>1
          DEF HandInv, BoardInv, TurnInv, Matched, BlindPosted, BetsMatchedAtClose, Waiting,
              RunOutOnlyWhenSettled, BettingPhases
<1>13. CASE /\ ContributionsValid /\ Cardinality(CanAct) > 1
            /\ phase' = IF phase = "RIVER" THEN "EVALUATING_HAND" ELSE "DEALING_CARDS"
            /\ awaiting' = awaiting /\ runItOut' = runItOut
  <2>1. Active = {}
    BY <1>13 DEF ContributionsValid
  <2>2. ~runItOut'
    BY <1>5, <1>13, Finite DEF HandInv, RunOutOnlyWhenSettled
  <2>3. ~awaiting'
    BY <1>13, <2>1, <2>2 DEF HandInv, Waiting
  <2>4. \A p \in CanAct : bet[p] = HighestBet
    <3>1. SUFFICES ASSUME NEW p \in CanAct PROVE bet[p] = HighestBet
      OBVIOUS
    <3>2. p \in acted
      BY <1>10, <2>1 DEF Active, CanAct, Live
    <3> QED BY <1>1, <3>2 DEF HandInv, Matched
  <2>5. \A p \in CanAct' : bet'[p] = HighestBet'
    BY <1>2, <1>4, <2>4
  <2>6. BoardInv'
    BY <1>1, <1>2, <1>13 DEF HandInv, BoardInv, BettingPhases
  <2> QED BY <1>7, <1>9, <1>13, <2>2, <2>3, <2>5, <2>6
          DEF HandInv, TurnInv, Matched, BlindPosted, BetsMatchedAtClose, Waiting,
              RunOutOnlyWhenSettled, BettingPhases
<1> QED BY <1>11, <1>12, <1>13 DEF RunBettingRound

LEMMA RunItOutStep == ASSUME HandInv, RunItOut PROVE HandInv'
<1>1. phase \in BettingPhases /\ awaiting /\ runItOut
  BY DEF RunItOut, HandInv, Waiting
<1>2. /\ UNCHANGED <<seated, dealer, cur, stack, bet, pot, folded, allIn, acted, board, ante,
                     handCount, lastRaise, raises, bbActed>>
      /\ awaiting' = FALSE /\ runItOut' = FALSE
      /\ phase' = IF phase = "RIVER" THEN "SHOWDOWN" ELSE "DEALING_CARDS"
  BY DEF RunItOut, table, money, flags, level
<1>3. TypeOK /\ SeatInv
  BY DEF HandInv
<1>4. HighestBet' = HighestBet /\ Live' = Live /\ CanAct' = CanAct
  BY <1>2 DEF HighestBet, Live, CanAct
<1>5. TypeOK' /\ SeatInv'
  BY <1>2, <1>3 DEF TypeOK, SeatInv, Phases
<1>6. ChipsConserved' /\ HighestBetIsLive' /\ AllInIsBroke' /\ Fresh' /\ BoardInv'
  BY <1>1, <1>2, <1>4 DEF HandInv, ChipsConserved, HighestBetIsLive, AllInIsBroke, Fresh,
                          BoardInv, BettingPhases
<1>7. BetsMatchedAtClose'
  <2>1. HighestBet \in Nat /\ \A p \in seated : bet[p] <= HighestBet
    BY <1>3, TopBetFacts DEF TypeOK, HighestBet
  <2>2. \A p \in seated : bet[p] \in Nat
    BY <1>3 DEF TypeOK
  <2>3. ~SomeoneMustCall
    BY <1>1 DEF HandInv, RunOutOnlyWhenSettled, SomeoneMustCall
  <2>4. \A p \in CanAct : bet[p] = HighestBet
    BY <2>1, <2>2, <2>3 DEF SomeoneMustCall, CanAct, Live
  <2>5. \A p \in CanAct' : bet'[p] = HighestBet'
    BY <1>2, <1>4, <2>4
  <2> QED BY <2>5 DEF BetsMatchedAtClose
<1> QED BY <1>2, <1>5, <1>6, <1>7
        DEF HandInv, TurnInv, Matched, BlindPosted, Waiting, RunOutOnlyWhenSettled, BettingPhases

LEMMA DealCardsStep == ASSUME HandInv, DealCards PROVE HandInv'
<1>1. /\ UNCHANGED <<seated, dealer, cur, stack, bet, pot, folded, allIn, acted, ante,
                     handCount, lastRaise, raises, bbActed, awaiting, runItOut>>
      /\ phase = "DEALING_CARDS" /\ phase' = "INITIALIZING_BET_ROUND"
      /\ board' = IF board = 0 THEN 3 ELSE board + 1
  BY DEF DealCards, table, money, flags, level
<1>2. TypeOK /\ SeatInv
  BY DEF HandInv
<1>3. HighestBet' = HighestBet /\ Live' = Live
  BY <1>1 DEF HighestBet, Live
<1>4. board' \in {3, 4, 5}
  BY <1>1, <1>2 DEF HandInv, BoardInv, TypeOK
<1>5. TypeOK' /\ SeatInv'
  BY <1>1, <1>2, <1>4 DEF TypeOK, SeatInv, Phases
<1>6. ChipsConserved' /\ HighestBetIsLive' /\ AllInIsBroke'
  BY <1>1, <1>3 DEF HandInv, ChipsConserved, HighestBetIsLive, AllInIsBroke
<1> QED BY <1>1, <1>4, <1>5, <1>6
        DEF HandInv, Fresh, BoardInv, TurnInv, Matched, BlindPosted, BetsMatchedAtClose,
            Waiting, RunOutOnlyWhenSettled, BettingPhases

LEMMA ShowdownStep == ASSUME HandInv, Showdown PROVE HandInv'
<1>1. /\ UNCHANGED <<seated, dealer, cur, stack, bet, pot, folded, allIn, acted, board, ante,
                     handCount, lastRaise, raises, bbActed, awaiting, runItOut>>
      /\ phase = "SHOWDOWN" /\ phase' = "EVALUATING_HAND"
  BY DEF Showdown, table, money, flags, level
<1>2. HighestBet' = HighestBet /\ Live' = Live /\ CanAct' = CanAct
  BY <1>1 DEF HighestBet, Live, CanAct
<1>3. TypeOK' /\ SeatInv'
  BY <1>1 DEF HandInv, TypeOK, SeatInv, Phases
<1>4. ChipsConserved' /\ HighestBetIsLive' /\ AllInIsBroke' /\ BetsMatchedAtClose'
  BY <1>1, <1>2 DEF HandInv, ChipsConserved, HighestBetIsLive, AllInIsBroke, BetsMatchedAtClose
<1> QED BY <1>1, <1>3, <1>4
        DEF HandInv, Fresh, BoardInv, TurnInv, Matched, BlindPosted, Waiting,
            RunOutOnlyWhenSettled, BettingPhases

\* What is paid out is what was bet, because somebody still in has bet.
LEMMA PayoutsKeep ==
  ASSUME HandInv, phase = "EVALUATING_HAND", NEW payout \in Payouts
  PROVE  payout \in [Players -> Nat] /\ SumFunction(payout) = SumFunction(bet)
<1> DEFINE out == Players \ Live
           dist == SeatsFromDealer
<1>1. TypeOK /\ SeatInv
  BY DEF HandInv
<1>2. Live \in SUBSET Players /\ Players \ out = Live
  BY <1>1 DEF Live, TypeOK
<1>3. PICK rank \in [Live -> 1..Cardinality(Live)] : payout = Payout(bet, out, rank, dist)
  BY DEF Payouts
<1>4. \A p \in Players \ out : rank[p] \in Nat
  BY <1>2, <1>3, Finite
<1>5. dist \in [Players -> Nat] /\ \A p, q \in Players : dist[p] = dist[q] => p = q
  <2>1. dealer \in Players
    BY <1>1 DEF TypeOK
  <2>2. \A q \in Players : Distance(dealer, q) \in Nat
    BY <2>1, DistanceFacts, SeatsType
  <2>3. \A p, q \in Players : Distance(dealer, p) = Distance(dealer, q) => p = q
    BY <2>1, DistanceFacts
  <2> QED BY <2>2, <2>3 DEF SeatsFromDealer
<1>6. \E p \in Players \ out : bet[p] > 0
  BY <1>2 DEF HandInv, HighestBetIsLive
<1>7. bet \in [Players -> Nat]
  BY <1>1 DEF TypeOK
<1> HIDE DEF out, dist
<1> QED BY <1>3, <1>4, <1>5, <1>6, <1>7, PayoutKeeps

LEMMA EvaluateHandStep == ASSUME HandInv, EvaluateHand PROVE HandInv'
<1>1. /\ UNCHANGED <<seated, dealer, cur, bet, pot, folded, allIn, acted, board, ante,
                     handCount, lastRaise, raises, bbActed, awaiting, runItOut>>
      /\ phase = "EVALUATING_HAND" /\ phase' = "HAND_OVER"
  BY DEF EvaluateHand, table, flags, level
<1>2. TypeOK /\ SeatInv
  BY DEF HandInv
<1>3. PICK payout \in Payouts : stack' = [p \in Players |-> stack[p] + payout[p]]
  BY DEF EvaluateHand
<1>4. payout \in [Players -> Nat] /\ SumFunction(payout) = SumFunction(bet)
  BY <1>1, PayoutsKeep
<1>5. stack \in [Players -> Nat] /\ stack' \in [Players -> Nat]
  BY <1>2, <1>3, <1>4 DEF TypeOK
<1>6. SumFunction(stack') = SumFunction(stack) + SumFunction(bet)
  <2>1. \A p \in Players : stack[p] \in Int /\ payout[p] \in Int
                           /\ stack'[p] = stack[p] + payout[p]
    BY <1>3, <1>4, <1>5
  <2>2. SumFunctionOnSet(stack', Players)
          = SumFunctionOnSet(stack, Players) + SumFunctionOnSet(payout, Players)
    BY <2>1, PlayersFinite, SumAdd
  <2> QED BY <1>4, <1>5, <2>2, TotalIsSum
<1>7. TypeOK' /\ SeatInv'
  BY <1>1, <1>2, <1>5 DEF TypeOK, SeatInv, Phases
<1>8. ChipsConserved'
  <2>1. PICK start \in InitStacks : SumFunction(start) = SumFunction(stack) + pot
    BY <1>1 DEF HandInv, ChipsConserved
  <2>2. pot = SumFunction(bet)
    BY DEF HandInv, ChipsConserved
  <2>3. SumFunction(stack') \in Nat
    BY <1>5, TotalNat
  <2> QED BY <1>1, <1>6, <2>1, <2>2, <2>3 DEF ChipsConserved
<1>9. HighestBetIsLive'
  BY <1>1 DEF HandInv, HighestBetIsLive, HighestBet, Live
<1> QED BY <1>1, <1>7, <1>8, <1>9
        DEF HandInv, Fresh, BoardInv, AllInIsBroke, TurnInv, Matched, BlindPosted, Waiting,
            BetsMatchedAtClose, RunOutOnlyWhenSettled, BettingPhases

LEMMA NextAnteType == ASSUME ante \in Nat, ante >= 1, NEW n \in Nat
                      PROVE  NextAnte(n) \in Nat /\ NextAnte(n) >= 1
<1> DEFINE grown == (ante * GrowthNum) \div GrowthDen
<1>1. grown \in Nat /\ grown >= 1
  <2>1. GrowthNum \in Nat /\ GrowthDen \in Nat \ {0} /\ GrowthNum >= GrowthDen
    BY BlindAssumption
  <2>2. ante * GrowthNum \in Nat /\ ante * GrowthNum >= GrowthNum
    BY <2>1
  <2>3. \A a \in Nat, d \in Nat \ {0} : a >= d => a \div d \in Nat /\ a \div d >= 1
    OBVIOUS
  <2> QED BY <2>1, <2>2, <2>3
<1> HIDE DEF grown
<1>2. MaxBlind \in Nat
  BY BlindAssumption
<1>3. NextAnte(n) \in {ante, grown} \/ (MaxBlind > 0 /\ NextAnte(n) = Lesser(grown, MaxBlind))
  <2>1. n % HandsPerLevel = 0 \/ n % HandsPerLevel # 0
    OBVIOUS
  <2> QED BY <2>1 DEF NextAnte, grown
<1> QED BY <1>1, <1>2, <1>3 DEF Lesser

LEMMA HandOverStep == ASSUME HandInv, HandOver PROVE HandInv'
<1>1. /\ phase = "HAND_OVER" /\ phase' = "INITIALIZING_HAND" /\ Cardinality(WithChips) >= 2
      /\ dealer' = NextAfter(dealer, WithChips) /\ cur' = dealer' /\ seated' = WithChips
      /\ handCount' = handCount + 1 /\ ante' = NextAnte(handCount + 1) /\ lastRaise' = ante'
      /\ bet' = [p \in Players |-> 0] /\ pot' = 0 /\ board' = 0 /\ raises' = 0
      /\ folded' = {} /\ allIn' = {} /\ acted' = {}
      /\ bbActed' = FALSE /\ awaiting' = FALSE /\ runItOut' = FALSE
      /\ stack' = stack
  BY DEF HandOver
<1>2. TypeOK /\ SeatInv
  BY DEF HandInv
<1>3. WithChips \in SUBSET Players /\ \A p \in WithChips : stack[p] > 0
  BY <1>2 DEF WithChips, TypeOK
<1>4. WithChips # {}
  BY <1>1, FS_EmptySet
<1>5. dealer' \in WithChips
  BY <1>1, <1>2, <1>3, <1>4, NextAfterFacts DEF TypeOK
<1>6. handCount' \in Nat /\ ante' \in Nat /\ ante' >= 1
  BY <1>1, <1>2, NextAnteType DEF TypeOK, SeatInv
<1>7. TypeOK' /\ SeatInv'
  BY <1>1, <1>2, <1>3, <1>5, <1>6 DEF TypeOK, SeatInv, Phases
<1>8. Fresh'
  BY <1>1, <1>3 DEF Fresh
<1>9. ChipsConserved'
  <2>1. SumFunction(bet') = 0
    <3>1. \A p \in Players : bet'[p] = 0
      BY <1>1
    <3>2. SumFunctionOnSet(bet', Players) = 0 * Cardinality(Players)
      BY <3>1, PlayersFinite, SumConst
    <3>3. Cardinality(Players) \in Nat /\ DOMAIN bet' = Players
      BY <1>1, SeatsType
    <3> QED BY <3>2, <3>3, TotalIsSum
  <2> QED BY <1>1, <2>1 DEF HandInv, ChipsConserved
<1> QED BY <1>1, <1>7, <1>8, <1>9
        DEF HandInv, BoardInv, HighestBetIsLive, AllInIsBroke, TurnInv, Matched, BlindPosted,
            Waiting, BetsMatchedAtClose, RunOutOnlyWhenSettled, BettingPhases

-----------------------------------------------------------------------------
(* The theorems. *)

LEMMA HandNext == HandInv /\ [Next]_vars => HandInv'
<1>1. ASSUME HandInv, UNCHANGED vars PROVE HandInv'
  BY <1>1 DEF vars, table, money, flags, level, HandInv, TypeOK, SeatInv, Fresh, BoardInv,
         ChipsConserved, HighestBetIsLive, AllInIsBroke, TurnInv, Matched, BlindPosted, Waiting,
         RunOutOnlyWhenSettled, BetsMatchedAtClose, HighestBet, Live, CanAct, Active,
         BigBlindOption, BigBlind, SmallBlind, SomeoneMustCall
<1>2. ASSUME HandInv, Advance PROVE HandInv'
  BY <1>2, InitializeGameStep, InitializeHandStep, InitializeBettingRoundStep,
     RunBettingRoundStep, RunItOutStep, DealCardsStep, ShowdownStep, EvaluateHandStep,
     HandOverStep DEF Advance
<1>3. ASSUME HandInv, Stopped PROVE HandInv'
  BY <1>1, <1>3 DEF Stopped
<1> QED BY <1>1, <1>2, <1>3, PlayTurnStep DEF Next

\* The inductive invariant holds for any number of players, stacks, blinds and
\* hands (all of poker_game.py's transitions together).
THEOREM HandInvariant == Spec => []HandInv
BY HandInit, HandNext, PTL DEF Spec

\* PokerGameState stays well formed.
THEOREM HandTypeCorrect == Spec => []TypeOK
BY HandInvariant, PTL DEF HandInv

\* No chip is made or lost by blinds, bets, awards or the start of a hand.
THEOREM HandChipsConserved == Spec => []ChipsConserved
BY HandInvariant, PTL DEF HandInv

\* The highest bet is held by somebody the showdown can pay.
THEOREM HandHighestBetIsLive == Spec => []HighestBetIsLive
BY HandInvariant, PTL DEF HandInv

\* place_bet's is_all_in flag tells the truth throughout the hand.
THEOREM HandAllInIsBroke == Spec => []AllInIsBroke
BY HandInvariant, PTL DEF HandInv

\* run_it_out is set only when no decision is left.
THEOREM HandRunOutOnlyWhenSettled == Spec => []RunOutOnlyWhenSettled
BY HandInvariant, PTL DEF HandInv

\* A street closes on matched bets only.
THEOREM HandBetsMatchedAtClose == Spec => []BetsMatchedAtClose
BY HandInvariant, PTL DEF HandInv

\* The game waits only for a player who has a decision to make.
THEOREM HandTurnIsOwed == Spec => []TurnIsOwed
<1>1. HandInv => TurnIsOwed
  <2>1. SUFFICES ASSUME HandInv, awaiting, ~runItOut
                 PROVE  /\ cur \in CanAct /\ stack[cur] > 0
                        /\ cur \notin acted \/ bet[cur] < HighestBet
                        /\ Options # {}
    BY DEF TurnIsOwed
  <2>2. cur \in CanAct /\ stack[cur] > 0 /\ cur \notin acted
    BY <2>1, AwaitedCanAct
  <2>3. "all_in" \in Options
    BY <2>2 DEF Options, Open
  <2> QED BY <2>2, <2>3
<1> QED BY <1>1, HandInvariant, PTL

\* During betting the phase moves on and the bets grow in known ways only.
LEMMA BettingMoves ==
  ASSUME HandInv, [Next]_vars, phase \in BettingPhases
  PROVE  \/ PlayTurn /\ phase' = phase
         \/ RunBettingRound /\ HighestBet' = HighestBet
         \/ runItOut /\ HighestBet' = HighestBet
         \/ phase' = phase /\ HighestBet' = HighestBet
<1>1. ASSUME PlayTurn PROVE phase' = phase
  BY <1>1 DEF PlayTurn, Fold, Check, Call, AllIn, GoAllIn, Raise, EndTurn
<1>2. ASSUME RunBettingRound PROVE HighestBet' = HighestBet
  BY <1>2 DEF RunBettingRound, HighestBet, money, table
<1>3. ASSUME RunItOut PROVE runItOut /\ HighestBet' = HighestBet
  BY <1>3 DEF RunItOut, HighestBet, money, table
<1>4. ASSUME UNCHANGED vars PROVE phase' = phase /\ HighestBet' = HighestBet
  BY <1>4 DEF vars, HighestBet, money, table
<1>5. ~InitializeGame /\ ~InitializeHand /\ ~InitializeBettingRound /\ ~DealCards
      /\ ~Showdown /\ ~EvaluateHand /\ ~HandOver /\ ~Stopped
  BY DEF InitializeGame, InitializeHand, InitializeBettingRound, DealCards, Showdown,
         EvaluateHand, HandOver, Stopped, BettingPhases
<1> QED BY <1>1, <1>2, <1>3, <1>4, <1>5 DEF Next, Advance

\* No street closes by betting over the head of a player who still has a turn.
THEOREM HandNobodySkipped == Spec => NobodySkipped
<1> DEFINE Skips == /\ phase \in BettingPhases /\ phase' \in {"DEALING_CARDS", "EVALUATING_HAND"}
                    /\ ~runItOut
<1>1. ASSUME HandInv, [Next]_vars, Skips PROVE CanAct \subseteq acted
  <2>1. RunBettingRound
    BY <1>1, BettingMoves DEF BettingPhases
  <2>2. Active = {}
    BY <1>1, <2>1 DEF RunBettingRound, ContributionsValid, BettingPhases
  <2>3. \A p \in seated : stack[p] \in Nat /\ (p \in allIn <=> stack[p] = 0)
    BY <1>1 DEF HandInv, TypeOK, AllInIsBroke
  <2> QED BY <2>2, <2>3 DEF Active, CanAct, Live
<1>2. HandInv /\ [Next]_vars => [Skips => CanAct \subseteq acted]_vars
  BY <1>1
<1> QED BY <1>2, HandInvariant, PTL DEF Spec, NobodySkipped

\* Only an all-in, or a raise that the options offer, beats the highest bet, and
\* the raise beats it by a full raise.
LEMMA WhoRaises ==
  ASSUME HandInv, PlayTurn, HighestBet' > HighestBet
  PROVE  cur \in allIn' \/ ("raise" \in Options /\ HighestBet' - HighestBet >= lastRaise)
<1>1. awaiting /\ ~runItOut
  BY DEF PlayTurn, Fold, Check, Call, AllIn, Raise, MayTake
<1>2. /\ cur \in Players /\ stack[cur] \in Nat /\ bet[cur] \in Nat
      /\ HighestBet \in Nat /\ bet[cur] <= HighestBet
  BY <1>1, AwaitedCanAct
<1>3. raises \in Nat /\ lastRaise \in Nat
  BY DEF HandInv, TypeOK
<1>4. ASSUME Fold \/ Check PROVE FALSE
  BY <1>2, <1>4 DEF Fold, Check, EndTurn, money, table, HighestBet
<1>5. ASSUME Call PROVE FALSE
  <2> DEFINE put == Lesser(CostToCall, stack[cur])
  <2>1. CostToCall \in Nat /\ bet[cur] + CostToCall = HighestBet
    BY <1>2 DEF CostToCall
  <2>2. PlaceBet(CostToCall) /\ seated' = seated
    BY <1>5 DEF Call
  <2>3. HighestBet' = IF bet[cur] + put > HighestBet THEN bet[cur] + put ELSE HighestBet
    BY <1>1, <2>1, <2>2, PlaceBetFacts
  <2>4. put \in Nat /\ put <= CostToCall
    BY <1>2, <2>1 DEF Lesser
  <2> HIDE DEF put
  <2> QED BY <1>2, <2>1, <2>3, <2>4
<1>6. ASSUME GoAllIn PROVE cur \in allIn'
  BY <1>2, <1>6 DEF GoAllIn, PlaceBet, AllInAfter
<1>7. ASSUME NEW to \in Nat, Raise(to), SanitizedRaise(to) # MaxRaiseTo
      PROVE  "raise" \in Options /\ HighestBet' - HighestBet >= lastRaise
  <2> DEFINE sanitized == SanitizedRaise(to)
             amount == sanitized - bet[cur]
             put == Lesser(amount, stack[cur])
  <2>1. /\ sanitized \in Nat /\ sanitized >= HighestBet + lastRaise
        /\ sanitized < bet[cur] + stack[cur]
    BY <1>2, <1>3, <1>7 DEF SanitizedRaise, MinRaiseTo, MaxRaiseTo
  <2>2. PlaceBet(amount) /\ seated' = seated /\ "raise" \in Options
    BY <1>7 DEF Raise, MayTake
  <2> HIDE DEF sanitized
  <2>3. amount \in Nat /\ put = amount
    BY <1>2, <1>3, <2>1 DEF Lesser
  <2> HIDE DEF put
  <2>4. HighestBet' = IF bet[cur] + amount > HighestBet THEN bet[cur] + amount ELSE HighestBet
    <3> HIDE DEF amount
    <3> QED BY <1>1, <2>2, <2>3, PlaceBetFacts DEF put
  <2>5. bet[cur] + amount = sanitized
    BY <1>2, <2>1
  <2> QED BY <1>2, <1>3, <2>1, <2>2, <2>4, <2>5
<1> QED BY <1>4, <1>5, <1>6, <1>7 DEF PlayTurn, AllIn, Raise

\* The minimum raise never falls below the big blind.
RaiseInv == lastRaise >= ante

LEMMA RaiseNext == HandInv /\ RaiseInv /\ [Next]_vars => RaiseInv'
<1> SUFFICES ASSUME HandInv, RaiseInv, [Next]_vars PROVE RaiseInv'
  OBVIOUS
<1>1. lastRaise \in Nat /\ ante \in Nat
  BY DEF HandInv, TypeOK
<1>2. ASSUME PlayTurn PROVE RaiseInv'
  <2>1. ante' = ante /\ awaiting /\ ~runItOut
    BY <1>2 DEF PlayTurn, Fold, Check, Call, AllIn, GoAllIn, Raise, EndTurn, level, MayTake
  <2>2. stack[cur] \in Nat /\ bet[cur] \in Nat /\ HighestBet \in Nat
    BY <2>1, AwaitedCanAct
  <2>3. ASSUME Fold \/ Check \/ Call PROVE RaiseInv'
    BY <2>1, <2>3 DEF Fold, Check, Call, RaiseInv
  <2>4. ASSUME GoAllIn PROVE RaiseInv'
    BY <1>1, <2>1, <2>2, <2>4 DEF GoAllIn, RaiseInv
  <2>5. ASSUME NEW to \in Nat, Raise(to), SanitizedRaise(to) # MaxRaiseTo PROVE RaiseInv'
    <3>1. SanitizedRaise(to) \in Nat /\ SanitizedRaise(to) >= HighestBet + lastRaise
      BY <1>1, <2>2, <2>5 DEF SanitizedRaise, MinRaiseTo, MaxRaiseTo
    <3>2. lastRaise' = SanitizedRaise(to) - HighestBet
      BY <2>5 DEF Raise
    <3> QED BY <1>1, <2>1, <2>2, <3>1, <3>2 DEF RaiseInv
  <2> QED BY <1>2, <2>3, <2>4, <2>5 DEF PlayTurn, AllIn, Raise
<1>3. ASSUME HandOver \/ InitializeBettingRound PROVE RaiseInv'
  <2>1. CASE HandOver
    <3>1. ante' = NextAnte(handCount + 1) /\ lastRaise' = ante'
      BY <2>1 DEF HandOver
    <3>2. ante' \in Nat
      BY <3>1, NextAnteType DEF HandInv, TypeOK, SeatInv
    <3> QED BY <3>1, <3>2 DEF RaiseInv
  <2>2. CASE InitializeBettingRound
    BY <1>1, <2>2 DEF InitializeBettingRound, RaiseInv, level
  <2> QED BY <1>3, <2>1, <2>2
<1>4. ASSUME \/ InitializeGame \/ InitializeHand \/ RunBettingRound \/ RunItOut \/ DealCards
             \/ Showdown \/ EvaluateHand \/ Stopped \/ UNCHANGED vars
      PROVE  RaiseInv'
  BY <1>4 DEF InitializeGame, InitializeHand, RunBettingRound, RunItOut, DealCards, Showdown,
              EvaluateHand, Stopped, vars, level, RaiseInv
<1> QED BY <1>2, <1>3, <1>4 DEF Next, Advance

\* Every raise that leaves chips behind is a full raise of at least the big
\* blind (validate_and_sanitize with player_raise).
THEOREM HandFullRaise == Spec => FullRaise
<1> DEFINE Beats == phase \in BettingPhases /\ HighestBet' > HighestBet /\ cur \notin allIn'
           Full == /\ HighestBet' - HighestBet >= lastRaise
                   /\ HighestBet' - HighestBet >= ante
<1>1. ASSUME HandInv, HandInv', RaiseInv, [Next]_vars, Beats PROVE Full
  <2>1. HighestBet \in Nat
    BY <1>1, TopBetFacts DEF HandInv, TypeOK, HighestBet
  <2>2. PlayTurn
    BY <1>1, <2>1, BettingMoves
  <2>3. HighestBet' - HighestBet >= lastRaise
    BY <1>1, <2>2, WhoRaises
  <2>4. lastRaise \in Nat /\ ante \in Nat /\ lastRaise >= ante
    BY <1>1 DEF HandInv, TypeOK, RaiseInv
  <2>5. HighestBet' \in Nat
    <3>1. HighestBet' = TopBet(bet', seated')
      BY DEF HighestBet
    <3>2. bet' \in [Players -> Nat] /\ seated' \in SUBSET Players
      BY <1>1 DEF HandInv, TypeOK
    <3> QED BY <3>1, <3>2, TopBetFacts
  <2>6. \A x, y, z, a \in Nat : x - y >= z /\ z >= a => x - y >= a
    OBVIOUS
  <2>7. HighestBet' - HighestBet >= ante
    BY ONLY <2>1, <2>3, <2>4, <2>5, <2>6
  <2> QED BY <2>3, <2>7
<1>2. Init => RaiseInv
  BY BlindAssumption DEF Init, RaiseInv
<1>3. HandInv /\ HandInv' /\ RaiseInv /\ [Next]_vars => [Beats => Full]_vars
  BY <1>1
<1> QED BY <1>2, <1>3, RaiseNext, HandInvariant, PTL DEF Spec, FullRaise

\* Past the cap the options offer no raise, so only an all-in beats the bet.
THEOREM HandCapHolds == Spec => CapHolds
<1> DEFINE Beats == /\ phase \in BettingPhases /\ HighestBet' > HighestBet
                    /\ raises >= MaxRaises /\ Cardinality(Live \cap WithChips) > 2
<1>1. ASSUME HandInv, [Next]_vars, Beats PROVE cur \in allIn'
  <2>1. HighestBet \in Nat
    BY <1>1, TopBetFacts DEF HandInv, TypeOK, HighestBet
  <2>2. PlayTurn
    BY <1>1, <2>1, BettingMoves
  <2>3. RaiseCapReached
    <3>1. Live \cap WithChips \in SUBSET Players
      BY <1>1 DEF HandInv, TypeOK, Live, WithChips
    <3> QED BY <1>1, <3>1, Finite DEF RaiseCapReached
  <2>4. "raise" \notin Options
    BY <2>3 DEF Options, Open
  <2> QED BY <1>1, <2>2, <2>4, WhoRaises
<1>2. HandInv /\ [Next]_vars => [Beats => cur \in allIn']_vars
  BY <1>1
<1> QED BY <1>2, HandInvariant, PTL DEF Spec, CapHolds
=============================================================================
