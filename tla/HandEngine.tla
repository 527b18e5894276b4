----------------------------- MODULE HandEngine -----------------------------
(***************************************************************************)
(* The hand engine: PokerGameState with its play functions                 *)
(* (poker/poker_game.py), the phase machine that drives it                 *)
(* (poker/poker_state_machine.py), the raise sanitiser                     *)
(* (poker/betting_context.py) and the run-it-out branch of progress_game   *)
(* (flask_app/handlers/game_handler.py).                                   *)
(*                                                                         *)
(* The code keeps the table as a tuple that is rotated and pruned between  *)
(* hands and addresses players by index.  Rotating and pruning never       *)
(* change who sits next to whom, so the model keeps one fixed ring of      *)
(* seats, the set of players still in, and names players directly:         *)
(* "dealer_idx + 2 modulo the length" is the second player to the left of  *)
(* the dealer who is still in.                                             *)
(*                                                                         *)
(* Cards are abstracted to the number on the board and, at the showdown,   *)
(* to any ranking of the hands still in.                                   *)
(*                                                                         *)
(* BigBlindOptionForever, BetsEven and the like are faulty variants of the *)
(* operator each stands before.                                            *)
(***************************************************************************)
EXTENDS SidePots

CONSTANTS
    Ring,           \* [Players -> 0..n-1]: seat numbers, clockwise
    Humans,         \* the players with is_human
    InitStacks,     \* the stack functions a game may start with
    InitAnte,       \* first big blind
    GrowthNum,      \* BlindConfig.growth as a fraction
    GrowthDen,
    HandsPerLevel,  \* BlindConfig.hands_per_level
    MaxBlind,       \* BlindConfig.max_blind, 0 = no limit
    MaxRaises,      \* MAX_RAISES_PER_ROUND
    MaxHands        \* bound: no hand is dealt after this many

ASSUME RingAssumption ==
    /\ Ring \in [Players -> 0..(Cardinality(Players) - 1)]
    /\ \A p, q \in Players : Ring[p] = Ring[q] => p = q
ASSUME SetsAssumption ==
    /\ Humans \in SUBSET Players
    /\ Cardinality(Players) >= 2
    /\ InitStacks \in SUBSET [Players -> Nat \ {0}]
ASSUME BlindAssumption ==
    /\ InitAnte \in Nat \ {0} /\ GrowthNum \in Nat /\ GrowthDen \in Nat \ {0}
    /\ GrowthNum >= GrowthDen   \* every caller escalates or keeps the blinds
    /\ HandsPerLevel \in Nat \ {0} /\ MaxBlind \in Nat
    /\ MaxRaises \in Nat /\ MaxHands \in Nat

VARIABLES
    phase,      \* PokerPhase
    seated,     \* the players in the players tuple
    dealer,     \* player at current_dealer_idx
    cur,        \* player at current_player_idx
    stack,      \* player.stack
    bet,        \* player.bet, cumulative over the hand
    folded,     \* players with is_folded
    allIn,      \* players with is_all_in
    acted,      \* players with has_acted
    pot,        \* pot['total']
    board,      \* len(community_cards)
    ante,       \* current_ante: the big blind
    lastRaise,  \* last_raise_amount
    raises,     \* raises_this_round
    bbActed,    \* pre_flop_action_taken
    awaiting,   \* awaiting_action
    runItOut,   \* run_it_out
    handCount   \* stats.hand_count

money == <<stack, bet, pot>>
flags == <<folded, allIn, acted>>
level == <<ante, handCount>>
table == <<seated, dealer>>
vars == <<phase, table, cur, money, flags, board, level, lastRaise, raises,
          bbActed, awaiting, runItOut>>

BettingPhases == {"PRE_FLOP", "FLOP", "TURN", "RIVER"}
Phases == BettingPhases \cup
    {"INITIALIZING_GAME", "INITIALIZING_HAND", "INITIALIZING_BET_ROUND",
     "DEALING_CARDS", "SHOWDOWN", "EVALUATING_HAND", "HAND_OVER"}

TypeOK ==
    /\ phase \in Phases
    /\ seated \in SUBSET Players /\ dealer \in Players /\ cur \in Players
    /\ stack \in [Players -> Nat] /\ bet \in [Players -> Nat] /\ pot \in Nat
    /\ folded \in SUBSET Players /\ allIn \in SUBSET Players /\ acted \in SUBSET Players
    /\ board \in {0, 3, 4, 5}
    /\ ante \in Nat /\ lastRaise \in Nat /\ raises \in Nat /\ handCount \in Nat
    /\ bbActed \in BOOLEAN /\ awaiting \in BOOLEAN /\ runItOut \in BOOLEAN

-----------------------------------------------------------------------------
(* The derived properties of PokerGameState and Player. *)

\* Seats walked from p to reach q: 1 is p's left neighbour, p itself is a
\* whole lap away.
Distance(p, q) ==
    LET d == (Ring[q] - Ring[p]) % Cardinality(Players)
    IN  IF d = 0 THEN Cardinality(Players) ELSE d

\* get_next_active_player_idx: the first member of S met walking left from p,
\* p itself last.
NextAfter(p, S) == CHOOSE q \in S : \A r \in S : Distance(p, q) <= Distance(p, r)

Active == {p \in seated \ (folded \cup allIn \cup acted) : stack[p] > 0}
Live == seated \ folded
CanAct == Live \ allIn
WithChips == {p \in seated : stack[p] > 0}

SmallBlind == IF Cardinality(seated) = 2 THEN dealer ELSE NextAfter(dealer, seated)
BigBlind == NextAfter(SmallBlind, seated)

TopBet(b, S) == Max({b[p] : p \in S} \cup {0})
HighestBet == TopBet(bet, seated)

BigBlindOptionForever == cur = BigBlind /\ board = 0 /\ HighestBet = ante

\* can_big_blind_take_pre_flop_action
BigBlindOption ==
    cur = BigBlind /\ board = 0 /\ HighestBet = ante /\ ~bbActed

BetsEven == \A p \in CanAct : bet[p] = HighestBet

\* are_pot_contributions_valid
ContributionsValid == ~BigBlindOption /\ Active = {}

CostToCall == HighestBet - bet[cur]

\* Unlimited raises once only two of the players still in have chips behind.
RaiseCapReached ==
    Cardinality(Live \cap WithChips) # 2 /\ raises >= MaxRaises

\* option_conditions: when each action is open to the current player.
Open(o) ==
    CASE o = "fold"   -> CostToCall > 0
      [] o = "check"  -> CostToCall = 0
      [] o = "call"   -> CostToCall > 0 /\ stack[cur] > CostToCall
      [] o = "raise"  -> stack[cur] > CostToCall /\ ~RaiseCapReached
      [] o = "all_in" -> stack[cur] > 0

\* current_player_options
Options ==
    IF BigBlindOption
    THEN {"check", "all_in"} \cup (IF RaiseCapReached THEN {} ELSE {"raise"})
    ELSE {o \in {"fold", "check", "call", "raise", "all_in"} : Open(o)}

\* BettingContext.validate_and_sanitize of a "raise to" amount.
MinRaiseTo == HighestBet + lastRaise
MaxRaiseTo == bet[cur] + stack[cur]
NoMinimumRaise(to) == Lesser(to, MaxRaiseTo)

SanitizedRaise(to) ==
    IF to >= MaxRaiseTo \/ MaxRaiseTo < MinRaiseTo THEN MaxRaiseTo
    ELSE IF to < MinRaiseTo THEN MinRaiseTo ELSE to

-----------------------------------------------------------------------------
(* A player's turn: play_turn, then advance_to_next_active_player. *)

\* place_bet sets is_all_in from the amount asked for.
AllInAfter(amount) ==
    IF stack[cur] <= amount THEN allIn \cup {cur} ELSE allIn \ {cur}

\* has_acted after the current player's bet stands at newBet: play_turn sets the
\* player's own flag, and raising the highest bet clears everybody else's.
ActedWithoutReset(newBet) == acted \cup {cur}

ActedAfter(newBet) == IF newBet > HighestBet THEN {cur} ELSE acted \cup {cur}

\* place_bet for the current player
PlaceBet(amount) ==
    LET put == Lesser(amount, stack[cur])
    IN  /\ stack' = [stack EXCEPT ![cur] = @ - put]
        /\ bet' = [bet EXCEPT ![cur] = @ + put]
        /\ pot' = pot + put
        /\ allIn' = AllInAfter(amount)
        /\ acted' = ActedAfter(bet[cur] + put)

\* What play_turn and the advance to the next active player do after any
\* action.  With nobody active the current player stays where it is.
EndTurn ==
    /\ bbActed' = (bbActed \/ (cur = BigBlind /\ board = 0 /\ HighestBet' = ante))
    /\ awaiting' = FALSE
    /\ cur' = IF Active' = {} THEN cur ELSE NextAfter(cur, Active')
    /\ UNCHANGED <<phase, table, level, board, runItOut>>

MayTake(option) == awaiting /\ ~runItOut /\ option \in Options

Fold ==
    /\ MayTake("fold")
    /\ folded' = folded \cup {cur}
    /\ acted' = acted \cup {cur}
    /\ UNCHANGED <<money, allIn, seated, lastRaise, raises>>
    /\ EndTurn

Check ==
    /\ MayTake("check")
    /\ acted' = acted \cup {cur}
    /\ UNCHANGED <<money, folded, allIn, seated, lastRaise, raises>>
    /\ EndTurn

Call ==
    /\ MayTake("call")
    /\ PlaceBet(CostToCall)
    /\ UNCHANGED <<folded, seated, lastRaise, raises>>
    /\ EndTurn

\* player_all_in: a raise when it exceeds the cost of calling, and a new
\* minimum raise only when it is a full raise.
GoAllIn ==
    LET raiseBy == bet[cur] + stack[cur] - HighestBet
    IN  /\ PlaceBet(stack[cur])
        /\ raises' = IF raiseBy > 0 THEN raises + 1 ELSE raises
        /\ lastRaise' = IF raiseBy > 0 /\ raiseBy >= lastRaise THEN raiseBy ELSE lastRaise
        /\ UNCHANGED <<folded, seated>>
        /\ EndTurn

AllIn == MayTake("all_in") /\ GoAllIn

\* player_raise: the amount asked for is corrected first, and a raise to the
\* whole stack is an all-in.
Raise(to) ==
    LET sanitized == SanitizedRaise(to)
    IN  /\ MayTake("raise")
        /\ \/ /\ sanitized = MaxRaiseTo
              /\ GoAllIn
           \/ /\ sanitized # MaxRaiseTo
              /\ PlaceBet(sanitized - bet[cur])
              /\ raises' = raises + 1
              /\ lastRaise' = sanitized - HighestBet
              /\ UNCHANGED <<folded, seated>>
              /\ EndTurn

PlayTurn == \/ Fold \/ Check \/ Call \/ AllIn
            \/ \E to \in 0..(MaxRaiseTo + 1) : Raise(to)

-----------------------------------------------------------------------------
(* The transitions of the phase machine, one per phase handler. *)

InitializeGame ==
    /\ phase = "INITIALIZING_GAME"
    /\ phase' = "INITIALIZING_HAND"
    /\ UNCHANGED <<table, cur, money, flags, board, level, lastRaise, raises,
                   bbActed, awaiting, runItOut>>

\* place_bet caps a blind at the player's stack.
BlindUncapped(p, amount) == amount

Blind(p, amount) == Lesser(amount, stack[p])

\* setup_hand posts the blinds; with everybody all-in from the blinds there is
\* no start player and the hand goes to the showdown.
InitializeHand ==
    LET sb    == SmallBlind
        bb    == BigBlind
        small == Blind(sb, ante \div 2)
        big   == Blind(bb, ante)
    IN  /\ phase = "INITIALIZING_HAND"
        /\ stack' = [stack EXCEPT ![sb] = @ - small, ![bb] = @ - big]
        /\ bet' = [bet EXCEPT ![sb] = @ + small, ![bb] = @ + big]
        /\ pot' = pot + small + big
        /\ allIn' = {p \in {sb, bb} : IF p = sb THEN stack[p] <= ante \div 2
                                      ELSE stack[p] <= ante}
        /\ UNCHANGED <<seated, folded, acted>>
        /\ IF Active' = {}
           THEN phase' = "SHOWDOWN" /\ UNCHANGED <<cur, raises>>
           ELSE /\ phase' = "PRE_FLOP"
                /\ cur' = NextAfter(bb, Active')
                /\ raises' = 0
        /\ UNCHANGED <<dealer, level, board, lastRaise, bbActed, awaiting, runItOut>>

NextBettingPhase == CASE board = 0 -> "PRE_FLOP" [] board = 3 -> "FLOP"
                      [] board = 4 -> "TURN"     [] board = 5 -> "RIVER"

InitializeBettingRound ==
    /\ phase = "INITIALIZING_BET_ROUND"
    /\ UNCHANGED <<table, money, folded, allIn, board, level, bbActed>>
    /\ \/ /\ Cardinality(Live) <= 1
          /\ phase' = "SHOWDOWN"
          /\ UNCHANGED <<cur, acted, lastRaise, raises, awaiting, runItOut>>
       \/ /\ Cardinality(Live) > 1
          /\ acted' = {}
          /\ phase' = NextBettingPhase
          /\ IF Active' = {}
             THEN /\ awaiting' = TRUE /\ runItOut' = TRUE
                  /\ UNCHANGED <<cur, lastRaise, raises>>
             ELSE /\ cur' = NextAfter(IF board > 0 THEN dealer ELSE BigBlind, Active')
                  /\ lastRaise' = ante
                  /\ raises' = 0
                  /\ runItOut' = FALSE
                  /\ UNCHANGED awaiting

\* run_betting_round_transition; progress_game also runs it again while a
\* player is awaited, so awaiting is no guard here.
NobodyMustCall == FALSE

SomeoneMustCall == \E p \in CanAct : bet[p] < HighestBet

RunBettingRound ==
    /\ phase \in BettingPhases
    /\ \/ /\ Cardinality(Live) = 1
          /\ phase' = "SHOWDOWN"
          /\ UNCHANGED <<awaiting, runItOut>>
       \/ /\ Cardinality(Live) # 1 /\ Cardinality(CanAct) <= 1
          /\ awaiting' = TRUE
          /\ runItOut' = (runItOut \/ ~SomeoneMustCall)
          /\ UNCHANGED phase
       \/ /\ Cardinality(Live) # 1 /\ Cardinality(CanAct) > 1
          /\ ~ContributionsValid
          /\ awaiting' = TRUE
          /\ UNCHANGED <<phase, runItOut>>
       \/ /\ Cardinality(Live) # 1 /\ Cardinality(CanAct) > 1
          /\ ContributionsValid
          /\ phase' = IF phase = "RIVER" THEN "EVALUATING_HAND" ELSE "DEALING_CARDS"
          /\ UNCHANGED <<awaiting, runItOut>>
    /\ UNCHANGED <<table, cur, money, flags, board, level, lastRaise, raises, bbActed>>

\* progress_game with run_it_out set: no betting, on to the next street or the
\* showdown.
RunItOut ==
    /\ awaiting /\ runItOut
    /\ awaiting' = FALSE /\ runItOut' = FALSE
    /\ phase' = IF phase = "RIVER" THEN "SHOWDOWN" ELSE "DEALING_CARDS"
    /\ UNCHANGED <<table, cur, money, flags, board, level, lastRaise, raises, bbActed>>

DealCards ==
    /\ phase = "DEALING_CARDS"
    /\ board' = IF board = 0 THEN 3 ELSE board + 1
    /\ phase' = "INITIALIZING_BET_ROUND"
    /\ UNCHANGED <<table, cur, money, flags, level, lastRaise, raises, bbActed,
                   awaiting, runItOut>>

Showdown ==
    /\ phase = "SHOWDOWN"
    /\ phase' = "EVALUATING_HAND"
    /\ UNCHANGED <<table, cur, money, flags, board, level, lastRaise, raises,
                   bbActed, awaiting, runItOut>>

\* determine_winner for every order the hands still in may have.
SeatsFromDealer == [p \in Players |-> Distance(dealer, p)]
Payouts == {Payout(bet, Players \ Live, rank, SeatsFromDealer) :
               rank \in [Live -> 1..Cardinality(Live)]}

\* determine_winner and award_pot_winnings; the pot and the bets stay on the
\* books until the next hand is set up.
EvaluateHand ==
    /\ phase = "EVALUATING_HAND"
    /\ \E payout \in Payouts : stack' = [p \in Players |-> stack[p] + payout[p]]
    /\ phase' = "HAND_OVER"
    /\ UNCHANGED <<table, cur, bet, pot, flags, board, level, lastRaise, raises,
                   bbActed, awaiting, runItOut>>

\* The blinds of hand number n, one level up every HandsPerLevel hands.
NextAnte(n) ==
    LET grown == (ante * GrowthNum) \div GrowthDen
    IN  CASE n % HandsPerLevel # 0 -> ante
          [] n % HandsPerLevel = 0 /\ MaxBlind > 0 -> Lesser(grown, MaxBlind)
          [] OTHER -> grown

\* hand_over_transition: the button moves to the next player with chips and
\* the players without leave.  The callers do not deal on with fewer than two.
HandOver ==
    /\ phase = "HAND_OVER"
    /\ Cardinality(WithChips) >= 2
    /\ handCount < MaxHands
    /\ phase' = "INITIALIZING_HAND"
    /\ dealer' = NextAfter(dealer, WithChips)
    /\ cur' = dealer'
    /\ seated' = WithChips
    /\ handCount' = handCount + 1
    /\ ante' = NextAnte(handCount + 1)
    /\ lastRaise' = ante'
    /\ bet' = [p \in Players |-> 0] /\ pot' = 0 /\ board' = 0 /\ raises' = 0
    /\ folded' = {} /\ allIn' = {} /\ acted' = {}
    /\ bbActed' = FALSE /\ awaiting' = FALSE /\ runItOut' = FALSE
    /\ UNCHANGED stack

\* Nothing more is dealt: one player holds all the chips, or the bound is met.
Stopped ==
    /\ phase = "HAND_OVER"
    /\ Cardinality(WithChips) < 2 \/ handCount = MaxHands
    /\ UNCHANGED vars

-----------------------------------------------------------------------------
Init ==
    /\ phase = "INITIALIZING_GAME"
    /\ seated = Players
    /\ dealer \in Players
    /\ cur = CHOOSE p \in Players : Ring[p] = 0
    /\ stack \in InitStacks
    /\ bet = [p \in Players |-> 0] /\ pot = 0 /\ board = 0
    /\ folded = {} /\ allIn = {} /\ acted = {}
    /\ ante = InitAnte /\ lastRaise = InitAnte /\ raises = 0
    /\ bbActed = FALSE /\ awaiting = FALSE /\ runItOut = FALSE
    /\ handCount = 0

\* advance_state and the run-it-out branch: what the server does unasked.
Advance == \/ InitializeGame \/ InitializeHand \/ InitializeBettingRound
           \/ RunBettingRound \/ RunItOut \/ DealCards \/ Showdown
           \/ EvaluateHand \/ HandOver

Next == PlayTurn \/ Advance \/ Stopped

Spec == Init /\ [][Next]_vars

\* One pass of progress_game's loop: the machine's own transitions, and the
\* AI's move when an AI is awaited.
ServerStep == Advance \/ (cur \notin Humans /\ PlayTurn)

\* The loop goes on until a human is to act, and an AI's decision falls back to
\* a default when its model does not answer.  Nothing makes a human act: there
\* is no turn clock.
FairSpec == Spec /\ WF_vars(ServerStep)

-----------------------------------------------------------------------------
(* Properties. *)

\* Chips are neither made nor lost over any number of hands: until the award the
\* pot is what the bets add up to and, with the stacks, what the game started
\* with; after it everything is in the stacks (place_bet, determine_winner,
\* award_pot_winnings, reset_game_state_for_new_hand).
ChipsConserved ==
    /\ pot = SumFunction(bet)
    /\ \E start \in InitStacks :
          SumFunction(start) = SumFunction(stack) + (IF phase = "HAND_OVER" THEN 0 ELSE pot)

\* Whoever is asked to act can act and still owes the table a decision, so the
\* game never waits for a player with nothing to do (run_betting_round,
\* advance_to_next_active_player).
TurnIsOwed ==
    awaiting /\ ~runItOut =>
        /\ cur \in CanAct /\ stack[cur] > 0
        /\ cur \notin acted \/ bet[cur] < HighestBet
        /\ Options # {}

\* The highest bet belongs to a player still in the hand, so the showdown always
\* has somebody to pay and no folded player put in more than can be matched.
HighestBetIsLive ==
    phase \notin {"INITIALIZING_GAME", "INITIALIZING_HAND"} =>
        \E p \in Live : bet[p] = HighestBet /\ bet[p] > 0

\* When a street closes every player who could still bet has matched the
\* highest bet.
BetsMatchedAtClose ==
    phase \in {"DEALING_CARDS", "SHOWDOWN", "EVALUATING_HAND"} /\ Cardinality(Live) > 1 =>
        \A p \in CanAct : bet[p] = HighestBet

\* The board is run out only when no decision is left: at most one player has
\* chips behind, and that player owes nothing.
RunOutOnlyWhenSettled ==
    runItOut => Cardinality(CanAct) <= 1 /\ ~\E p \in CanAct : bet[p] < HighestBet

\* A player is marked all-in exactly when the hand has taken their last chip.
AllInIsBroke ==
    phase \in BettingPhases \cup {"DEALING_CARDS", "INITIALIZING_BET_ROUND",
                                 "SHOWDOWN", "EVALUATING_HAND"} =>
        \A p \in seated : p \in allIn <=> stack[p] = 0

\* A street closes by betting only after everyone who can act has had a turn
\* since the last raise, the big blind's option before the flop included
\* (are_pot_contributions_valid: "the big blind should get a chance to check
\* or raise").
NobodySkipped ==
    [][(/\ phase \in BettingPhases /\ phase' \in {"DEALING_CARDS", "EVALUATING_HAND"}
        /\ ~runItOut)
          => CanAct \subseteq acted]_vars

\* A raise that is not an all-in is at least as large as the last full raise,
\* and never smaller than the big blind.
FullRaise ==
    [][(phase \in BettingPhases /\ HighestBet' > HighestBet /\ cur \notin allIn')
          => /\ HighestBet' - HighestBet >= lastRaise
             /\ HighestBet' - HighestBet >= ante]_vars

\* With three or more players able to bet, only an all-in raises beyond the cap.
CapHolds ==
    [][(/\ phase \in BettingPhases /\ HighestBet' > HighestBet
        /\ raises >= MaxRaises /\ Cardinality(Live \cap WithChips) > 2)
          => cur \in allIn']_vars

\* Once a hand is under way the server brings it to its end or to a human's
\* turn, whatever the players do: AI players never loop and no run-out stalls.
WaitingForHuman == awaiting /\ ~runItOut /\ cur \in Humans
HandCompletes == phase # "HAND_OVER" ~> (phase = "HAND_OVER" \/ WaitingForHuman)

\* What initialize_betting_round_transition says of all-in players ("we need to
\* deal remaining cards"): a contested showdown has a full board.
ContestedShowdownHasBoard ==
    phase = "EVALUATING_HAND" /\ Cardinality(Live) > 1 => board = 5
=============================================================================
