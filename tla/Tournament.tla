----------------------------- MODULE Tournament -----------------------------
(***************************************************************************)
(* A multi-table tournament: TournamentField (tournament/field.py), the    *)
(* rounds of TournamentSession (tournament/session.py) and rebalance       *)
(* (tournament/seating.py), one step per hand played and one per player    *)
(* moved.                                                                  *)
(*                                                                         *)
(* A round is one hand at the human's table and zero, one or two at every  *)
(* other table; then the busted are placed and removed, and tables are     *)
(* broken, balanced or gathered into the final table.  What a hand does to *)
(* the stacks of its table is any division of the same chips.              *)
(*                                                                         *)
(* OverdrawnResults, ShortStacked, PositionAfter, FarApart and Unequal are *)
(* faulty variants of the operator after them.                             *)
(***************************************************************************)
EXTENDS Seating

CONSTANTS
    Human,          \* session.human_id, or NoOne in a field of AI players
    Entry,          \* [Players -> 1..n]: the order of the entries
    StartingStack,  \* config.starting_stack
    MaxRounds       \* bound: no round is begun after this many

ASSUME HumanAssumption == Human \in Players \cup {NoOne}
ASSUME EntryAssumption ==
    /\ Entry \in [Players -> 1..Cardinality(Players)]
    /\ \A p, q \in Players : Entry[p] = Entry[q] => p = q
ASSUME StackAssumption == StartingStack \in Nat \ {0} /\ MaxRounds \in Nat

VARIABLES
    field,     \* the keys of field.stacks: who is still in
    stacks,    \* field.stacks; 0 for those who are out
    out,       \* field.eliminations
    tables,    \* seating.tables
    rounds,    \* session.rounds
    stage,     \* "between" rounds, "hands" being played, "rebalance"
    auto,      \* the round is AI-only (play_out, advance_round)
    pre,       \* _round's pre: the stacks when the round began
    played,    \* hands played at each table in this round
    closing    \* the table whose players are being reseated, 0 for none

vars == <<field, stacks, out, tables, rounds, stage, auto, pre, played, closing>>

TableIds == 1..TablesNeeded(Cardinality(Players))
Elimination == [player : Players, position : Nat, round : Nat]

TypeOK ==
    /\ field \in SUBSET Players /\ stacks \in [Players -> Nat]
    /\ out \in SUBSET Elimination
    /\ DOMAIN tables \in SUBSET TableIds
    /\ \A i \in DOMAIN tables : tables[i] \in Table
    /\ rounds \in Nat
    /\ stage \in {"between", "hands", "rebalance"} /\ auto \in BOOLEAN
    /\ pre \in [Players -> Nat]
    /\ DOMAIN played = TableIds /\ \A i \in TableIds : played[i] \in 0..2
    /\ closing \in TableIds \cup {0}

-----------------------------------------------------------------------------
\* The locals of _round when it is not playing hands.
NoStacks == [p \in Players |-> 0]
NoHands == [i \in TableIds |-> 0]

TotalChips == Cardinality(Players) * StartingStack

\* chip_sum
ChipSum(s) == SumFunction([p \in field |-> s[p]])

Complete == Cardinality(field) <= 1
HumanOut == Human \notin field

\* human_table is the table of this round that the human plays.
HumansTable(i) == ~auto /\ ~HumanOut /\ Human \in PlayersAt(tables[i])

OverdrawnResults(S) ==
    LET chips == SumFunction([p \in S |-> stacks[p]])
    IN  {r \in [S -> -1..chips] : SumFunction(r) = chips}

\* What a hand at a table may leave its players with.
HandResults(S) ==
    LET chips == SumFunction([p \in S |-> stacks[p]])
    IN  {r \in [S -> 0..chips] : SumFunction(r) = chips}

\* The stacks after a table's result: entries for players who are not in the
\* field are ignored.
Folded(result) ==
    [p \in Players |-> IF p \in DOMAIN result /\ p \in field THEN result[p] ELSE stacks[p]]

\* play_round for a human who is in, play_out and advance_round otherwise.
BeginRound ==
    /\ stage = "between" /\ ~Complete /\ rounds < MaxRounds
    /\ stage' = "hands"
    /\ auto' \in BOOLEAN
    /\ HumanOut => auto'
    /\ pre' = stacks
    /\ played' = NoHands
    /\ UNCHANGED <<field, stacks, out, tables, rounds, closing>>

\* One pass of _play_hands' loop.  It returns when fewer than two players sit at the
\* table or a hand has busted one of them.
CanPlay(i) ==
    /\ Size(tables[i]) >= 2
    /\ \A p \in PlayersAt(tables[i]) : stacks[p] > 0
    /\ played[i] < IF HumansTable(i) THEN 1 ELSE 2

\* The human's table plays its hand; the others may play none.
HasPlayed(i) == HumansTable(i) => played[i] = 1 \/ ~CanPlay(i)

\* The tables play one after the other.
PlayHand(i) ==
    /\ stage = "hands"
    /\ CanPlay(i)
    /\ \A j \in DOMAIN tables :
          (j < i => HasPlayed(j)) /\ (j > i => played[j] = 0)
    /\ \E result \in HandResults(PlayersAt(tables[i])) : stacks' = Folded(result)
    /\ tables' = [tables EXCEPT ![i] = ButtonAdvanced(@)]
    /\ played' = [played EXCEPT ![i] = @ + 1]
    /\ UNCHANGED <<field, out, rounds, stage, auto, pre, closing>>

ShortStacked == {p \in field : stacks[p] <= 1}
Busted == {p \in field : stacks[p] = 0}

\* Busted players in the order in which they take positions, worst first:
\* the smallest stack first, the earlier entry first among equals.
PlacedBefore(q, p) == pre[q] < pre[p] \/ (pre[q] = pre[p] /\ Entry[q] < Entry[p])

PositionAfter(p) ==
    Cardinality(field \ Busted) - Cardinality({q \in Busted : PlacedBefore(q, p)})

Position(p) == Cardinality(field) - Cardinality({q \in Busted : PlacedBefore(q, p)})

\* The tables without the busted, and without the tables nobody sits at.
Cleared ==
    LET left == [i \in DOMAIN tables |-> Without(tables[i], Busted)]
    IN  Restrict(left, {i \in DOMAIN tables : Occupied(left[i]) # {}})

\* The end of _round up to the call of rebalance.
Settle ==
    /\ stage = "hands"
    /\ \A i \in DOMAIN tables : HasPlayed(i)
    /\ ChipSum(stacks) = TotalChips   \* assert_conservation
    /\ out' = out \cup {[player |-> p, position |-> Position(p), round |-> rounds] :
                           p \in Busted}
    /\ field' = field \ Busted
    /\ tables' = Cleared
    /\ stage' = "rebalance"
    /\ auto' = FALSE /\ pre' = NoStacks /\ played' = NoHands
    /\ UNCHANGED <<stacks, rounds, closing>>

-----------------------------------------------------------------------------
(* rebalance *)

OneTable == Total(tables) <= TableSize

TooManyTables == ~OneTable /\ Cardinality(DOMAIN tables) > TablesNeeded(Total(tables))

\* _consolidate_final_table and _break_smallest, up to the choice of the table
\* whose players move.
CloseTable ==
    /\ stage = "rebalance" /\ closing = 0
    /\ \/ /\ OneTable /\ Cardinality(DOMAIN tables) > 1
          /\ closing' = Min(DOMAIN tables \ {FinalTable(tables)})
       \/ /\ TooManyTables
          /\ closing' = BreakTable(tables)
    /\ UNCHANGED <<field, stacks, out, tables, rounds, stage, auto, pre, played>>

\* One player of the table being closed moves: to the final table, or to the
\* table that is smallest by now.
Reseat ==
    LET from == tables[closing]
        rest == Restrict(tables, DOMAIN tables \ {closing})
        p    == from.seats[Min(Occupied(from))]
        dest == IF OneTable THEN FinalTable(rest) ELSE Smallest(rest)
        seated == [rest EXCEPT ![dest] = Add(@, p)]
    IN  /\ stage = "rebalance" /\ closing # 0
        /\ IF Size(from) = 1
           THEN tables' = seated /\ closing' = 0
           ELSE /\ tables' = [i \in DOMAIN tables |->
                                 IF i = closing THEN Without(from, {p}) ELSE seated[i]]
                /\ UNCHANGED closing
        /\ UNCHANGED <<field, stacks, out, rounds, stage, auto, pre, played>>

FarApart == Size(tables[Biggest(tables)]) - Size(tables[Smallest(tables)]) > 2
Unequal == Size(tables[Biggest(tables)]) - Size(tables[Smallest(tables)]) >= 1
Uneven == Size(tables[Biggest(tables)]) - Size(tables[Smallest(tables)]) > 1

\* One pass of _balance's loop: the player in the last seat of the biggest
\* table moves to the smallest.
Balance ==
    LET big   == Biggest(tables)
        small == Smallest(tables)
        p     == tables[big].seats[Max(Occupied(tables[big]))]
    IN  /\ stage = "rebalance" /\ closing = 0
        /\ ~OneTable /\ ~TooManyTables
        /\ Uneven
        /\ tables' = [tables EXCEPT ![big] = Without(@, {p}), ![small] = Add(@, p)]
        /\ UNCHANGED <<field, stacks, out, rounds, stage, auto, pre, played, closing>>

EndRound ==
    /\ stage = "rebalance" /\ closing = 0
    /\ IF OneTable THEN Cardinality(DOMAIN tables) <= 1 ELSE ~TooManyTables /\ ~Uneven
    /\ stage' = "between"
    /\ rounds' = rounds + 1
    /\ UNCHANGED <<field, stacks, out, tables, auto, pre, played, closing>>

Stopped ==
    /\ stage = "between" /\ (Complete \/ rounds = MaxRounds)
    /\ UNCHANGED vars

-----------------------------------------------------------------------------
Init ==
    /\ field = Players
    /\ stacks = [p \in Players |-> StartingStack]
    /\ out = {}
    /\ tables = InitialTables(Entry)
    /\ rounds = 0
    /\ stage = "between"
    /\ auto = FALSE /\ pre = NoStacks /\ played = NoHands
    /\ closing = 0

Rebalance == CloseTable \/ Reseat \/ Balance \/ EndRound

\* The body of _round.
RoundStep == \/ \E i \in DOMAIN tables : PlayHand(i)
             \/ Settle \/ Rebalance

Next == BeginRound \/ RoundStep \/ Stopped

Spec == Init /\ [][Next]_vars

\* A round is one call on one thread, and the hands in it are played by the
\* resolver: once begun it runs on.  Nothing makes anybody begin a round.
FairSpec == Spec /\ WF_vars(RoundStep)

-----------------------------------------------------------------------------
(* Properties. *)

\* The chips of the players still in are the chips the field started with,
\* whichever tables and players they have passed through (chip_sum: "the
\* conservation invariant"; a failed assertion would end the round half done).
ChipsConserved == ChipSum(stacks) = TotalChips

\* Whoever is in the field sits in exactly one seat, and nobody else sits
\* anywhere, in the middle of a table break too (SeatingManager against
\* TournamentField: the "ghost seat" and the player without a table).
EveryoneSeated ==
    /\ UNION {PlayersAt(tables[i]) : i \in DOMAIN tables} = field
    /\ Total(tables) = Cardinality(field)

\* Finishing positions are given from the bottom up, without a gap, each to one
\* player and to each player once (record_eliminations, over many rounds and
\* batches).
Placement ==
    /\ {e.player : e \in out} = Players \ field
    /\ {e.position : e \in out} = (Cardinality(field) + 1)..Cardinality(Players)
    /\ Cardinality(out) = Cardinality(Players) - Cardinality(field)

\* Whoever lasts a round longer finishes higher.
LaterIsHigher ==
    \A e, f \in out : e.round < f.round => f.position < e.position

\* Between rounds everybody still in has chips to play with.
NobodyBroke == stage = "between" => \A p \in field : stacks[p] > 0

\* After rebalance there are as few tables as hold the field, and no two differ
\* by more than one player (rebalance: "balance remaining tables to within one
\* player of each other").  With tables of three seats or more nobody sits alone.
TablesBalanced ==
    stage = "between" =>
        /\ Cardinality(DOMAIN tables) = TablesNeeded(Cardinality(field))
        /\ \A i, j \in DOMAIN tables : Size(tables[i]) - Size(tables[j]) <= 1

\* Every round comes to its end: breaking and balancing tables converge, so the
\* guards on those loops never cut them short (_balance: "loop always
\* converges").
RoundEnds == stage # "between" ~> stage = "between"

\* The place of a player, as Standings sees it.
PlaceOf(p) == IF p \in field THEN 0 ELSE (CHOOSE e \in out : e.player = p).position

Standing == INSTANCE Standings WITH
    remaining <- field, place <- [p \in Players |-> PlaceOf(p)]

\* The tournament keeps the promise of Standings: whatever is played, broken or
\* balanced, players drop out only at the end of a round's hands, into the lowest
\* places still open, and nobody's place is ever changed.
KeepsStandings == Standing!Spec
=============================================================================
