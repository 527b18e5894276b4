------------------------------ MODULE LiveTable ------------------------------
(***************************************************************************)
(* The human's table of a multi-table tournament, played as an ordinary    *)
(* game beside the tournament's session: the bridge between the two        *)
(* (tournament_handler.py and tournament_hand_boundary in                  *)
(* flask_app/handlers), the routes that seat the human and fast-forward    *)
(* the field (tournament_routes.py), the load of both from their rows      *)
(* (game_routes.py, tournament_registry.py), and a server that may stop    *)
(* anywhere.  The session itself, its rounds and its tables, are those of  *)
(* Tournament.                                                             *)
(*                                                                         *)
(* The session and the game are kept in two rows that are written one      *)
(* after the other.  A hand of the live game is any division of the chips  *)
(* it was dealt from.  The server runs one greenlet at a time and a round  *)
(* does no I/O, so nothing but a crash comes between the steps of one.     *)
(*                                                                         *)
(* OverdrawnDivisions, LossyReports, ConcludeUnreconciled and RestartAnew  *)
(* are faulty variants of the operator each stands before.                 *)
(***************************************************************************)
EXTENDS Tournament

CONSTANTS
    PersonaFields,   \* the kinds of field played: TRUE of personas, FALSE synthetic
    LiveAdvances,    \* /advance is also called when there is a live game
    TornHands        \* bound: hands of the live game played after a crash has torn the rows

ASSUME LiveAssumption == Human \in Players /\ PersonaFields \in SUBSET BOOLEAN
                         /\ LiveAdvances \in BOOLEAN
                         /\ TornHands \in Nat

VARIABLES
    persona,     \* tournament_is_persona_field
    at,          \* where the live game stands: see Places
    live,        \* its players and the chips each has
    finalized,   \* game_data['tournament_finalized']
    watching,    \* a route is advancing the field: "no", by a "round" or to its "end"
    row,         \* the session's row (tournaments)
    gameRow,     \* the game's row (games), NoGame before the human first sits
    counted,     \* times this tournament was added to the career statistics
    torn         \* 0 until a crash leaves the two rows of different hands,
                 \* then 1 more than the hands played since the first that did

game == <<at, live, finalized>>
rows == <<row, gameRow, counted>>
lvars == <<vars, persona, game, watching, rows, torn>>

\* "none" in memory; a "hand" being played, or "over" and not folded in yet; in
\* the boundary: "folding" (its round is running), then "continue" and "settled"
\* when there is a next hand, "terminal", "final" and "closed" when there is not;
\* and "stopped" after the last hand or an error.
Places == {"none", "hand", "over", "folding", "continue", "settled",
           "terminal", "final", "closed", "stopped"}

NoGame == [p \in {} |-> 0]
IsGame(g) == DOMAIN g \in SUBSET Players /\ g \in [DOMAIN g -> Nat]

-----------------------------------------------------------------------------
(* What the two know of each other. *)

\* to_dict, as far as it is restored by from_dict
Session == [field |-> field, stacks |-> stacks, out |-> out, tables |-> tables,
            rounds |-> rounds]

\* is_complete() or human_out
Ended == Complete \/ HumanOut

\* human_table
HumanTable == CHOOSE i \in DOMAIN tables : Human \in PlayersAt(tables[i])

\* human_table_seat_specs: the players and chips of a game at the human's table
SeatSpecs == [p \in PlayersAt(tables[HumanTable]) |-> stacks[p]]

Chips(g) == SumFunction(g)

\* No round is running: the only time at which anything else runs.
Idle == stage = "between" /\ watching = "no"

-----------------------------------------------------------------------------
(* The live game. *)

\* sit_tournament: a game that is not in memory is not looked for in its row but
\* built anew from the session, and the session's row then names the new game.
Sit ==
    /\ at = "none" /\ Idle /\ ~Ended
    /\ live' = SeatSpecs /\ at' = "hand" /\ finalized' = FALSE
    /\ gameRow' = live' /\ row' = Session
    /\ UNCHANGED <<vars, persona, watching, counted, torn>>

\* api_game_state of a game not in memory, and the progress_game that follows: the
\* hand goes on, or the next one is dealt.
ColdLoad ==
    /\ at = "none" /\ Idle /\ gameRow # NoGame
    /\ live' = gameRow /\ at' = "hand" /\ finalized' = FALSE
    /\ UNCHANGED <<vars, persona, watching, rows, torn>>

\* The cached game is advanced: a table that had stopped deals again.
Resume ==
    /\ at = "stopped" /\ Idle
    /\ at' = "hand"
    /\ UNCHANGED <<vars, persona, live, finalized, watching, rows, torn>>

\* The game's two hours without a request; no handler holds its lock.
Evict ==
    /\ at \in {"hand", "stopped"} /\ Idle
    /\ at' = "none" /\ live' = NoGame /\ finalized' = FALSE
    /\ UNCHANGED <<vars, persona, watching, rows, torn>>

OverdrawnDivisions ==
    {g \in [DOMAIN live -> -1..Chips(live)] : Chips(g) = Chips(live)}

\* What the hand may leave the players with.
Divisions ==
    {g \in [DOMAIN live -> 0..Chips(live)] :
        Chips(g) = Chips(live) /\ \A p \in DOMAIN live : live[p] = 0 => g[p] = 0}

\* The hand is played to its end, and the pots are awarded.  Nothing reads the
\* result of a hand that is played after the tournament has ended.
HandEnds ==
    /\ at = "hand" /\ Idle
    /\ at' = "over"
    /\ IF Ended THEN UNCHANGED live ELSE live' \in Divisions
    /\ torn <= TornHands
    /\ torn' = IF torn = 0 THEN 0 ELSE torn + 1
    /\ UNCHANGED <<vars, persona, finalized, watching, rows>>

-----------------------------------------------------------------------------
(* The hand boundary. *)

\* advance_tournament_after_hand on a session that has ended already.
FinishedAlready ==
    /\ at = "over" /\ Idle /\ Ended
    /\ at' = "terminal"
    /\ gameRow' = IF persona THEN live ELSE gameRow
    /\ UNCHANGED <<vars, persona, live, finalized, watching, row, counted, torn>>

\* apply_live_round
BeginLiveRound ==
    /\ at = "over" /\ Idle /\ ~Ended /\ rounds < MaxRounds
    /\ at' = "folding" /\ stage' = "hands"
    /\ auto' = FALSE /\ pre' = stacks /\ played' = NoHands
    /\ UNCHANGED <<field, stacks, out, tables, rounds, closing>>
    /\ UNCHANGED <<persona, live, finalized, watching, rows, torn>>

LossyReports(i) == {Restrict(live, K) : K \in SUBSET DOMAIN live}

\* The result as the session is given it.  A player is known by the id of the
\* seat or, when the deal or a load has lost that, by a display name, which only
\* the players at the human's table of the session can be found by.
Reported(i) ==
    {Restrict(live, K) : K \in {K \in SUBSET DOMAIN live :
                                   PlayersAt(tables[i]) \cap DOMAIN live \subseteq K}}

\* _apply_result: the human's table takes over the result of the live hand,
\* whether or not it divides the chips that the session had there.
LiveHand(i) ==
    /\ at = "folding" /\ stage = "hands"
    /\ HumansTable(i) /\ played[i] = 0
    /\ \A j \in DOMAIN tables : j > i => played[j] = 0
    /\ \E result \in Reported(i) : stacks' = Folded(result)
    /\ tables' = [tables EXCEPT ![i] = ButtonAdvanced(@)]
    /\ played' = [played EXCEPT ![i] = 1]
    /\ UNCHANGED <<field, out, rounds, stage, auto, pre, closing>>

LivePlayed == \A i \in DOMAIN tables : HumansTable(i) => played[i] = 1

\* The other tables' hands; every table's in a round that a route runs.
FieldHand(i) ==
    /\ HumansTable(i) => watching = "round"
    /\ \A j \in DOMAIN tables : j < i /\ HumansTable(j) => played[j] = 1
    /\ PlayHand(i)

\* One step of _round, on behalf of the boundary or of a route.
LiveRoundStep ==
    /\ \/ \E i \in DOMAIN tables : LiveHand(i)
       \/ \E i \in DOMAIN tables : FieldHand(i)
       \/ LivePlayed /\ Settle
       \/ Rebalance
    /\ UNCHANGED <<persona, game, watching, rows, torn>>

\* assert_conservation fails: the stacks stay as the hands have left them, the
\* boundary's caller stops the table and saves it, a route answers 500.
RoundRaises ==
    /\ stage = "hands" /\ LivePlayed
    /\ \A i \in DOMAIN tables : HasPlayed(i)
    /\ ChipSum(stacks) # TotalChips
    /\ stage' = "between" /\ auto' = FALSE /\ pre' = NoStacks /\ played' = NoHands
    /\ IF at = "folding"
       THEN at' = "stopped" /\ gameRow' = live /\ UNCHANGED watching
       ELSE watching' = "no" /\ UNCHANGED <<at, gameRow>>
    /\ UNCHANGED <<field, stacks, out, tables, rounds, closing>>
    /\ UNCHANGED <<persona, live, finalized, row, counted, torn>>

ConcludeUnreconciled ==
    /\ at = "folding" /\ stage = "between"
    /\ at' = IF Ended THEN "terminal" ELSE "continue"
    /\ gameRow' = IF persona THEN live ELSE gameRow
    /\ UNCHANGED <<vars, persona, live, finalized, watching, row, counted, torn>>

\* The rest of advance_tournament_after_hand: reconcile_live_table when there is a
\* next hand; and the save of the seats of a persona field, which saves the game.
Conclude ==
    /\ at = "folding" /\ stage = "between"
    /\ IF Ended
       THEN at' = "terminal" /\ UNCHANGED live
       ELSE at' = "continue" /\ live' = SeatSpecs
    /\ gameRow' = IF persona THEN live' ELSE gameRow
    /\ UNCHANGED <<vars, persona, finalized, watching, row, counted, torn>>

\* finalize_tournament
Finalize ==
    /\ at = "terminal" /\ Idle
    /\ at' = "final" /\ finalized' = TRUE
    /\ counted' = IF finalized \/ counted = 2 THEN counted ELSE counted + 1
    /\ UNCHANGED <<vars, persona, live, watching, row, gameRow, torn>>

\* _persist_boundary
SaveSession ==
    /\ at \in {"continue", "final"} /\ Idle
    /\ at' = IF at = "continue" THEN "settled" ELSE "closed"
    /\ row' = Session
    /\ UNCHANGED <<vars, persona, live, finalized, watching, gameRow, counted, torn>>

\* The end of handle_evaluating_hand_phase: the next hand is dealt, or the table
\* stops, and the game is saved.
SaveGame ==
    /\ at \in {"settled", "closed"} /\ Idle
    /\ at' = IF at = "settled" THEN "hand" ELSE "stopped"
    /\ gameRow' = live
    /\ UNCHANGED <<vars, persona, live, finalized, watching, row, counted, torn>>

-----------------------------------------------------------------------------
(* The routes that advance the field, and the server that stops. *)

\* play_out, whatever the live game is doing.  Bound: when TornHands have been
\* played, only while the live table has stopped.
BeginWatch ==
    /\ Idle /\ ~Complete
    /\ torn > TornHands => at = "stopped"
    /\ watching' = "end"
    /\ UNCHANGED <<vars, persona, game, rows, torn>>

WatchRound ==
    /\ watching = "end" /\ BeginRound /\ auto'
    /\ UNCHANGED <<persona, game, watching, rows, torn>>

\* advance: one round in which the resolver plays the human's hand as well.  No
\* client calls it, and the tests do before the human sits.
Advance ==
    /\ Idle /\ ~Ended
    /\ LiveAdvances \/ gameRow = NoGame
    /\ BeginRound /\ ~auto'
    /\ watching' = "round"
    /\ UNCHANGED <<persona, game, rows, torn>>

\* registry.persist at the end of both.  Bound: a field that is not played out in
\* MaxRounds is left there (the code's limit is 100,000 rounds).
EndWatch ==
    /\ stage = "between"
    /\ watching = "round" \/ (watching = "end" /\ Complete)
    /\ watching' = "no"
    /\ row' = Session
    /\ UNCHANGED <<vars, persona, game, gameRow, counted, torn>>

\* One of the two rows is of this hand and the other of the hand before.
Tearing == at = "settled" \/ (persona /\ at \in {"continue", "terminal", "final"})

\* chip_sum of the saved session
RowChips == SumFunction([p \in row.field |-> row.stacks[p]])

RestartAnew ==
    /\ field' = Players /\ stacks' = [p \in Players |-> StartingStack] /\ out' = {}
    /\ tables' = InitialTables(Entry) /\ rounds' = 0
    /\ stage' = "between" /\ auto' = FALSE /\ pre' = NoStacks
    /\ played' = NoHands /\ closing' = 0
    /\ at' = "none" /\ live' = NoGame /\ finalized' = FALSE /\ watching' = "no"
    /\ torn' = IF torn = 0 /\ Tearing THEN 1 ELSE torn
    /\ UNCHANGED <<persona, rows>>

\* The process ends, at any point, and starts again: the session is what from_dict
\* makes of its row (which it refuses when the chips do not add up).
Restart ==
    /\ RowChips = TotalChips
    /\ field' = row.field /\ stacks' = row.stacks /\ out' = row.out
    /\ tables' = row.tables /\ rounds' = row.rounds
    /\ stage' = "between" /\ auto' = FALSE /\ pre' = NoStacks
    /\ played' = NoHands /\ closing' = 0
    /\ at' = "none" /\ live' = NoGame /\ finalized' = FALSE /\ watching' = "no"
    /\ torn' = IF torn = 0 /\ Tearing THEN 1 ELSE torn
    /\ UNCHANGED <<persona, rows>>

\* Nothing more happens in a run that has met the bound.
AtBound ==
    /\ stage = "between" /\ rounds = MaxRounds
    /\ UNCHANGED lvars

-----------------------------------------------------------------------------
\* create_human_tournament: the session is saved as it is made.
LiveInit ==
    /\ Init
    /\ persona \in PersonaFields
    /\ at = "none" /\ live = NoGame /\ finalized = FALSE /\ watching = "no"
    /\ row = Session /\ gameRow = NoGame
    /\ counted = 0 /\ torn = 0

Boundary == \/ FinishedAlready \/ BeginLiveRound \/ Conclude \/ Finalize
            \/ SaveSession \/ SaveGame

LiveNext ==
    \/ Sit \/ ColdLoad \/ Resume \/ Evict \/ HandEnds
    \/ LiveRoundStep \/ RoundRaises \/ Boundary
    \/ BeginWatch \/ WatchRound \/ Advance \/ EndWatch
    \/ Restart \/ AtBound

LiveSpec == LiveInit /\ [][LiveNext]_lvars

-----------------------------------------------------------------------------
(* Properties. *)

LiveTypeOK ==
    /\ TypeOK
    /\ persona \in BOOLEAN /\ at \in Places /\ IsGame(live)
    /\ finalized \in BOOLEAN /\ watching \in {"no", "round", "end"} /\ torn \in 0..TornHands + 1
    /\ DOMAIN row = {"field", "stacks", "out", "tables", "rounds"}
    /\ row.field \in SUBSET Players /\ row.stacks \in [Players -> Nat]
    /\ row.out \in SUBSET Elimination /\ row.rounds \in Nat
    /\ DOMAIN row.tables \in SUBSET TableIds
    /\ \A i \in DOMAIN row.tables : row.tables[i] \in Table
    /\ IsGame(gameRow) /\ counted \in 0..2

\* The hand that is dealt at the human's table is dealt to the players whom the
\* tournament has there, with the chips it has them down for, and brings back the
\* same players and as many chips: through moves, busts, a fast-forward under the
\* hand, evictions, reloads, a new seat, and a restart at any moment that leaves
\* the two rows of one hand (tournament_handler.py: "the session is the source of
\* truth").
LiveAgrees ==
    torn = 0 /\ Idle /\ ~Ended =>
        /\ at = "hand" => live = SeatSpecs
        /\ at = "over" => /\ DOMAIN live = DOMAIN SeatSpecs
                          /\ Chips(live) = Chips(SeatSpecs)

\* Whatever is on disk can be restored: the saved session's chips add up to what
\* the field brought (from_dict: a corrupt or partial restore "fails loudly", and
\* the tournament is then not found again).
RowRestores == torn = 0 => RowChips = TotalChips

\* The place of a player in the saved session.
SavedPlace(p) ==
    IF p \in row.field THEN 0 ELSE (CHOOSE e \in row.out : e.player = p).position

Saved == INSTANCE Standings WITH
    remaining <- row.field, place <- [p \in Players |-> SavedPlace(p)]

\* Once saved a place stands, whatever is replayed after a crash, torn or not: the
\* saved field only shrinks and each player who is out has one place for good
\* (_apply_result: "a SECOND time, producing a duplicate standings row").
SavedPlacesStand == Saved!Spec

\* What finalize_tournament says of itself ("Idempotent: a one-shot
\* `tournament_finalized` flag on game_data guards against a second call"): one
\* tournament counts once in the career statistics.
CountedOnce == counted <= 1
=============================================================================
