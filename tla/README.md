# Verification of My Poker Face

My Poker Face (`src/`) is a Flask poker server: a human plays Texas hold'em
against AI personalities, at single tables, in multi-table tournaments and at
cash tables with a persistent economy. This directory holds TLA+ models of the
code that decides what happens to players and chips, the TLC runs that check
them on small instances, and proofs, checked by TLAPS, that hold for every
number of players and every stack.

    tlc -workers 2 -config HandEngine.cfg MCHands.tla         # a run
    tlapm HandEngineProofs.tla                                # the proofs

`PROJECT.json` lists the runs, the definition-by-definition map to the source,
the faulty variants that show each property can fail, the hazards and the
theorems.

## The system

| part | code | state | operations | what makes it correct |
|---|---|---|---|---|
| hand engine | `poker/poker_game.py`, `poker/poker_state_machine.py`, `poker/betting_context.py` | immutable `PokerGameState` (players, bets, pot, board, flags) and the phase of the state machine | `play_turn` and one transition per phase; `run_until_player_action` | chips conserved, turns in order, streets close when they should, raises legal, the hand ends |
| pot division | `determine_winner`, `award_pot_winnings` | the loop's locals | one pass per tier, the final sweep | everybody is paid what layers of the pot say, no chip stranded |
| hand evaluator | `poker/hand_evaluator.py` | none | ranks seven cards | a total preorder agreeing with the rules |
| game loop | `flask_app/handlers/game_handler.py` | the in-memory game dict, `run_it_out`, the lock of each game | `progress_game`, AI turn, evaluation and boundary handling, cold-load recovery | every hand reaches a human's turn or its end; nothing is lost between game row and session row |
| routes | `flask_app/routes/game_routes.py`, `flask_app/validation.py` | none of their own | action submit (HTTP and socket), cold load, new game | a move is taken once, by the player whose turn it is |
| session state | `flask_app/services/game_state_service.py` | `games`, `game_locks`, LRU order | get, set, delete, eviction | one lock per game at a time, no eviction under a running handler |
| tournament | `tournament/` (field, seating, blinds, session, director) | stacks, tables, buttons, eliminations, hand and round counters | play a round, place the busted, rebalance, play out | chips of the field conserved, tables balanced, each player placed once |
| live table of a tournament | `tournament_handler.py`, `tournament_game_builder.py`, `tournament_completion.py`, `tournament_registry.py`, `tournament_routes.py` | the human's game beside the session, a row for each, flags in memory | sit, hand boundary, play out, cold load, finalize | the hand is dealt to the players and chips the session has there; what is saved can be restored; a place once saved stands |
| presence | `cash_mode/presence.py`, `presence_transitions.py`, `presence_sweep.py` | location of each personality | legal transitions, diff of a table save, sweep of the stranded | nobody at two tables, nobody lost |
| cash session of the human | `flask_app/routes/cash_routes.py`, `cash_mode/cash_session_persistence.py` | bankroll, `cash_sessions` row, the game, a staged top-up, the chips on the table's row and on the ledger's seat accounts | sit, sponsor and sit, rebuy, top up, leave | chips and books agree; a session is paid out once |
| stakes | `cash_mode/stake_*.py`, `poker/repositories/stake_repository.py` | loans between players, carried debt, the obligation account | fund, settle, carry, pay off, default, forgive | a staker gets what the terms say, once; the account is what is still owed |
| prizes | `tournament/economy.py`, `tournament_economy_service.py`, `tournament_ticker.py` | escrow, the payout's status, ledger rows and bankrolls | draw up the schedule, claim, pay place by place, rake, sweep, stamp, resume | the pool goes out to the chip, nobody is paid twice, a payout cut short is finished |
| ledger and bankrolls | `core/economy/ledger.py`, `cash_mode/bankroll.py` | a row per transfer, cached balances | record, transfer | a transfer and its balances are one transaction |
| world ticker | `flask_app/services/ticker_service.py`, `cash_mode/lobby.py`, `movement.py` | AI tables of a sandbox | periodic tick: move, seat, play | no tick races the human's own table |
| decisions of the AI players, coach, memory, prompts, images, admin, React client, experiments | `poker/strategy`, `core/llm`, `flask_app/services/...`, `react/` | - | - | text and statistics: no state the game depends on |

How they interact. A human's action arrives by HTTP or socket, is validated
against the options of the current player, and applied by `play_turn` to the
in-memory state machine. `progress_game` then takes a non-blocking lock on the
game and drives the machine: AI turns, run-outs, the evaluation of the hand, and
between hands the boundary of whatever the game belongs to (tournament or cash
table). The state is saved to SQLite outside of `EVALUATING_HAND`; after a
restart a cold load rebuilds the machine from the row. A tournament's live
table is the same engine; after each of its hands the other tables are played
forward and the field is rebalanced.

What is hard here: order of turns with all-ins (who still owes a decision),
blinds that are themselves all-in, side pots with folded money and ties,
players leaving between hands while the button moves, a lock whose holder makes
others drop their trigger, a crash between two rows that belong together, and
results of a table that contradict the field's books, money that moves in several writes with
a crash or another request between any two of them, and locks that are dropped while somebody holds them. `PROJECT.json` lists them
as hazards, each at its line.

## Modules

| module | models | extends |
|---|---|---|
| `SidePots` | `determine_winner` and `award_pot_winnings` as operators: one tier, the sweep, the whole `Payout` | - |
| `PotDistribution` | the loop of `determine_winner` as a state machine, and the layer-by-layer division it must equal | `SidePots` |
| `HandEngine` | the hand: player actions, phase machine, raise sanitiser, run-out, next hand | `SidePots` |
| `HandHistory` | `HandEngine` with a history variable for short all-ins | `HandEngine` |
| `Seating` | `tournament/seating.py` as operators: seats, the button, which table is broken or filled | - |
| `Tournament` | the rounds of `TournamentSession`: hands at every table, placing of the busted, rebalancing move by move | `Seating` |
| `Standings` | the abstract tournament: who is still in, and the place of everybody who is not | - |
| `LiveTable` | the human's game of a tournament beside its session: sit, hand boundary, both rows, play-out, cold load, restart | `Tournament` |
| `PrizeSchedule` | `tournament/economy.py` as operators: how many places are paid, and the amounts | - |
| `Payout` | the payout of a tournament: its rows one by one, the watchdog that resumes it, and the four kinds of callers | `PrizeSchedule` |
| `Prizes` | the abstract payout: each finisher is paid once, in one step, then the books are closed | - |
| `GameSession` | one game as the request threads share it: `progress_game`, submit, triggers, cold load, retry, delete, leave with its two commits, cleanup, crash | - |
| `CashSession` | the money of the human's cash sessions, of the other seats at the table, and of the stakes that fund a session | - |
| `CashBooks` | `CashSession` with the history its books are judged by, where requests keep apart: chips, profits, debts, dues | `CashSession` |
| `SumTheorems`, `SidePotTheorems` | lemmas on sums of functions; lemmas on the operators of `SidePots` | - |
| `PotDistributionProofs` | proofs about `PotDistribution` | |
| `HandEngineProofs` | proofs about `HandEngine` | |
| `TournamentProofs` | proofs about `Tournament` and `LiveTable`, and that both implement `Standings` | |
| `PayoutProofs` | proofs about `Payout`, and that it implements `Prizes` | |
| `GameSessionProofs` | proofs about `GameSession` | |
| `CashSessionProofs` | proofs about `CashSession` and `CashBooks` | |
| `MCPotDistribution`, `MCHandEngine`, `MCHands`, `MCHandHistory`, `MCTournament`, `MCLiveTable`, `MCPayout`, `MCGameSession`, `MCCashSession` | the constants of the runs, and what restricts them | |

### SidePots and PotDistribution

One pass of the `while` of `determine_winner` is one step. `t.rem` is the
working copy of the contributions, `t.won` what the pots made so far paid,
`t.returned` what went back uncalled. A hand's cards reach this code only through
the order of the hands, so `rank` is any order, with ties. Leaving out the names
and descriptions of the winning hands is the only other abstraction.

The run takes *every* input of three players with up to four chips in the pot
each: 3 players are the least for a side pot inside a side pot, and 4 chips the
least with an odd chip over after two tiers of different heights.
`MatchesLayers` is the independent definition: the k-th chip of everyone's
contribution is a layer; it belongs to the best live hands that reach it, or
goes back when none does. The code's tiers must give the same result to the
chip where nothing ties, and within an odd chip per tier where something does; and
to `Payout`, the operator with which `HandEngine` awards a hand.

### HandEngine

Every field of `PokerGameState` the control depends on is a variable. The
`players` tuple is rotated and pruned between hands and its indices shift; the
model keeps one ring of seats and names players, because rotating and pruning
keep the cyclic order. `InitializeHand` is `setup_hand` with both calls of
`place_bet`, and the branch to `SHOWDOWN` when nobody can act. Each action of a player is
the whole of `play_turn`: the action, the flags, the option of the
big blind, and the move to the next active player. `RunBettingRound` may run
while a player is awaited because `progress_game` calls it there.

A raise may ask for any amount from 0 to one above the maximum, so that both
corrections of `validate_and_sanitize` happen. At the evaluation the hands
still in may rank in any way.

Bounds: `MaxHands` stops dealing after so many hands. With it at 2, three hands
are played: one with three players, the eliminations after it, and heads-up
play with the button moved. Blinds double each hand, so blinds that are
all-in occur. Stacks are 1 to 7 big-blind halves: short, middling and deep together.
`MaxRaises` is 1 (20 in the code): the cap must be reachable with these stacks.

Assumptions on constants: at least two players, positive starting stacks
(`StartStack >= 1` in the callers), blinds that never shrink (`GrowthNum >= GrowthDen`).
The last is what every preset has; the `blind_growth` a client may send with a
new game (`flask_app/routes/game_routes.py:1771`) is not checked against it.

`MCHands` asks two questions in one run: three hands in a row (`lane = "many"`), and of one hand under
fairness whether it ends (`lane = "one"`).

Fairness. `OneHandCompletes` assumes weak fairness of `ServerStep`: the loop of
`progress_game` runs on until a human is to act, and an AI player's decision
falls back to a default action when its model fails, so an awaited AI always
moves. Nothing is assumed of a human: the code has no turn clock.

### Seating and Tournament

A round is one call of `_round`. `BeginRound` stands for the three ways into it:
with the human's hand (`play_round`, `apply_live_round`) or AI-only
(`play_out`, `advance_round`), the second also while the human is still in.
`PlayHand(i)` is one hand at table `i`; the tables take their hands in the order
of the list, the human's one each round and the others none, one or two, which the
code draws from a seeded generator and the model leaves open. A
hand's result is any division of the same chips (`_guard_table_result` raises on
any other). `Settle` is the rest of `_round` up to `rebalance`: the conservation assertion
is its guard, so a state that fails it would be a deadlock. `CloseTable`, `Reseat` and
`Balance` are the loops of `SeatingManager`, one player at a time, so that the
invariants on seats are checked in the middle of a table break too. The code
raises when a player is added to a full table; in the model that player
gets no seat, which `EveryoneSeated` would show.

Not in the model: the blind clock (it scales the hands, not the field), who is
credited with an elimination, the guards on the loops (`RoundEnds` shows they never
cut in), and `fold_live_hand`, the single-table game's entry.

Bounds: seven players at tables of three start as 3-2-2, so that breaking a table,
balancing (3-1) and the final table all occur in two rounds (`MaxRounds`). With one
chip each at the start the stacks are equal before the first round, which makes ties of
the first busts certain, and unequal before the second. `Human` takes part, busts, or is
passed over by AI-only rounds.
With tables of *two*, which `tournament/config.py` allows, somebody may sit alone: three
players make a table of two and a table of one, whose player, perhaps the human, waits. `TablesBalanced` rules that
out for larger tables.

`Standings` is what all of this promises of the places: players drop out in batches,
never the last of them, each batch takes the lowest places still open, and a place once
given is not changed. `KeepsStandings` maps its `remaining` to the field and its `place`
to the position of the elimination that names the player.

Fairness: `RoundStep` is weakly fair because a round runs to its end in one call;
nothing makes anybody begin one.

### LiveTable

The human's table is an ordinary game, kept in step with the session at each hand boundary. `live` is what
that game holds: its players and chips (a hand is *any* division of the chips it was dealt from, so the hand engine is not
composed in). `row` is what `to_dict` saves and `from_dict` restores, `gameRow` the game's row. `at` follows
`tournament_hand_boundary` step by step: the round is folded in (`LiveHand` and the hands of the other tables, each a step
of `Tournament`), the live table is reconciled or found terminal and, for a persona field, the game is saved (`Conclude`),
the completion is recorded (`Finalize`), the session is saved, then the game. A `Restart` may come between any two of these
steps, during a round as well; so may, where nothing else runs, the eviction of the game, a new seat, a fast-forward
(`BeginWatch`, which `/play-out` allows whatever the live game does) and a cold load. `Reported` is the result under
the ids the boundary recovers: a seat whose id the deal has lost is found by display name only among the players whom the session has at
the table.

`torn` marks the one gap the code leaves: a crash between the save of one row and of the other (`Tearing`). Before it,
`LiveAgrees` and `RowRestores` hold whatever happens. After it, rows of different hands meet, the boundary may raise
(`RoundRaises`), and only `SavedPlacesStand` is left: the guard of `_apply_result` keeps a player who is out from being placed
again. The latter is a refinement: the saved row implements `Standings`, across crashes and replays.

Production runs one gevent worker, and a round does no I/O: nothing but a crash comes between its steps. The development
server has threads; there a play-out and a boundary could interleave, since they take different locks
(`tournament_routes.py:649`, the game's lock), which is not modelled. `/advance` plays the human's hand with the resolver;
no client calls it, and `LiveAdvances` FALSE confines it to the time before the human sits, as the tests use it (TRUE breaks
`LiveAgrees`: see *Disagreements*).

Bounds: four entrants at two tables of three seats, so that a bust brings the tables together and moves the human (who sits at the
table that is broken), two rounds, one chip each. `TornHands`: after a crash that tears the rows one hand more is dealt, and the field
is then fast-forwarded only while the live table has stopped; one hand is enough for a boundary that raises and for its
stacks to be saved. A play-out that does not finish within `MaxRounds` stays there. Deadlock is checked.

### PrizeSchedule, Payout and Prizes

`PrizeSchedule` gives every list of amounts `compute_payout_schedule` may come to. The code
divides in floating point and truncates: a quotient that is a whole number may come out a hair
below it, so any set of such places may lose a chip, and the winner gets the residual.
That is exact while a pool is far below 2^53. The run asks `ScheduleIsFair` of the default curve for
fields of up to 24 and pools of up to 60: the winner alone, fewer places than fractions, and a tail all
occur. Being about constants, it is asked until the last hand or a crash only.

In `Payout` every caller of `apply_payout_on_complete` and `reconcile_stuck_payout` is a thread:
the routes `/advance` and `/play-out` save the session and then pay; the boundary of the live table
pays and then saves; the world tick of a tournament nobody plays in pays, settles the row, then saves;
the watchdog resumes payouts left `in_progress`. Each place paid is a step: the ledger row and the
bankroll are one transaction (`record_transfer` with its balance update), but a row the database
refuses is logged and swallowed while the bankroll is still written (`MaxDrops`). Between any two
steps there may be an exception (`Raise`, the status stays `in_progress`) or a crash, which loses the
session in memory and the sandbox lock. What the session owes is a function of the final order;
`fate` is how the seeded rounds come out, the same when they are played again.

`MCPayout` runs the callers that can meet on one tournament as crews: two requests and the watchdog
with two crashes; the live table, a request and the watchdog; the world tick and the watchdog. In the
live crew the last hand's outcome is drawn beforehand unless a crash has it dealt again, and no
crash replays it: see *Disagreements* for what happens then.

`Prizes` is the promise: each finisher's balance goes from nothing to what is owed in one step, and
the books are closed when everybody has been paid. `ImplementsPrizes` maps `balance` to the bankrolls' credits
and `closed` to the stamp.

Fairness: weak for the steps of a caller that has started (`Continues`), and for the watchdog (`Resume`), whose sweep comes
back in the ticker's loop whether or not anybody is online (`ticker_service.py:263`) and waits for nothing but the lock of a caller that ends. None is assumed of the world tick, which goes only to
the sandboxes whose owner was active in the last minute (`presence.active_sessions`), nor of routes and boundary.
`ClaimedIsPaid` is what this carries: a payout that was *claimed*, of a session whose row is over, is paid and stamped, whatever
raised or crashed in the middle. It holds because the watchdog lists such payouts. One that fails before its claim stays `pending`, and of it
nothing of the kind holds: the run has that behaviour, in the autonomous crew too, and *Disagreements* (4) says what follows.

### GameSession

The hand engine is reduced to the *line of play*, the sequence of the decisions taken so far;
`Turn[k]` says whose the k-th is, a human's, an AI's, or nobody's (a deal, which `run_until` passes). A cold
load makes a new object, so an evicted game lives on in the threads that fetched it, with a line of its
own: `line` is indexed by object, `games` is the object the service knows, `row` what the database has.
The steps of `progress_game` are cut where the code reads shared state again: the lock, the head of an
iteration, the run of the machine with its `set_game`, the save, the fetch in `handle_ai_action`, the
decision, the two writes after it. `CleanupChecks` and `CleanupPops` are apart because `get_game` and
`set_game` do not take the lock the cleanup holds; every crew that has a cleanup has requests between the two, and `raced` remembers that
one came. `LeavePays` and `LeaveStamps` are apart because the credit to the bankroll and `ended_at` are two commits; `cut` counts the
crashes between them.

What the properties leave out, because the code does not keep it: `ToldStands` says nothing once a cleanup has dropped a game that was
asked for after its check (a submit in that window is confirmed and lost); `SettledOnce` allows one more payment for each crash counted by `cut`
and no other; `LeaveStopsTheLoop` is about a leave that found the game in memory and flagged it. A leave that finds none flags
nothing (`cash_routes.py:4633`): the game that is loaded behind it plays its AI turns until it comes to the player or the leave
gets the lock, and only `LeaveEnds` speaks of that leave.

The run takes, as crews: a player with a submit, two triggers and two polls; a leave with a poll or with
a trigger; two leaves with a poll; two leaves against two triggers; a leave with a delete and with
fast-forward or retry. The first three come with an eviction or a crash between any two steps. The line has four decisions, a deal, the player's, two AI
turns: the least where a loop goes round twice, and where an AI's answer may come after the next AI's turn; two leaves with a poll start at the last of them.
`Identities` is two more than the threads of the largest crew need.

Left out: the retry of a model call, chat, the analysis of the coach, and the writes of other fields of the game
dict. Two submits at once are left out of the run: see *Disagreements*.

Fairness: weak for every thread that has begun (the operating system runs it, and a model call
ends or fails), and for the cleanup once it has begun. Requests come as they like. `LeaveEnds` assumes besides that
the requests that compete for the lock stop coming: a Python lock is not fair, and the code does not bound how often a
leave is overtaken.

### CashSession

Every write to a row is a step of its own: of a sit the game's row, the debit, the session's row; of a
sponsored sit the stake, the session's row, the loan; of a leave the stake, the staker's credit, the owner's, the stamp
on the session's row, the removal of the game. The bankroll is written back as read plus or minus (`saw`), as the
code does. The owner's client sends one table request at a time; requests about a carry (`Payoffs`, `Resolvers`) are threads of
their own without a lock. `Crash` loses the game in memory and every request; `LeaveRaises` is an exception
in the teardown, `BuyRaises` one between the stack and the bankroll, `NextHandUnflushed` one in the flush.

The hand is a pot into which each side puts chips and which one side gets; the other seats' chips are one sum, so what moves
between them and to the bank (refills, rake) is left out. What they have is kept three times, as in the code: `game.rest` in memory,
`seats.row` on the table's row, `seats.custody` on the ledger. A sit is dealt from the row and debits nobody (`cash_routes.py:709`). A hand
(`Recounts`) writes the row, and moves on the ledger what the losers lost since `hand_start_stacks` was noted: any part of it, since the
blinds are in by then (`game_handler.py:4294`) and a load forgets it. A leave (`LeaveRemoves`) credits the bankrolls with no more than
the ledger says the seats hold (`CashedOut`, the bound of `credit_ai_cash_out` with chip custody on) *and* writes the same chips back
to the row. `int(net * cut)` is a float's: the staker's share is the quotient or one less where it is whole.
A sit while the game of a broken session is still in memory is left out. Bankrolls are cached balances here; with
`CHIP_CUSTODY_DERIVE_READS` the reads come from the ledger's rows instead (`bankroll_repository.py:664`), which are not modelled but for
the seats'.

`CashBooks` asks that requests keep apart where the code loses updates (see *Disagreements*): while a carry is
being resolved no step of the table moves the owner's bankroll, no sit or leave is about to write it back, and the
requests about carries are about one stake (`Apart`). Hands, staged top-ups and the rest of a sponsored sit go on
meanwhile; the payoff itself may be overtaken by a second payoff, a default or a plea at any of its writes. `marred` and
`forfeited` are history: whether there was a fault or two resolutions at once, and the pots walked out of. The four properties of its run are
about a session at rest (`AtRest`), with no request under way, since between two writes chips are rightly on their way.
`ChipsConserved` is about the owner, the lender, the house and the table, until a hand is walked out of: its pot
is then gone (*Disagreements* 13). What a leave credits the other seats' bankrolls is not in the sum: their chips stay on the row, so each
such credit is on top of it (25). What that comes to is the question of a run of its own, `cash_seats`.

`MCCashSession` bounds the run: at most one fault (crash or exception), no new bet after it, one
bet per hand. Two sessions are the least where a carry from the first is resolved
while the second is open; buy-ins of 2 and 3 with a purse and a loan of 3 reach every branch: own and borrowed
money, winning, losing everything, a partial loss, a top-up paid, staged and cut short. Nothing but `seats.custody` depends on what a
hand moves on the ledger, so this run moves nothing there; `SeatsSpec` moves all the losers put in, without a fault.

## Runs

| run | question | result |
|---|---|---|
| `pot_distribution` | is every pot of three players divided as its layers say | holds |
| `hand_engine` | chips, turns, closing of streets, all-ins, run-outs, raises, cap, over three hands; does a hand always reach its end or a human's turn | holds |
| `hand_board` | does a contested showdown have a full board | violated: blinds that put both heads-up players all-in go to the showdown with no card dealt (`poker_state_machine.py:306`) |
| `hand_reopen` | does a short all-in leave the betting closed, as the comment in `player_all_in` says | violated: `has_acted` is cleared for everybody, and a player who acted may raise again |
| `tournament` | do chips, seats, positions and table sizes stay right through busts, table breaks, balancing and the final table, does every round end, and does the whole implement `Standings` | holds |
| `live_table` | do the live game and the session agree through moves, busts, play-outs, evictions and crashes; can the saved session be restored; do saved places stand | holds |
| `live_career` | is a tournament counted once in the career statistics, as `finalize_tournament` says | violated: the flag is in memory only; a finished game that is loaded again deals on, and at the end of that hand the tournament is counted again |
| `payout` | does a payout cut short, resumed, started by several callers, or started again pay everybody once and close for good; is one that was claimed finished; is the schedule fair | holds |
| `game_session` | with an eviction or a crash, polls, triggers, leaves and deletes: one loop at a time, confirmed decisions kept but for what a cleanup races with, everyone's own turns, a flagged game that stops, a leave that ends, a payment made once but for crashes before its stamp | holds |
| `game_dropped_trigger` | does the loop go on after a confirmed action, as the submit's comment says | violated: the trigger finds the lock of a loop that has already decided to stop and is dropped; the AI's turn waits for another request |
| `cash_session` | do the chips of owner, lender, house and table, the profits and the debts agree over two sessions with stakes, top-ups and carries while nothing fails; does a staker get exactly its due then, and never more after a fault | holds |
| `cash_seats` | is the ledger account of a seat never below zero, as `test_seat_conservation.py` says | violated: a leave empties the account and leaves the chips on the row, the next sit deals them, and the first hand the owner wins is taken from nothing |

`CHECK_DEADLOCK FALSE` is used where the system may stop: in `pot_distribution` a finished
call takes no further step, in `payout` a stamped tournament has nothing left to do, in `game_session` and
`game_dropped_trigger` the game may be deleted or the line played to its end, and in `cash_session` and `cash_seats`
the sits are used up.

## Proofs

No proof takes a bound from the runs. Those about hands and tournaments are for every finite set of
at least two players, every ring, every starting stacks, every blind schedule and every table size from two up; those
about payouts, games and cash sessions for every number of callers, requests, sessions and faults.

* `SumTheorems`: sums over a finite set of players. The community module's
  `SumFunction` is a fold; these lemmas (split off a point, change a
  point, add two functions, compare) are what the rest uses.
* `SidePotTheorems`: `Chips` is the same before and after each tier and the
  sweep; the number of live contributors falls with each pass, so
  `Passes` suffice; hence `PayoutKeeps`: the payouts add up to the bets.
* `PotDistributionProofs`: `TypeOK` and `ChipsConserved` are invariants, and so are `MatchesLayers` and
  `OddChipsLeftOfDealer`, for any players, stakes and ties.
* `HandEngineProofs`: `HandInvariant`, that `HandInv` is an invariant, and from it
  every safety and action property of the run `hand_engine`.
* `TournamentProofs`: `SeatingInvariant` and from it `TypeOK`, `ChipsConserved`,
  `EveryoneSeated`, `NobodyBroke` and `TablesBalanced`; `PlaceInvariant` and from it `Placement` and
  `LaterIsHigher`; `TournamentStandings`, that every behaviour of the tournament
  is one of `Standings`. Of `LiveTable`: `LiveInvariant` and from it `LiveTypeOK` and `LiveStandings`, that the saved
  row implements `Standings`; where nothing advances the field under a live game (`~LiveAdvances`, as in the run),
  `AgreeInvariant` and from it `LiveAgrees` and `RowRestores`.
* `PayoutProofs`: under `Disciplined`, `TypeOK`, `NoneOrAll`, `NeverDoublePays`, `NeverOverdrawn`,
  `SettledExactly`, `BooksStayClosed`, and that the payout implements `Prizes`; and `ScheduleIsFair` for
  every field, every pool and every curve of `CurveAssumption`.
* `GameSessionProofs`: `TypeOK`; without retries and deletes, `SettledOnce` (one payment, and one for each crash before its stamp),
  and until the session has ended, `OneLoop` (without leaves, throughout); with one submit at a time, `ToldStands`, and while no cleanup
  has raced with an access, `OwnTurns` and `LeaveStopsTheLoop`.
* `CashSessionProofs`: of `CashSession` `TypeOK` (no balance below zero but the house's and the seats' account) and `NoStakerOverpaid`, the part of `StakerGetsItsDue`
  that faults do not excuse; of `CashBooks` `BooksInvariant` and from it `ChipsConserved`, `ProfitIsTrue`,
  `DebtIsCarry` and `StakerGetsItsDue`, whole.

`HandInv` is needed because none of the properties is inductive alone.
`BetsMatchedAtClose` needs to know that when betting ends either all have
matched or at most one can act and owes nothing (`Matched`); that needs to know
that whoever has acted without being raised since has matched; `TurnIsOwed` needs
the order of turns (`TurnInv`): between the player to act and the last raiser,
going round, everybody still owes a decision; before the flop the big blind's
posted bet takes the place of a raise (`BlindPosted`). `ChipsConserved` needs that the highest bet
belongs to a live player, or `determine_winner` would return early and the pot
would be lost. TLC checked `HandInv` on the instances of the runs before it was proved.

The payouts are compared with the layers pass by pass (`LayInv`). Before each pass there is a level `L` up to which the
layers have been dealt with (`AtLevel`): everybody's remaining stake is what his bet has above `L`, and what he got is the sum of
his shares of the layers up to `L`. The next tier is as many layers as it is high, and all of them have the same contenders
(`TierLayers`); a lone player's tier, which the code splits into winnings and a return, pays as a contested one would (`LoneSplits`); the
chips left over put each winner off his exact part by less than one chip (`SplitError`), so the error is at most one chip for each
height of a live stake below the level. What is above the last level nobody live has matched, and the sweep gives it back layer by layer
(`LevelEnd`). Shares are counted in parts of a chip: `Scale` is any number that every number of players divides (6 in the run),
so that a part is whole. That the loop of the model and the operator `Payout` of `HandEngine` pay the same is the table of passes (`Run`),
with one player fewer to win after each (`FewerEligible`).

In `SeatingInv` the heart is that moving somebody never fails for want of a seat: while a
table is being closed, the others have room for the whole field (that is why it was closed),
and the smallest table, or the one that becomes the final table, has an open seat
unless all are full. Without that `EveryoneSeated` is not
inductive, since a player who moves to a full table would be lost. It also needs that nobody sits
twice, that no table is empty while rebalancing, and that the total of the sizes is the
size of the field (a sum over disjoint sets). For `Placement`, `PlacedBefore` is a strict total order of
the busted (distinct entries break ties), so their ranks are distinct, and as many distinct
ranks as there are busted leave no gap. That somebody is always left, which
`Standings` demands, follows from `ChipsConserved`. `TablesBalanced` needs no invariant between rounds but the start (the
round-robin leaves quotients of the same number) and the guard under which `EndRound` stops.

The live table can be left with a row of one hand and a game of another, and then the chips need not add up. So what holds of the
seats and places whatever is reported (`SeatingInv`, `PlaceInv`) is kept apart from what holds of the chips (`ChipsInv`), and the
step lemmas are stated for any result of a hand. `LiveInv` says the first of the session *and* of its row, and that the row is never
ahead: whoever is out in the row is out in the session, which is why a save maps to steps of `Standings` and a restart to none.
`AgreeInv` adds, as long as no crash has torn the rows apart, the chips, that the row is what `from_dict` accepts, and for every
stage of the boundary which of the session, the row, the live game and the game's row are already of the new hand.

`Disciplined` says what `PayoutProofs` takes for granted: that every caller holds the sandbox lock,
that the hands are seeded (no live table, whose last hand may come out differently after a crash), and that the
database takes the ledger's rows. Under it a final order anybody knows is `fate`, and the invariant says how far each
caller has got: who has paid up to place `at`, what the ledger then says, and that only the holder of the lock is paying.
Each assumption is needed, as *Disagreements* says.

In `GameSessionProofs` the heart is that until the session has ended the game has one lock: whoever asked for a lock
asked for that one, whoever is past `Acquire` holds it, and the cleanup can drop it only while nobody but a waiting
holder is under way. So one leave at a time is between its payment and its stamp, and without the stamp a payment more than the crashes
counted by `cut` is that leave's. After the stamp locks may be dropped while held, but nobody pays any more.
For the turns, `PlayInv` adds that the game's memory and its row agree but for whoever is between its two writes: there is one
object in memory and every thread that holds one holds that (`OneObject`), the row is that object's log or lags it by
the decision whose writer has still to save (`Recorded`), a thread that has computed a decision drafted it on the log as it
still is (`Drafts`), and after a leave has flagged the game the loop has at most one turn under way (`LastTurn`). The hypotheses are where the code needs them
(*Disagreements* 6 to 10): no retry or delete takes the lock from its holder, one submit at a time, and `~raced`, that nobody asked
for the game between a cleanup's look at the lock and its removal of the game. All of them admit every interleaving of triggers,
polls, fast-forwards, leaves, evictions, crashes and reloads with the loop and the submit. What is proved holds until the
session has ended; of a game that was paid out and is dropped nothing is promised.

In `CashSessionProofs`, `CashInv` says that what a request is about to debit it has looked at
(`task.amount <= task.saw`, `job.carry <= job.saw`): write-back of a bankroll may lose an update, but never goes below zero.
`Paid` counts what a leave has still to pay as received (`Has`); a staker is then within the terms of the stack the
borrower left with, a carry is at most what the terms leave open, and of the requests about one carry at most one is between
the compare-and-swap and the credit. Defaults and pleas that overwrite the status cannot break it, because no status they
write is `carry`, which is what a payoff needs.

The properties of `CashBooks` say nothing of a request under way, so `BooksInv` has to say for every point of every
request what is still to come. `Shape` says where the game, the rows and the stakes are then: a session is missing, active or closed by how far the
request has got. `Money` says that a bankroll about to be written back has been read as it is, which is what `Apart` is for. `Balanced` has
one number `x` for what a payoff has taken from the owner and the lender has not got (`Moving`): the purse, the lender, the house, the table's chips
(the game's, or the row's where no game is there) and the forfeited pots (`Total`) with it are the chips at first
and those `InFlight` (dealt before they are paid for, or paid before the game is dropped), and the bankroll with the same `x` is the first
one with the sessions' profits and what is `Unbooked`. That one step of a session changes one profit is a lemma on the sum (`BookedOne`).
`Terms` has the dues exactly, with the one point in a default or plea where the carry is already cleared and the status not yet written, and those in a payoff where the status is
written and the carry not yet cleared (`OnIt`); `Debts` the same for the account, with at most one request about a carry. A second request may read
the carry before the first has cleared it, which is why a debt is not promised where they overlap.
For a stake whose plea was granted (`GivenUp`) `Debts` only says what the code leaves on the account; the theorem is silent there.
TLC checked `BooksInv` on the instance of the run.

A schedule is compared with its quotients. Scaled by the sum of the weights they are at most the shares of the pool, so together they
fit it (`QuotientsFit`); a place that falls short has at least a chip to lose; and the residual is then at least what the winner
lost (`ResidualFits`), so that the winner still has the greatest amount. `CurveAssumption` says what this needs of the
curve: the first fraction is positive and the greatest, and what the named places leave over is no more than it. The only curve the code has
satisfies it; with 5 hundredths for each of three places a field of 13 would pay its fourth place most.

Left to TLC: `ClaimedIsPaid` and `LeaveEnds` (liveness), `ToldStands`, `OwnTurns` and `LeaveStopsTheLoop` of a session that
has ended;
`OneHandCompletes`, `Terminates` and `RoundEnds` (liveness under fairness, out of
this prover's reach).

## Disagreements and restrictions

Five runs find the code at odds with a comment, a test or a document; they are the findings of `PROJECT.json`. The runs that
pass leave out or restrict most of what follows, because there the code does not keep the property. What the models do have and the properties
excuse: 4 (`ClaimedIsPaid`), 9 (`raced`), 12 (`GivenUp`), 13 (`forfeited`), 14 (`overlap`), 16 (`fault`, `cut`), and 20 to 22 where the rows
are torn. 11 and 18 are in the models and break none of the properties. Each was found while modelling.

Payouts. (1) The live table pays before it saves the session; after a crash in between, the last hand is dealt again and may
have another winner, while the payout's rows name the first (`tournament_game_builder.py:502`; `tournament_economy_service.py:428`
takes the rows as what that finisher was owed). (2) A ledger row the database refuses is swallowed
(`core/economy/ledger.py:661`) and the bankroll written all the same; the watchdog then pays the finisher again, although
`tournament_economy_service.py:427` counts on the ledger. (3) The tick releases a field whose payout is still `in_progress` when
the row says the session is over (`tournament_ticker.py:220`; `tournament_spawn.py:499` releases it after the payout only). (4) A payout that
fails before its claim (the row cannot be loaded) stays `pending`, which the watchdog does not look for. With a human only a further
request pays it; of a tournament without one the tick saves the session as complete all the same, every later tick returns at
`tournament_ticker.py:195`, and nothing ever pays it.
(5) With 12 to 15 entrants the fourth place earns more than the third (`economy.py:52`), because the tail is one place then
and gets the whole remainder of 23 hundredths against the third's 15; `tests/test_tournament/test_economy_payout.py:66` expects the amounts to fall.
`ScheduleIsFair` therefore only compares with the winner.

Games. (6) The retry route releases the game's lock though another thread may hold it (`game_routes.py:2425`). (7) A delete, and a
leave, drop the lock while it is held (`game_state_service.py:147`), and the next request makes a new one: with a delete under a
running loop and two more triggers two loops run. (8) Submits validate and write without the lock (`game_routes.py:2141`): of
two at once both may be confirmed and one of them lost, so the run has one player with one request at a time. (9) The cleanup
looks at the lock and then pops the game, and `get_game` does not take the lock it holds (`game_state_service.py:61`): a submit that fetched the
game in between saves and confirms, while a poll has already loaded the row from before it; the confirmed decision is gone from memory and,
with the next save, from the row. That is in the run, and `ToldStands` without `~raced` fails on it.
(10) A thread that fetched a game writes it back after a delete (`game_handler.py:5216`). (11) Between a leave's removal from
memory and from the database a poll revives the game (`cash_routes.py:5512`), which is then left again; `SettledOnce` shows that it
is not paid again. Two leaves beside a delete are not in the run.

Cash. (12) A granted plea clears the carry but never the obligation account (`cash_routes.py:3443`), although
`docs/plans/CASH_MODE_STAKING_OBLIGATION_LEDGER.md:155` has "**Every** default/forgive path" emit the row after which the account is
zero (and again at `:382`). `DebtIsCarry` holds of every other stake.
(13) A leave in mid-hand pays the stack and drops the pot, in which the other seats' chips are too; `docs/plans/CASH_MODE_V1_HANDOFF.md:92`
has the table stack forfeited "to the pot, split among remaining players". The chips are lost: `ChipsConserved` speaks only of the time until then. (14) A default or a plea marks the stake
without looking at its status again, while a payoff compares and swaps: it can overwrite a stake just paid off, and close
the obligation a second time (`DebtIsCarry` excludes overlapping resolutions). (15) Bankrolls are written back as read
(`cash_routes.py:3144`), so two requests about different things lose an update in the cached balance (which a read derived from the ledger
puts right later). (16) A crash between the credit and the
stamp of a leave pays it again (`cash_routes.py:5330`), once for each such crash (`SettledOnce`); one between a stake's status and the
staker's credit leaves the staker unpaid, since the repeated leave finds the stake settled (`stake_settlement.py:152`); one between the game's row and the debit of a sit deals chips nobody paid for; an
exception after the stack was raised leaves it unpaid (`cash_routes.py:5668`). The chips and the books are therefore checked for behaviours
without a fault, `NoStakerOverpaid` for all. (17) A session marked broken is not found by the next leave, and the next sit deletes its row. (18) A staged top-up is not flushed where the loop resumes after a rebuy.
(25) A leave credits every AI player's stack to its bankroll (`cash_routes.py:5366`) and writes the same stack back to its seat on the table
(`:5421`); the next sit deals from that row and debits nobody, because "the AI never returned them to bankroll on a prior leave" (`:711`). The chips are then
there twice. What the seats' ledger account holds bounds a second credit (`bankroll.py:254`), so the doubling ends in a player's winnings, which
come out of an account below zero: the run `cash_seats`. (26) `_record_player_table_hand_pnl` says that its deltas "sum to 0", but `hand_start_stacks`
is noted after the blinds are posted (`game_handler.py:4294`), so the winner's gain exceeds the losses by the blinds, and that part is not recorded.

Tournaments. (19) A button left on the seat of a busted player is snapped forward for one hand only, so the player after it deals
twice (`seating.py:76`), although `seating.py:16` says it "never rests on an empty seat here"; `DealerSeat` and `ButtonAdvanced` are
the code's. (20) The boundary saves a persona field's game, pays, finalizes and tells the client before it saves the session, and the game of a synthetic field
after it (`tournament_game_builder.py:494`, `:516`): a crash in between leaves a hand in one row and not in the other. (21) The hand boundary
after that may find other players or chips than the session has. `_apply_result` then warns and goes on, "never raise", as its
comment says (`session.py:459`), but the round asserts conservation a few lines later (`session.py:415`): it raises, the table stops with the stacks
already folded in, and it stops again after every hand. (22) A new seat after an eviction saves that session, whose row `from_dict` then refuses:
after the next restart the tournament is not found. (23) `/advance` under a live hand moves the session's chips and players while the
game plays on with the old ones (`tournament_routes.py:633`). (24) The career statistics: the run `live_career`. (27) `field.py:12` breaks ties "by stack at the
start of the hand", but `_round` ranks by the stacks at the start of the round (`session.py:417`), in which the other tables may play two hands: of two players
who bust on the second the one who brought more chips to it may be placed lower. `Position` is the code's.

## Not modelled, and why

* AI decisions, psychology, memory, prompts, coach, statistics, admin, client: text and
  heuristics that no chip or turn depends on. The hand engine takes any legal move of
  an AI player, so what they decide is covered.
* The movement policy of the cash lobby (`lobby.py`, `movement.py`, side hustles and
  vices): thousands of lines of tuned probabilities. What it may do to a seat is the
  presence component, what it may do to chips the ledger.
* Language model providers and the SQL of the repositories: external or plain reads and
  writes; a transaction is an atomic step of the module that uses it.
* The ledger as a module of its own: its operations are single inserts. Its rows are variables of `Payout`.
* The experiments, which run the same engine without a server.
* The rest is planned, in this order.

## Plan

1. The single-table tournament: `fold_live_hand` and its boundary, whose conservation check warns where the other raises.
2. `Presence`: the legal transitions and the diff of a saved table. Properties: nobody
   is at two tables, a rejected save leaves no trace.
3. The stakes among AI players and those the human gives, on the terms `CashSession` has already.
4. `HandEvaluator`: the ranking of seven cards as an operator, against the rules of
   poker as a reference definition, over a small deck.

Theorems worth proving next: those of these modules, once they are written.
