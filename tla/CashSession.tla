----------------------------- MODULE CashSession -----------------------------
(***************************************************************************)
(* The money of the human's cash sessions: flask_app/routes/cash_routes.py *)
(* (sit, sponsor-and-sit, rebuy, top-up, leave, and the payoff, default    *)
(* and forgiveness of a carry), with the flush of a staged top-up in       *)
(* game_handler.py and the settlement of cash_mode/stake_settlement.py.    *)
(*                                                                         *)
(* The owner's client sends one table request at a time; rebuy, top-up and *)
(* leave hold the lock of the game, so the loop that plays the hands waits *)
(* for them.  Each write to a row is a step of its own where a crash or an *)
(* exception between two of them leaves a trace.  Carries are resolved     *)
(* from the lobby, without a lock.  A crash loses the game in memory and   *)
(* the requests; the rows stay.                                            *)
(***************************************************************************)
EXTENDS Integers, FiniteSets

CONSTANTS
    MinBuyIn, MaxBuyIn,   \* table_buy_in_window
    CutPercent,           \* the staker's share of the winnings
    Purse,                \* the owner's bankroll at first
    LenderPurse,          \* the bankroll of the persona who lends
    Others,               \* the chips of the other seats, bought in and on the ledger
    Payoffs, Resolvers,   \* requests about a carry: payoffs, defaults and pleas
    MaxSessions,          \* bound: sits
    MaxBet,               \* bound: chips a side puts in between two saves
    MaxCrashes, MaxRaises

Requests == Payoffs \cup Resolvers

ASSUME CashAssumption ==
    /\ MinBuyIn \in Nat \ {0} /\ MaxBuyIn \in Nat /\ MinBuyIn <= MaxBuyIn
    /\ CutPercent \in 0..100
    /\ Purse \in Nat /\ LenderPurse \in Nat /\ Others \in Nat
    /\ Payoffs \cap Resolvers = {}
    /\ MaxSessions \in Nat \ {0} /\ MaxBet \in Nat /\ MaxCrashes \in Nat /\ MaxRaises \in Nat

Sessions == 1..MaxSessions
NoGame   == [stack |-> 0, rest |-> 0, pot |-> 0, theirs |-> 0, mid |-> FALSE, pending |-> 0,
             there |-> FALSE]

VARIABLES
    purse,      \* the owner's bankroll
    lender,     \* the persona's bankroll
    bank,       \* the house: chips issued count against it
    seats,      \* the other seats: their chips on the table's row, what the ledger
                \* says they hold, and what they were cashed out
    game,       \* the game in memory
    saved,      \* its row, which has no staged top-up
    n,          \* the number of the last session
    sess,       \* the cash_sessions rows
    stakes,     \* the stakes rows and their obligation accounts
    pc,         \* where the table request is
    task,       \* what it read and has still to pay
    busy,       \* where each request about a carry is
    job,        \* what it read
    crashes, raises

chips == <<purse, lender, bank, seats>>
table == <<pc, task>>
lobby == <<busy, job>>
vars  == <<chips, game, saved, n, sess, stakes, table, lobby, crashes, raises>>

NoSession == [state |-> "missing", buyIn |-> 0, takeHome |-> 0, sponsorRepaid |-> 0]
NoStake   == [status |-> "none", kind |-> "house", principal |-> 0, carry |-> 0,
              owed |-> 0, repaid |-> 0, left |-> 0]
NoTask    == [saw |-> 0, amount |-> 0, kind |-> "own", staker |-> 0, player |-> 0]
NoJob     == [stake |-> 1, saw |-> 0, carry |-> 0]

Games     == [stack : Nat, rest : Nat, pot : Nat, theirs : Nat, mid : BOOLEAN, pending : Nat,
              there : BOOLEAN]
SitSpots  == {"debit", "record", "stake", "begin", "fund"}
LeaveSpots == {"settle", "credit", "finalise", "remove"}

\* What each variable holds; only the house, and a seat's account, go below zero.
TypeOK ==
    /\ purse \in Nat /\ lender \in Nat /\ bank \in Int
    /\ seats \in [row : Nat, custody : Int, cashed : Nat]
    /\ game \in Games /\ saved \in Games /\ saved.pending = 0
    /\ n \in 0..MaxSessions
    /\ sess \in [Sessions -> [state : {"missing", "active", "closed", "broken"}, buyIn : Nat,
                              takeHome : Nat, sponsorRepaid : Nat]]
    /\ stakes \in [Sessions -> [status : {"none", "active", "settled", "carry", "defaulted"},
                                kind : {"house", "persona"}, principal : Nat, carry : Nat,
                                owed : Int, repaid : Nat, left : Nat]]
    /\ pc \in {"idle"} \cup SitSpots \cup LeaveSpots
    /\ task \in [saw : Nat, amount : Nat, kind : {"own", "house", "persona"},
                 staker : Nat, player : Nat]
    /\ busy \in [Requests -> {"idle", "claim", "debit", "credit", "close", "zero", "mark", "writeoff"}]
    /\ job \in [Requests -> [stake : Sessions, saw : Nat, carry : Nat]]
    /\ crashes \in 0..MaxCrashes /\ raises \in 0..MaxRaises

Init ==
    /\ purse = Purse /\ lender = LenderPurse /\ bank = 0
    /\ seats = [row |-> Others, custody |-> Others, cashed |-> 0]
    /\ game = NoGame /\ saved = NoGame /\ n = 0
    /\ sess = [s \in Sessions |-> NoSession]
    /\ stakes = [s \in Sessions |-> NoStake]
    /\ pc = "idle" /\ task = NoTask
    /\ busy = [r \in Requests |-> "idle"]
    /\ job = [r \in Requests |-> NoJob]
    /\ crashes = 0 /\ raises = 0

-----------------------------------------------------------------------------
Row(g) == [g EXCEPT !.pending = 0]

\* _cash_session_blocks: without a session row a game blocks.
Blocking ==
    /\ n > 0
    /\ \/ sess[n].state = "active"
       \/ sess[n].state = "missing" /\ (game.there \/ saved.there)

\* A stake that was settled is settled again.
EverStaked == n > 0 /\ stakes[n].status # "none"

ActiveStake == n > 0 /\ stakes[n].status = "active"

LockFree == pc \notin LeaveSpots

BuyIns == MinBuyIn..MaxBuyIn

-----------------------------------------------------------------------------
(* Sitting down.  _build_cash_game first deletes the rows a session left    *)
(* behind, then deals a game whose stack has not been paid for yet.  A sit  *)
(* with a game of a broken session still in memory is left out.             *)

Builds(amount) ==
    LET dealt == [NoGame EXCEPT !.stack = amount, !.rest = seats.row, !.mid = TRUE, !.there = TRUE]
    IN  /\ pc = "idle" /\ n < MaxSessions
        /\ ~Blocking /\ ~game.there /\ seats.row > 0
        /\ n' = n + 1
        /\ sess' = IF saved.there THEN [sess EXCEPT ![n] = NoSession] ELSE sess
        /\ game' = dealt /\ saved' = dealt
        /\ UNCHANGED <<chips, stakes, lobby, crashes, raises>>

SitBuilds(amount) ==
    /\ purse >= amount
    /\ Builds(amount)
    /\ pc' = "debit"
    /\ task' = [NoTask EXCEPT !.saw = purse, !.amount = amount]

SitDebits ==
    /\ pc = "debit"
    /\ purse' = task.saw - task.amount
    /\ pc' = "record"
    /\ UNCHANGED <<lender, bank, seats, game, saved, n, sess, stakes, task, lobby, crashes, raises>>

SitRecords ==
    /\ pc = "record"
    /\ sess' = [sess EXCEPT ![n] = [NoSession EXCEPT !.state = "active", !.buyIn = task.amount]]
    /\ pc' = "idle" /\ task' = NoTask
    /\ UNCHANGED <<chips, game, saved, n, stakes, lobby, crashes, raises>>

\* is_sponsor_eligible on the lowest tier; an offer is within a persona's means.
SponsorBuilds(kind, amount) ==
    /\ purse < MinBuyIn
    /\ kind = "persona" => lender >= amount
    /\ Builds(amount)
    /\ pc' = "stake"
    /\ task' = [NoTask EXCEPT !.amount = amount, !.kind = kind]

SponsorStakes ==
    /\ pc = "stake"
    /\ stakes' = [stakes EXCEPT ![n] =
                    [status |-> "active", kind |-> task.kind, principal |-> task.amount,
                     carry |-> 0, owed |-> task.amount, repaid |-> 0, left |-> 0]]
    /\ pc' = "begin"
    /\ UNCHANGED <<chips, game, saved, n, sess, task, lobby, crashes, raises>>

SponsorRecords ==
    /\ pc = "begin"
    /\ sess' = [sess EXCEPT ![n] = [NoSession EXCEPT !.state = "active"]]
    /\ pc' = "fund"
    /\ UNCHANGED <<chips, game, saved, n, stakes, task, lobby, crashes, raises>>

\* house_stake_issue, or _debit_personality_lender_principal.
SponsorFunds ==
    /\ pc = "fund"
    /\ IF task.kind = "house"
       THEN bank' = bank - task.amount /\ UNCHANGED lender
       ELSE lender' = lender - task.amount /\ UNCHANGED bank
    /\ pc' = "idle" /\ task' = NoTask
    /\ UNCHANGED <<purse, seats, game, saved, n, sess, stakes, lobby, crashes, raises>>

-----------------------------------------------------------------------------
(* The table.                                                               *)

\* Every action at the table saves the row after it.
Bet(own, rest) ==
    /\ game.there /\ game.mid /\ LockFree
    /\ own + rest > 0 /\ own <= game.stack /\ rest <= game.rest
    /\ game' = [game EXCEPT !.stack = @ - own, !.rest = @ - rest, !.pot = @ + own + rest,
                             !.theirs = @ + rest]
    /\ saved' = Row(game')
    /\ UNCHANGED <<chips, n, sess, stakes, table, lobby, crashes, raises>>

Applied == IF game.pending <= purse THEN game.pending ELSE purse

BuysIn(amount) ==
    sess' = [sess EXCEPT ![n].buyIn = @ + IF sess[n].state = "missing" THEN 0 ELSE amount]

\* The pot goes to the owner or to the others.
Won(won) == [game EXCEPT !.stack = @ + won, !.rest = @ + game.pot - won, !.pot = 0,
                          !.theirs = 0]

HandOver(won) == game.there /\ game.mid /\ LockFree /\ game.pot > 0 /\ won \in {0, game.pot}

Alone(won) == Won(won).stack = 0 \/ Won(won).rest = 0

\* The hand is over: the ledger moves to the winner what the losers put in, but for
\* what was in before the stacks were noted (the blinds, or all there was before a
\* load) and what could not be written, and the seats' row gets their chips.
Recounts(won) ==
    \E moved \in 0..IF won = 0 THEN game.pot - game.theirs ELSE game.theirs :
        seats' = [seats EXCEPT !.row = Won(won).rest,
                               !.custody = IF won = 0 THEN @ + moved ELSE @ - moved]

\* The owner is broke, or the only one with chips: the table waits.
HandPauses(won) ==
    /\ HandOver(won) /\ Alone(won)
    /\ game' = [Won(won) EXCEPT !.mid = FALSE]
    /\ saved' = Row(game') /\ Recounts(won)
    /\ UNCHANGED <<purse, lender, bank, n, sess, stakes, table, lobby, crashes, raises>>

\* A flush that does not count the chips as bought in.
NextHandOffTheBooks(won) ==
    /\ HandOver(won) /\ ~Alone(won)
    /\ game' = [Won(won) EXCEPT !.stack = @ + Applied, !.pending = 0]
    /\ saved' = Row(game') /\ Recounts(won)
    /\ purse' = purse - Applied
    /\ UNCHANGED <<lender, bank, n, sess, stakes, table, lobby, crashes, raises>>

\* The next hand is dealt at once, and _flush_pending_topup pays a staged top-up
\* out of what the bankroll has by now.
NextHand(won) ==
    /\ HandOver(won) /\ ~Alone(won)
    /\ game' = [Won(won) EXCEPT !.stack = @ + Applied, !.pending = 0]
    /\ saved' = Row(game') /\ Recounts(won)
    /\ purse' = purse - Applied
    /\ BuysIn(Applied)
    /\ UNCHANGED <<lender, bank, n, stakes, table, lobby, crashes, raises>>

\* The flush meets its error when the chips are on the table already.
NextHandHalfFlushed(won) ==
    /\ HandOver(won) /\ ~Alone(won) /\ game.pending > 0
    /\ game' = [Won(won) EXCEPT !.stack = @ + Applied]
    /\ saved' = Row(game') /\ Recounts(won)
    /\ UNCHANGED <<purse, lender, bank, n, sess, stakes, table, lobby, crashes, raises>>

\* The flush meets an error: nothing is debited and the stage is kept.
NextHandUnflushed(won) ==
    /\ HandOver(won) /\ ~Alone(won) /\ game.pending > 0
    /\ game' = Won(won)
    /\ saved' = Row(game') /\ Recounts(won)
    /\ UNCHANGED <<purse, lender, bank, n, sess, stakes, table, lobby, crashes, raises>>

\* After a rebuy or a top-up the loop goes on; nothing is flushed on this way.
Resumes ==
    /\ game.there /\ ~game.mid /\ LockFree
    /\ game.stack > 0 /\ game.rest > 0
    /\ game' = [game EXCEPT !.mid = TRUE]
    /\ saved' = Row(game')
    /\ UNCHANGED <<chips, n, sess, stakes, table, lobby, crashes, raises>>

\* top_up and rebuy: the stack first, then the bankroll, then the session.
Buys(amount) ==
    /\ pc = "idle" /\ game.there /\ Blocking
    /\ ~ActiveStake
    /\ game' = [game EXCEPT !.stack = @ + amount]
    /\ purse' = purse - amount
    /\ BuysIn(amount)
    /\ UNCHANGED <<lender, bank, seats, saved, n, stakes, table, lobby, crashes, raises>>

TopUp(amount) ==
    /\ ~game.mid
    /\ purse >= amount + game.pending
    /\ Buys(amount)

\* Without the look at the bankroll.
RebuyAnyway(amount) ==
    /\ ~game.mid
    /\ game.stack = 0
    /\ amount \in BuyIns
    /\ Buys(amount)

Rebuy(amount) ==
    /\ ~game.mid
    /\ game.stack = 0
    /\ amount \in BuyIns
    /\ purse >= amount
    /\ Buys(amount)

\* In mid-hand a top-up is staged: the live stack must not move under the betting.
StageTopUp(amount) ==
    /\ pc = "idle" /\ game.there /\ Blocking
    /\ ~ActiveStake
    /\ game.mid
    /\ purse >= amount + game.pending
    /\ game' = [game EXCEPT !.pending = @ + amount]
    /\ UNCHANGED <<chips, saved, n, sess, stakes, table, lobby, crashes, raises>>

\* The bankroll cannot be saved after the stack was changed.
BuyRaises(amount) ==
    /\ raises < MaxRaises
    /\ raises' = raises + 1
    /\ pc = "idle" /\ game.there /\ Blocking
    /\ ~ActiveStake
    /\ ~game.mid
    /\ purse >= amount + game.pending
    /\ game' = [game EXCEPT !.stack = @ + amount]
    /\ UNCHANGED <<chips, saved, n, sess, stakes, table, lobby, crashes>>

-----------------------------------------------------------------------------
(* Leaving.                                                                 *)

\* int(net * cut): the quotient, or one less when the product of the floats falls
\* short of a whole number.
Shares(net) ==
    LET q == (net * CutPercent) \div 100
    IN  {q} \cup IF q > 0 /\ net * CutPercent = q * 100 THEN {q - 1} ELSE {}

\* _compute_chip_flows of a stake without a match.
StakerTotals(principal, left) ==
    IF left >= principal THEN {principal + share : share \in Shares(left - principal)} ELSE {left}

\* What the house forgives stays on the obligation.
SettledStakeUnforgiven(stake, left, staker) ==
    LET carry == IF left < stake.principal /\ stake.kind = "persona"
                 THEN stake.principal - staker ELSE 0
    IN  [stake EXCEPT !.status = IF carry > 0 THEN "carry" ELSE "settled",
                      !.carry = carry, !.left = left,
                      !.owed = IF staker < stake.principal THEN @ - staker ELSE 0]

\* settle_stake_on_leave: the status first; the house forgives what it would carry.
\* The obligation keeps the carry and writes off what is forgiven.
SettledStake(stake, left, staker) ==
    LET carry == IF left < stake.principal /\ stake.kind = "persona"
                 THEN stake.principal - staker ELSE 0
    IN  [stake EXCEPT !.status = IF carry > 0 THEN "carry" ELSE "settled",
                      !.carry = carry, !.owed = carry, !.left = left]

\* A game that is only a row is loaded first.  The pot of a hand under way is not
\* cashed out.
LeaveSettles ==
    /\ pc = "idle" /\ Blocking
    /\ LET g == IF game.there THEN game ELSE saved
       IN  /\ g.there
           /\ game' = g
           /\ IF ActiveStake
              THEN \E staker \in StakerTotals(stakes[n].principal, g.stack) :
                      /\ stakes' = [stakes EXCEPT ![n] = SettledStake(@, g.stack, staker)]
                      /\ task' = [NoTask EXCEPT !.saw = purse, !.kind = stakes[n].kind,
                                                !.staker = staker, !.player = g.stack - staker]
                      /\ pc' = "settle"
              ELSE /\ task' = [NoTask EXCEPT !.saw = purse, !.player = g.stack]
                   /\ pc' = "credit"
                   /\ UNCHANGED stakes
    /\ UNCHANGED <<chips, saved, n, sess, lobby, crashes, raises>>

\* credit_ai_cash_out or record_house_stake_settle
LeavePaysStaker ==
    /\ pc = "settle"
    /\ IF task.kind = "house"
       THEN bank' = bank + task.staker /\ UNCHANGED lender
       ELSE lender' = lender + task.staker /\ UNCHANGED bank
    /\ stakes' = [stakes EXCEPT ![n].repaid = @ + task.staker]
    /\ pc' = "credit"
    /\ UNCHANGED <<purse, seats, game, saved, n, sess, task, lobby, crashes, raises>>

LeaveCredits ==
    /\ pc = "credit"
    /\ purse' = task.saw + task.player
    /\ pc' = "finalise"
    /\ UNCHANGED <<lender, bank, seats, game, saved, n, sess, stakes, task, lobby, crashes, raises>>

\* _finalise_cash_session: without a row there is nothing to stamp.
LeaveFinalises ==
    /\ pc = "finalise"
    /\ sess' = IF sess[n].state = "missing" THEN sess
               ELSE [sess EXCEPT ![n].state = "closed", ![n].takeHome = task.player,
                                 ![n].sponsorRepaid = task.staker]
    /\ pc' = "remove"
    /\ UNCHANGED <<chips, game, saved, n, stakes, task, lobby, crashes, raises>>

\* credit_ai_cash_out: no more than the ledger says the seats hold.
CashedOut ==
    LET held == IF seats.custody > 0 THEN seats.custody ELSE 0
    IN  IF game.rest <= held THEN game.rest ELSE held

\* The other seats are cashed out, and their row keeps the same chips; then the game
\* is dropped with its row.
LeaveRemoves ==
    /\ pc = "remove"
    /\ seats' = [row |-> game.rest, custody |-> seats.custody - CashedOut,
                 cashed |-> seats.cashed + CashedOut]
    /\ game' = NoGame /\ saved' = NoGame
    /\ pc' = "idle" /\ task' = NoTask
    /\ UNCHANGED <<purse, lender, bank, n, sess, stakes, lobby, crashes, raises>>

\* An exception in the teardown: the session is marked broken, if it has a row.
LeaveRaises ==
    /\ pc \in LeaveSpots
    /\ raises < MaxRaises
    /\ raises' = raises + 1
    /\ sess' = [sess EXCEPT ![n].state = IF @ = "missing" THEN @ ELSE "broken"]
    /\ pc' = "idle" /\ task' = NoTask
    /\ UNCHANGED <<chips, game, saved, n, stakes, lobby, crashes>>

-----------------------------------------------------------------------------
(* Resolving a carry.                                                       *)

Goes(r, spot) == busy' = [busy EXCEPT ![r] = spot]

OnlyStakes(r, spot) ==
    /\ Goes(r, spot)
    /\ job' = IF spot = "idle" THEN [job EXCEPT ![r] = NoJob] ELSE job
    /\ UNCHANGED <<chips, game, saved, n, sess, table, crashes, raises>>

Reads(r, s, spot) ==
    /\ busy[r] = "idle"
    /\ stakes[s].status = "carry" /\ stakes[s].kind = "persona"
    /\ job' = [job EXCEPT ![r] = [stake |-> s, saw |-> purse, carry |-> stakes[s].carry]]
    /\ Goes(r, spot)
    /\ UNCHANGED <<chips, game, saved, n, sess, stakes, table, crashes, raises>>

PayoffReads(r, s) == purse >= stakes[s].carry /\ Reads(r, s, "claim")

\* The update of the status is a compare-and-swap: whoever loses pays nothing.
PayoffClaims(r) ==
    LET s == job[r].stake
    IN  /\ busy[r] = "claim"
        /\ IF stakes[s].status = "carry"
           THEN stakes' = [stakes EXCEPT ![s].status = "settled"] /\ OnlyStakes(r, "debit")
           ELSE OnlyStakes(r, "idle") /\ UNCHANGED stakes

PayoffDebits(r) ==
    /\ busy[r] = "debit"
    /\ purse' = job[r].saw - job[r].carry
    /\ Goes(r, "credit")
    /\ UNCHANGED <<lender, bank, seats, game, saved, n, sess, stakes, table, job, crashes, raises>>

PayoffCredits(r) ==
    /\ busy[r] = "credit"
    /\ lender' = lender + job[r].carry
    /\ stakes' = [stakes EXCEPT ![job[r].stake].repaid = @ + job[r].carry]
    /\ Goes(r, "close")
    /\ UNCHANGED <<purse, bank, seats, game, saved, n, sess, table, job, crashes, raises>>

PayoffCloses(r) ==
    /\ busy[r] = "close"
    /\ stakes' = [stakes EXCEPT ![job[r].stake].carry = 0,
                                ![job[r].stake].owed = @ - job[r].carry]
    /\ OnlyStakes(r, "idle")

\* default_stake and a granted request_forgiveness clear the carry, then mark the
\* stake without looking at its status again.
ResolveReads(r, s) == Reads(r, s, "zero")

ResolveZeroes(r) ==
    /\ busy[r] = "zero"
    /\ stakes' = [stakes EXCEPT ![job[r].stake].carry = 0]
    /\ OnlyStakes(r, "mark")

DefaultMarks(r) ==
    /\ busy[r] = "mark"
    /\ stakes' = [stakes EXCEPT ![job[r].stake].status = "defaulted"]
    /\ OnlyStakes(r, "writeoff")

DefaultWritesOff(r) ==
    /\ busy[r] = "writeoff"
    /\ stakes' = [stakes EXCEPT ![job[r].stake].owed = @ - job[r].carry]
    /\ OnlyStakes(r, "idle")

\* A granted plea does not touch the obligation.
ForgivenessMarks(r) ==
    /\ busy[r] = "mark"
    /\ stakes' = [stakes EXCEPT ![job[r].stake].status = "settled"]
    /\ OnlyStakes(r, "idle")

-----------------------------------------------------------------------------
Crash ==
    /\ crashes < MaxCrashes
    /\ crashes' = crashes + 1
    /\ game' = NoGame
    /\ pc' = "idle" /\ task' = NoTask
    /\ busy' = [r \in Requests |-> "idle"] /\ job' = [r \in Requests |-> NoJob]
    /\ UNCHANGED <<chips, saved, n, sess, stakes, raises>>

\* A poll of the game reads the row back.
ColdLoad ==
    /\ ~game.there /\ saved.there /\ LockFree
    /\ game' = saved
    /\ UNCHANGED <<chips, saved, n, sess, stakes, table, lobby, crashes, raises>>

Sitting ==
    \/ \E amount \in BuyIns : \/ SitBuilds(amount)
                              \/ \E kind \in {"house", "persona"} : SponsorBuilds(kind, amount)
    \/ SitDebits \/ SitRecords
    \/ SponsorStakes \/ SponsorRecords \/ SponsorFunds

Playing ==
    \/ \E own, rest \in 0..MaxBet : Bet(own, rest)
    \/ \E won \in {0, game.pot} : HandPauses(won) \/ NextHand(won) \/ NextHandUnflushed(won)
    \/ Resumes \/ ColdLoad

Buying ==
    \E amount \in 1..MaxBuyIn : TopUp(amount) \/ Rebuy(amount) \/ StageTopUp(amount) \/ BuyRaises(amount)

Leaving ==
    \/ LeaveSettles \/ LeavePaysStaker \/ LeaveCredits \/ LeaveFinalises \/ LeaveRemoves
    \/ LeaveRaises

Resolving ==
    \/ \E r \in Payoffs :
         \/ \E s \in Sessions : PayoffReads(r, s)
         \/ PayoffClaims(r) \/ PayoffDebits(r) \/ PayoffCredits(r) \/ PayoffCloses(r)
    \/ \E r \in Resolvers :
         \/ \E s \in Sessions : ResolveReads(r, s)
         \/ ResolveZeroes(r) \/ DefaultMarks(r) \/ DefaultWritesOff(r) \/ ForgivenessMarks(r)

Next == Sitting \/ Playing \/ Buying \/ Leaving \/ Resolving \/ Crash

Spec == Init /\ [][Next]_vars

-----------------------------------------------------------------------------
Over == {"settled", "carry", "defaulted"}

\* A persona is owed the whole principal of a stake that went wrong, the house
\* what was left.
Short(stake) == stake.kind = "persona" /\ stake.left < stake.principal

\* What the terms owe a staker for the stack the borrower left with.
Due(stake) == IF Short(stake) THEN {stake.principal} ELSE StakerTotals(stake.principal, stake.left)

\* However many requests, crashes and repeated leaves there are, no staker gets more
\* than the terms say.
NoStakerOverpaid ==
    \A s \in Sessions :
        stakes[s].status \in Over => \E due \in Due(stakes[s]) : stakes[s].repaid <= due
=============================================================================
