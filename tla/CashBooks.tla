------------------------------ MODULE CashBooks ------------------------------
(***************************************************************************)
(* The books of the owner's cash sessions: CashSession with the history    *)
(* they are judged by, in the behaviours in which nothing the code leaves  *)
(* unlocked is lost.  The owner's bankroll is written back as read, so     *)
(* while a carry is being resolved no request of the table may have read   *)
(* it or write it, and the other requests are about the same stake.  Bets, *)
(* hands, staged top-ups and sponsored sits go on meanwhile; two requests  *)
(* about one carry, a crash and an exception come at any point.            *)
(***************************************************************************)
EXTENDS CashSession, Functions

VARIABLES
    marred,     \* there has been a crash, an exception or two resolutions at once
    forfeited   \* the chips in the pots of hands walked out of

books == <<vars, marred, forfeited>>

Resolved == {job[r].stake : r \in {q \in Requests : busy[q] # "idle"}}

BooksInit == Init /\ marred = [fault |-> FALSE, overlap |-> FALSE] /\ forfeited = 0

Apart ==
    /\ Resolved # {} /\ busy' = busy => purse' = purse
    /\ Resolved' # {} => pc' \notin LeaveSpots \cup {"debit"}
    /\ \A s, u \in Resolved' : s = u

Recorded ==
    /\ marred' = [fault   |-> marred.fault \/ crashes' > crashes \/ raises' > raises,
                  overlap |-> \/ marred.overlap
                              \/ \E r, q \in Requests : r # q /\ busy'[r] # "idle" /\ busy'[q] # "idle"]
    /\ forfeited' = forfeited + IF pc = "remove" /\ pc' = "idle" THEN game.pot ELSE 0

BooksNext == Next /\ Apart /\ Recorded

BooksSpec == BooksInit /\ [][BooksNext]_books

-----------------------------------------------------------------------------
AtRest == pc = "idle" /\ Resolved = {}

\* The chips at the table: in the game, or on the row the next sit deals from.
TableChips == IF game.there THEN game.stack + game.rest + game.pot ELSE seats.row

\* No request mints or loses a chip of the owner, the lender, the house or the table:
\* not sitting on one's own or on borrowed money, not a top-up paid at once, staged, or
\* cut to what the bankroll still has, not a split or carried stake, and not two
\* payoffs of one carry at once.  It speaks of the time until a hand is walked out of,
\* which takes its pot away.  What the other seats are cashed out to their bankrolls
\* is not in it: it comes on top of the chips their row keeps.
ChipsConserved ==
    AtRest /\ ~marred.fault /\ forfeited = 0 =>
        purse + lender + bank + TableChips = Purse + LenderPurse + Others

\* The account of a seat is never below zero, over sits, hands and leaves
\* (tests/test_cash_mode/test_seat_conservation.py 10-13: "a seat can never be drained
\* below the chips that reached it").
SeatNeverNegative == seats.custody >= 0

\* Whatever crashes between the steps of a leave, however often the table is left
\* again, and whichever payoffs, defaults and pleas meet on one carry, a staker is
\* never paid more than the terms say (settle_stake_on_leave: "idempotent no-op
\* protects against double-settle on a retry path"); and undisturbed it is paid
\* exactly that, less the carry that is still open or was given up.
StakerGetsItsDue ==
    /\ NoStakerOverpaid
    /\ AtRest /\ ~marred.fault =>
         \A s \in Sessions :
           LET stake == stakes[s]
           IN  stake.status \in Over =>
                   \/ stake.repaid \in Due(stake)
                   \/ stake.status = "carry" /\ stake.repaid + stake.carry = stake.principal
                   \/ stake.kind = "persona" /\ stake.status # "carry" /\ stake.carry = 0
                        /\ stake.repaid = stake.left

\* What a session brought: what was taken home less what was bought in, with every
\* rebuy and top-up, less the carry paid off since.
Profit(s) ==
    sess[s].takeHome - sess[s].buyIn
      - IF stakes[s].kind = "persona" /\ sess[s].state = "closed"
        THEN stakes[s].repaid - sess[s].sponsorRepaid ELSE 0

\* The sessions' books explain the bankroll (cash_session_persistence.py 104-107: a
\* top-up must count as bought in, else "leave-time P&L treats the added chips as
\* winnings").
ProfitIsTrue ==
    AtRest /\ ~marred.fault => purse = Purse + SumFunction([s \in Sessions |-> Profit(s)])

\* A plea was granted: the carry is gone, the staker was not paid.
GivenUp(stake) == stake.kind = "persona" /\ stake.status = "settled" /\ stake.repaid < stake.principal

\* The obligation account of a stake is the principal while it is active, the carry
\* while that is open, and empty once it was paid off, written off or defaulted.  Not so
\* of a granted plea, which leaves the account as it was though "every default/forgive
\* path" is to close it (docs/plans/CASH_MODE_STAKING_OBLIGATION_LEDGER.md 155).
DebtIsCarry ==
    AtRest /\ ~marred.fault /\ ~marred.overlap =>
        \A s \in Sessions :
            LET stake == stakes[s]
            IN  ~GivenUp(stake) =>
                   stake.owed = IF stake.status = "active" THEN stake.principal ELSE stake.carry
=============================================================================
