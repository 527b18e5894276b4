------------------------- MODULE CashSessionProofs -------------------------
(***************************************************************************)
(* Proofs about CashSession and CashBooks, for any purses, buy-ins, cut,   *)
(* number of sessions, of requests and of faults.                          *)
(*                                                                         *)
(* Whatever happens, no chip count goes below zero and no staker is        *)
(* overpaid.  What is bought was looked at when the request read the       *)
(* bankroll, and is paid out of what it read (Covered).  What a staker     *)
(* has, with what is on its way to it, is within its terms (Paid): a leave *)
(* finds the stake active once, and a carry is claimed once.               *)
(*                                                                         *)
(* While nothing goes wrong and requests keep apart, the books are right:  *)
(* the chips, the sessions' books, the terms and the debts.  BooksInv says *)
(* for every point of every request what of it is still to come.           *)
(***************************************************************************)
EXTENDS CashBooks, SumTheorems, TLAPS

\* A request has the chips it will pay with, and a game has a session.
Covered ==
    /\ pc # "idle" => n \in Sessions
    /\ game.there \/ saved.there => n \in Sessions
    /\ pc = "debit" => task.amount <= task.saw
    /\ pc \in {"stake", "begin", "fund"} =>
          task.kind # "own" /\ (task.kind = "persona" => task.amount <= lender)
    /\ \A r \in Requests : busy[r] \in {"claim", "debit"} => job[r].carry <= job[r].saw

CashInv == TypeOK /\ Covered

SeatRows == [row : Nat, custody : Int, cashed : Nat]

-----------------------------------------------------------------------------
\* int(net * cut) is between nothing and the net.
LEMMA ShareBound ==
  ASSUME NEW net \in Nat
  PROVE  \A share \in Shares(net) : share \in Nat /\ share <= net
<1> DEFINE q == (net * CutPercent) \div 100
<1>1. CutPercent \in Nat /\ CutPercent <= 100
  BY CashAssumption
<1>2. net * CutPercent \in Nat /\ net * CutPercent <= net * 100
  BY <1>1
<1> HIDE DEF q
<1>3. q \in Nat /\ q <= net
  BY <1>2 DEF q
<1> QED
  BY <1>3 DEF Shares, q

\* A staker gets no more than the stack the borrower left with.
LEMMA StakerBound ==
  ASSUME NEW principal \in Nat, NEW left \in Nat
  PROVE  /\ \A staker \in StakerTotals(principal, left) : staker \in Nat /\ staker <= left
         /\ left < principal => StakerTotals(principal, left) = {left}
<1>1. CASE left >= principal
  <2>1. left - principal \in Nat
    BY <1>1
  <2>2. \A share \in Shares(left - principal) : share \in Nat /\ share <= left - principal
    BY <2>1, ShareBound
  <2> QED
    BY <1>1, <2>2 DEF StakerTotals
<1>2. CASE left < principal
  BY <1>2 DEF StakerTotals
<1> QED
  BY <1>1, <1>2

-----------------------------------------------------------------------------
(* No chip count goes below zero: CashInv is inductive.                     *)

LEMMA CashInit == Init => CashInv
BY CashAssumption DEF Init, CashInv, TypeOK, Covered, Games, Sessions, SitSpots, LeaveSpots, NoGame, NoSession, NoStake, NoTask, NoJob

\* The fields of what TypeOK says of the records.
LEMMA FieldTypes ==
  ASSUME TypeOK
  PROVE  /\ purse \in Nat /\ lender \in Nat /\ bank \in Int /\ seats.row \in Nat
         /\ task.saw \in Nat /\ task.amount \in Nat /\ task.kind \in {"own", "house", "persona"}
         /\ task.staker \in Nat /\ task.player \in Nat
         /\ game.stack \in Nat /\ game.rest \in Nat /\ game.pot \in Nat /\ game.pending \in Nat
         /\ saved.stack \in Nat
         /\ \A s \in Sessions :
              /\ sess[s].buyIn \in Nat
              /\ stakes[s].status \in {"none", "active", "settled", "carry", "defaulted"}
              /\ stakes[s].kind \in {"house", "persona"}
              /\ stakes[s].principal \in Nat /\ stakes[s].carry \in Nat /\ stakes[s].owed \in Int
              /\ stakes[s].repaid \in Nat /\ stakes[s].left \in Nat
         /\ \A r \in Requests :
              /\ job[r].stake \in Sessions /\ job[r].saw \in Nat /\ job[r].carry \in Nat
<1>1. task \in [saw : Nat, amount : Nat, kind : {"own", "house", "persona"},
                staker : Nat, player : Nat]
  BY DEF TypeOK
<1>2. game \in Games /\ saved \in Games
  BY DEF TypeOK
<1>3. purse \in Nat /\ lender \in Nat /\ bank \in Int /\ seats.row \in Nat
  BY DEF TypeOK
<1>4. \A s \in Sessions : sess[s].buyIn \in Nat
  BY DEF TypeOK
<1>5. \A s \in Sessions :
        stakes[s] \in [status : {"none", "active", "settled", "carry", "defaulted"},
                       kind : {"house", "persona"}, principal : Nat, carry : Nat,
                       owed : Int, repaid : Nat, left : Nat]
  BY DEF TypeOK
<1>6. \A r \in Requests : job[r] \in [stake : Sessions, saw : Nat, carry : Nat]
  BY DEF TypeOK
<1> QED
  BY <1>1, <1>2, <1>3, <1>4, <1>5, <1>6 DEF Games

LEMMA BuildsCovered ==
  ASSUME CashInv, NEW amount \in BuyIns, Builds(amount),
         NEW spot \in {"debit", "stake"}, pc' = spot,
         NEW kind \in {"own", "house", "persona"}, NEW saw \in Nat,
         task' = [saw |-> saw, amount |-> amount, kind |-> kind, staker |-> 0, player |-> 0],
         spot = "debit" => amount <= saw,
         spot = "stake" => kind # "own" /\ (kind = "persona" => amount <= lender)
  PROVE  CashInv'
<1>1. amount \in Nat
  BY CashAssumption DEF BuyIns
<1>2. n' \in Sessions
  <2>1. n \in 0..MaxSessions
    BY DEF CashInv, TypeOK
  <2>2. n' = n + 1 /\ n < MaxSessions
    BY DEF Builds
  <2> QED
    BY <2>1, <2>2, CashAssumption DEF Sessions
<1>3. game' \in Games /\ saved' = game' /\ game'.pending = 0
  BY <1>1 DEF CashInv, TypeOK, Builds, NoGame, Games
<1>4. sess' \in [Sessions -> [state : {"missing", "active", "closed", "broken"}, buyIn : Nat,
                              takeHome : Nat, sponsorRepaid : Nat]]
  BY DEF CashInv, TypeOK, Builds, NoSession
<1>5. TypeOK'
  <2>1. /\ purse' = purse /\ lender' = lender /\ bank' = bank /\ seats' = seats /\ stakes' = stakes
        /\ busy' = busy /\ job' = job /\ crashes' = crashes /\ raises' = raises
        /\ n' \in 0..MaxSessions
    BY <1>2 DEF Builds, lobby, chips, Sessions
  <2>2. pc' \in {"idle"} \cup SitSpots \cup LeaveSpots
    BY DEF SitSpots
  <2>3. task' \in [saw : Nat, amount : Nat, kind : {"own", "house", "persona"},
                    staker : Nat, player : Nat]
    BY <1>1
  <2> QED
    BY <1>3, <1>4, <2>1, <2>2, <2>3 DEF CashInv, TypeOK
<1>6. Covered'
  BY <1>2 DEF CashInv, Covered, Builds, lobby, chips
<1> QED
  BY <1>5, <1>6 DEF CashInv

LEMMA SittingCovered == CashInv /\ Sitting => CashInv'
<1> SUFFICES ASSUME CashInv, Sitting PROVE CashInv'
  OBVIOUS
<1>1. ASSUME NEW amount \in BuyIns, SitBuilds(amount) PROVE CashInv'
  <2>1. purse \in Nat /\ amount <= purse
    BY <1>1, CashAssumption DEF SitBuilds, CashInv, TypeOK, BuyIns
  <2>2. task' = [saw |-> purse, amount |-> amount, kind |-> "own", staker |-> 0, player |-> 0]
    BY <1>1 DEF SitBuilds, NoTask
  <2> QED
    BY <1>1, <2>1, <2>2, BuildsCovered DEF SitBuilds
<1>2. ASSUME NEW amount \in BuyIns, NEW kind \in {"house", "persona"}, SponsorBuilds(kind, amount)
      PROVE  CashInv'
  <2>1. kind = "persona" => amount <= lender
    BY <1>2, CashAssumption DEF SponsorBuilds, CashInv, TypeOK, BuyIns
  <2>2. task' = [saw |-> 0, amount |-> amount, kind |-> kind, staker |-> 0, player |-> 0]
    BY <1>2 DEF SponsorBuilds, NoTask
  <2> QED
    BY <1>2, <2>1, <2>2, BuildsCovered DEF SponsorBuilds
<1>3. CASE SitDebits
  <2>1. purse' \in Nat /\ pc' = "record" /\ pc # "idle"
    BY <1>3, FieldTypes DEF SitDebits, CashInv, Covered
  <2>2. TypeOK'
    BY <1>3, <2>1 DEF SitDebits, CashInv, TypeOK, SitSpots, chips, table, lobby
  <2>3. Covered'
    BY <1>3, <2>1 DEF SitDebits, CashInv, Covered, lobby
  <2> QED
    BY <2>2, <2>3 DEF CashInv
<1>4. CASE SitRecords
  BY <1>4 DEF SitRecords, CashInv, TypeOK, Covered, Games, Sessions, SitSpots, LeaveSpots, chips, table, lobby, NoSession, NoTask
<1>5. CASE SponsorStakes
  <2>1. /\ task.amount \in Nat /\ task.kind \in {"house", "persona"}
        /\ pc' = "begin" /\ n \in Sessions
    BY <1>5, FieldTypes DEF SponsorStakes, CashInv, Covered
  <2>2. stakes' \in [Sessions -> [status : {"none", "active", "settled", "carry", "defaulted"},
                                  kind : {"house", "persona"}, principal : Nat, carry : Nat,
                                  owed : Int, repaid : Nat, left : Nat]]
    <3>1. task.amount \in Int
      BY <2>1
    <3> QED
      BY <1>5, <2>1, <3>1 DEF SponsorStakes, CashInv, TypeOK
  <2>3. TypeOK'
    BY <1>5, <2>1, <2>2 DEF SponsorStakes, CashInv, TypeOK, SitSpots, chips, lobby
  <2>4. Covered'
    BY <1>5, <2>1 DEF SponsorStakes, CashInv, Covered, chips, lobby
  <2> QED
    BY <2>3, <2>4 DEF CashInv
<1>6. CASE SponsorRecords
  BY <1>6 DEF SponsorRecords, CashInv, TypeOK, Covered, Games, Sessions, SitSpots, LeaveSpots, chips, table, lobby, NoSession
<1>7. CASE SponsorFunds
  <2>1. task.amount \in Nat /\ lender' \in Nat /\ bank' \in Int
    <3>1. /\ task.amount \in Nat /\ lender \in Nat /\ bank \in Int
          /\ task.kind \in {"own", "house", "persona"}
      BY FieldTypes DEF CashInv
    <3>2. task.kind # "own" /\ (task.kind = "persona" => task.amount <= lender)
      BY <1>7 DEF SponsorFunds, CashInv, Covered
    <3>3. CASE task.kind = "house"
      BY <1>7, <3>1, <3>3 DEF SponsorFunds
    <3>4. CASE task.kind = "persona"
      BY <1>7, <3>1, <3>2, <3>4 DEF SponsorFunds
    <3> QED
      BY <3>1, <3>2, <3>3, <3>4
  <2>2. TypeOK'
    BY <1>7, <2>1 DEF SponsorFunds, CashInv, TypeOK, lobby, NoTask
  <2>3. Covered'
    BY <1>7 DEF SponsorFunds, CashInv, Covered, lobby
  <2> QED
    BY <2>2, <2>3 DEF CashInv
<1> QED
  BY <1>1, <1>2, <1>3, <1>4, <1>5, <1>6, <1>7 DEF Sitting

\* A step at the table: the game and its row, the bankroll and the session's books.
LEMMA TableStep ==
  ASSUME CashInv, n \in Sessions,
         game' \in Games, saved' \in Games, saved'.pending = 0, purse' \in Nat,
         sess' \in [Sessions -> [state : {"missing", "active", "closed", "broken"}, buyIn : Nat,
                              takeHome : Nat, sponsorRepaid : Nat]],
         seats' \in SeatRows,
         UNCHANGED <<lender, bank, n, stakes, table, lobby, crashes, raises>>
  PROVE  CashInv'
<1>1. TypeOK'
  BY DEF CashInv, TypeOK, SeatRows, table, lobby
<1>2. Covered'
  BY DEF CashInv, Covered, table, lobby
<1> QED
  BY <1>1, <1>2 DEF CashInv

LEMMA RowTypes ==
  ASSUME NEW g \in Games
  PROVE  Row(g) \in Games /\ Row(g).pending = 0
BY DEF Games, Row

LEMMA WonTypes ==
  ASSUME CashInv, NEW won \in {0, game.pot}
  PROVE  /\ Won(won) \in Games
         /\ Won(won).stack \in Nat
<1>1. game \in Games
  BY DEF CashInv, TypeOK
<1>2. game.stack \in Nat /\ game.rest \in Nat /\ game.pot \in Nat
  BY <1>1 DEF Games
<1>3. game.stack + won \in Nat /\ game.rest + game.pot - won \in Nat
  BY <1>2
<1>4. Won(won) \in Games
  BY <1>1, <1>3 DEF Won, Games
<1> QED
  BY <1>4 DEF Games

\* What a hand leaves of the seats' row and account.
LEMMA RecountTypes ==
  ASSUME CashInv, NEW won \in {0, game.pot}, Recounts(won)
  PROVE  seats' \in SeatRows
<1>1. game \in Games /\ seats \in SeatRows
  BY DEF CashInv, TypeOK, SeatRows
<1>2. game.rest \in Nat /\ game.pot \in Nat /\ game.theirs \in Nat /\ seats.custody \in Int
  BY <1>1 DEF Games, SeatRows
<1>3. Won(won).rest \in Nat
  BY WonTypes DEF Games
<1>4. PICK moved \in 0..(IF won = 0 THEN game.pot - game.theirs ELSE game.theirs) :
        seats' = [seats EXCEPT !.row = Won(won).rest,
                               !.custody = IF won = 0 THEN @ + moved ELSE @ - moved]
  BY DEF Recounts
<1>5. moved \in Int
  BY <1>2, <1>4
<1>6. seats.custody + moved \in Int /\ seats.custody - moved \in Int
  BY <1>2, <1>5
<1>7. CASE won = 0
  BY <1>1, <1>3, <1>4, <1>6, <1>7 DEF SeatRows
<1>8. CASE won # 0
  BY <1>1, <1>3, <1>4, <1>6, <1>8 DEF SeatRows
<1> QED
  BY <1>7, <1>8

LEMMA BuysInTypes ==
  ASSUME CashInv, n \in Sessions, NEW amount \in Nat, BuysIn(amount)
  PROVE  sess' \in [Sessions -> [state : {"missing", "active", "closed", "broken"}, buyIn : Nat,
                              takeHome : Nat, sponsorRepaid : Nat]]
<1> DEFINE added == IF sess[n].state = "missing" THEN 0 ELSE amount
<1>1. sess[n].buyIn + added \in Nat
  BY FieldTypes DEF CashInv
<1>2. sess' = [sess EXCEPT ![n].buyIn = @ + added]
  BY DEF BuysIn
<1> HIDE DEF added
<1>3. sess \in [Sessions -> [state : {"missing", "active", "closed", "broken"}, buyIn : Nat,
                            takeHome : Nat, sponsorRepaid : Nat]]
  BY DEF CashInv, TypeOK
<1> QED
  BY <1>1, <1>2, <1>3

LEMMA PlayingCovered == CashInv /\ Playing => CashInv'
<1> SUFFICES ASSUME CashInv, Playing PROVE CashInv'
  OBVIOUS
<1>1. game \in Games /\ saved \in Games /\ saved.pending = 0 /\ purse \in Nat
      /\ seats \in SeatRows
  BY DEF CashInv, TypeOK, SeatRows
<1>2. /\ game.stack \in Nat /\ game.rest \in Nat /\ game.pot \in Nat /\ game.pending \in Nat
      /\ game.theirs \in Nat
      /\ Applied \in Nat /\ purse - Applied \in Nat
  BY <1>1 DEF Games, Applied
<1>3. sess \in [Sessions -> [state : {"missing", "active", "closed", "broken"}, buyIn : Nat,
                              takeHome : Nat, sponsorRepaid : Nat]]
  BY DEF CashInv, TypeOK
<1>4. ASSUME game.there \/ saved.there, game' \in Games, saved' = Row(game'), seats' \in SeatRows,
             UNCHANGED <<purse, lender, bank, n, sess, stakes, table, lobby, crashes, raises>>
      PROVE  CashInv'
  <2>1. n \in Sessions
    BY <1>4 DEF CashInv, Covered
  <2> QED
    BY <1>1, <1>3, <1>4, <2>1, TableStep, RowTypes
<1>5. ASSUME NEW own \in 0..MaxBet, NEW rest \in 0..MaxBet, Bet(own, rest) PROVE CashInv'
  <2>1. own \in Nat /\ rest \in Nat
    BY CashAssumption
  <2>2. game' \in Games
    <3>1. /\ game.stack - own \in Nat /\ game.rest - rest \in Nat
          /\ game.pot + own + rest \in Nat /\ game.theirs + rest \in Nat
      BY <1>2, <1>5, <2>1 DEF Bet
    <3> QED
      BY <1>1, <1>5, <3>1 DEF Bet, Games
  <2> QED
    BY <1>1, <1>4, <1>5, <2>2 DEF Bet, chips
<1>6. ASSUME NEW won \in {0, game.pot}, HandPauses(won) PROVE CashInv'
  <2>1. Won(won) \in Games
    BY WonTypes
  <2>2. game' \in Games
    BY <1>6, <2>1 DEF HandPauses, Games
  <2>3. seats' \in SeatRows
    BY <1>6, RecountTypes DEF HandPauses
  <2> QED
    BY <1>4, <1>6, <2>2, <2>3 DEF HandPauses, HandOver
<1>7. ASSUME NEW won \in {0, game.pot}, NextHand(won) PROVE CashInv'
  <2>1. game' \in Games
    <3>1. Won(won) \in Games /\ Won(won).stack + Applied \in Nat
      BY <1>2, WonTypes
    <3> QED
      BY <1>7, <3>1 DEF NextHand, Games
  <2>2. purse' \in Nat
    BY <1>2, <1>7 DEF NextHand
  <2>3. n \in Sessions
    BY <1>7 DEF CashInv, Covered, NextHand, HandOver
  <2>4. sess' \in [Sessions -> [state : {"missing", "active", "closed", "broken"}, buyIn : Nat,
                              takeHome : Nat, sponsorRepaid : Nat]]
    BY <1>2, <1>7, <2>3, BuysInTypes DEF NextHand
  <2>5. seats' \in SeatRows
    BY <1>7, RecountTypes DEF NextHand
  <2> QED
    BY <1>7, <2>1, <2>2, <2>3, <2>4, <2>5, TableStep, RowTypes DEF NextHand
<1>8. ASSUME NEW won \in {0, game.pot}, NextHandUnflushed(won) PROVE CashInv'
  <2>1. seats' \in SeatRows
    BY <1>8, RecountTypes DEF NextHandUnflushed
  <2> QED
    BY <1>4, <1>8, <2>1, WonTypes DEF NextHandUnflushed, HandOver
<1>9. CASE Resumes
  <2>1. game' \in Games
    BY <1>1, <1>9 DEF Resumes, Games
  <2> QED
    BY <1>1, <1>4, <1>9, <2>1 DEF Resumes, chips
<1>10. CASE ColdLoad
  <2>1. n \in Sessions
    BY <1>10 DEF CashInv, Covered, ColdLoad
  <2> QED
    BY <1>1, <1>3, <1>10, <2>1, TableStep DEF ColdLoad, chips
<1> QED
  BY <1>5, <1>6, <1>7, <1>8, <1>9, <1>10 DEF Playing

LEMMA BuyingCovered == CashInv /\ Buying => CashInv'
<1> SUFFICES ASSUME CashInv, NEW amount \in 1..MaxBuyIn,
                    TopUp(amount) \/ Rebuy(amount) \/ StageTopUp(amount) \/ BuyRaises(amount)
             PROVE  CashInv'
  BY DEF Buying
<1>1. game \in Games /\ saved \in Games /\ saved.pending = 0 /\ purse \in Nat /\ amount \in Nat
      /\ seats \in SeatRows
  <2>1. amount \in Nat
    OBVIOUS
  <2> QED
    BY <2>1 DEF CashInv, TypeOK, SeatRows
<1>2. game.stack \in Nat /\ game.pending \in Nat
  BY <1>1 DEF Games
<1>3. sess \in [Sessions -> [state : {"missing", "active", "closed", "broken"}, buyIn : Nat,
                              takeHome : Nat, sponsorRepaid : Nat]]
  BY DEF CashInv, TypeOK
<1>4. ASSUME Buys(amount), amount <= purse PROVE CashInv'
  <2>1. game' \in Games
    BY <1>1, <1>2, <1>4 DEF Buys, Games
  <2>2. purse' \in Nat
    BY <1>1, <1>4 DEF Buys
  <2>3. n \in Sessions
    BY <1>4 DEF CashInv, Covered, Buys
  <2>4. sess' \in [Sessions -> [state : {"missing", "active", "closed", "broken"}, buyIn : Nat,
                              takeHome : Nat, sponsorRepaid : Nat]]
    BY <1>1, <1>4, <2>3, BuysInTypes DEF Buys
  <2> QED
    BY <1>1, <1>4, <2>1, <2>2, <2>3, <2>4, TableStep DEF Buys
<1>5. CASE TopUp(amount)
  BY <1>1, <1>2, <1>4, <1>5 DEF TopUp
<1>6. CASE Rebuy(amount)
  BY <1>1, <1>4, <1>6 DEF Rebuy
<1>7. CASE StageTopUp(amount)
  <2>1. game' \in Games
    BY <1>1, <1>2, <1>7 DEF StageTopUp, Games
  <2>2. n \in Sessions
    BY <1>7 DEF CashInv, Covered, StageTopUp
  <2> QED
    BY <1>1, <1>3, <1>7, <2>1, <2>2, TableStep DEF StageTopUp, chips
<1>8. CASE BuyRaises(amount)
  <2>1. game' \in Games
    BY <1>1, <1>2, <1>8 DEF BuyRaises, Games
  <2>2. raises' \in 0..MaxRaises
    <3>1. raises \in 0..MaxRaises
      BY DEF CashInv, TypeOK
    <3> QED
      BY <1>8, <3>1, CashAssumption DEF BuyRaises
  <2>3. TypeOK'
    BY <1>8, <2>1, <2>2 DEF BuyRaises, CashInv, TypeOK, chips, table, lobby
  <2>4. Covered'
    BY <1>8 DEF BuyRaises, CashInv, Covered, chips, table, lobby
  <2> QED
    BY <2>3, <2>4 DEF CashInv
<1> QED
  BY <1>5, <1>6, <1>7, <1>8

StakeRows == [status : {"none", "active", "settled", "carry", "defaulted"},
           kind : {"house", "persona"}, principal : Nat, carry : Nat,
           owed : Int, repaid : Nat, left : Nat]

LEMMA SettledTypes ==
  ASSUME NEW stake \in StakeRows, NEW left \in Nat,
         NEW staker \in StakerTotals(stake.principal, left)
  PROVE  /\ SettledStake(stake, left, staker) \in StakeRows
         /\ staker \in Nat /\ left - staker \in Nat
<1> DEFINE carry == IF left < stake.principal /\ stake.kind = "persona"
                    THEN stake.principal - staker ELSE 0
<1>1. stake.principal \in Nat
  BY DEF StakeRows
<1>2. staker \in Nat /\ staker <= left
  BY <1>1, StakerBound
<1>3. carry \in Nat /\ carry \in Int
  BY <1>1, <1>2
<1>4. SettledStake(stake, left, staker)
        = [stake EXCEPT !.status = IF carry > 0 THEN "carry" ELSE "settled",
                        !.carry = carry, !.owed = carry, !.left = left]
  BY DEF SettledStake
<1> HIDE DEF carry
<1>5. SettledStake(stake, left, staker) \in StakeRows
  BY <1>3, <1>4 DEF StakeRows
<1> QED
  BY <1>2, <1>5

LEMMA LeavingCovered == CashInv /\ Leaving => CashInv'
<1> SUFFICES ASSUME CashInv, Leaving PROVE CashInv'
  OBVIOUS
<1>1. game \in Games /\ saved \in Games /\ saved.pending = 0 /\ purse \in Nat
  BY DEF CashInv, TypeOK
<1>2. sess \in [Sessions -> [state : {"missing", "active", "closed", "broken"}, buyIn : Nat,
                              takeHome : Nat, sponsorRepaid : Nat]]
  BY DEF CashInv, TypeOK
<1>3. stakes \in [Sessions -> StakeRows]
  BY DEF CashInv, TypeOK, StakeRows
<1>4. CASE LeaveSettles
  <2> DEFINE g == IF game.there THEN game ELSE saved
  <2>1. n \in Sessions
    <3>1. n \in 0..MaxSessions
      BY DEF CashInv, TypeOK
    <3>2. n > 0
      BY <1>4 DEF LeaveSettles, Blocking
    <3> QED
      BY <3>1, <3>2, CashAssumption DEF Sessions
  <2>2. g \in Games /\ g.stack \in Nat
    BY <1>1 DEF Games
  <2>3. stakes' \in [Sessions -> StakeRows] /\ pc' \in {"settle", "credit"}
        /\ task' \in [saw : Nat, amount : Nat, kind : {"own", "house", "persona"},
                      staker : Nat, player : Nat]
    <3>1. CASE ActiveStake
      <4>1. PICK staker \in StakerTotals(stakes[n].principal, g.stack) :
              /\ stakes' = [stakes EXCEPT ![n] = SettledStake(@, g.stack, staker)]
              /\ task' = [NoTask EXCEPT !.saw = purse, !.kind = stakes[n].kind,
                                        !.staker = staker, !.player = g.stack - staker]
              /\ pc' = "settle"
        BY <1>4, <3>1 DEF LeaveSettles
      <4>2. /\ SettledStake(stakes[n], g.stack, staker) \in StakeRows
            /\ staker \in Nat /\ g.stack - staker \in Nat
            /\ stakes[n].kind \in {"house", "persona"}
        BY <1>3, <2>1, <2>2, SettledTypes DEF StakeRows
      <4> HIDE DEF g
      <4>3. stakes' \in [Sessions -> StakeRows]
        BY <1>3, <4>1, <4>2
      <4> QED
        BY <1>1, <4>1, <4>2, <4>3 DEF NoTask
    <3>2. CASE ~ActiveStake
      <4>1. /\ task' = [NoTask EXCEPT !.saw = purse, !.player = g.stack]
            /\ pc' = "credit" /\ stakes' = stakes
        BY <1>4, <3>2 DEF LeaveSettles
      <4> HIDE DEF g
      <4> QED
        BY <1>1, <1>3, <2>2, <4>1 DEF NoTask
    <3> QED
      BY <3>1, <3>2
  <2>4. game' \in Games
    BY <1>4, <2>2 DEF LeaveSettles
  <2>5. TypeOK'
    BY <1>4, <2>3, <2>4 DEF LeaveSettles, CashInv, TypeOK, StakeRows, LeaveSpots, chips, lobby
  <2>6. Covered'
    BY <1>4, <2>1, <2>3 DEF LeaveSettles, CashInv, Covered, chips, lobby
  <2> QED
    BY <2>5, <2>6 DEF CashInv
<1>5. CASE LeavePaysStaker
  <2>1. /\ task.staker \in Nat /\ bank \in Int /\ lender \in Nat
        /\ \A s \in Sessions : stakes[s].repaid \in Nat
    BY FieldTypes DEF CashInv
  <2>2. n \in Sessions
    BY <1>5 DEF LeavePaysStaker, CashInv, Covered
  <2>3. stakes[n].repaid + task.staker \in Nat
    BY <2>1, <2>2
  <2>4. stakes' \in [Sessions -> StakeRows]
    BY <1>3, <1>5, <2>2, <2>3 DEF LeavePaysStaker, StakeRows
  <2>5. bank' \in Int /\ lender' \in Nat
    BY <1>5, <2>1 DEF LeavePaysStaker
  <2>6. TypeOK'
    BY <1>5, <2>4, <2>5 DEF LeavePaysStaker, CashInv, TypeOK, StakeRows, LeaveSpots, lobby
  <2>7. Covered'
    BY <1>5 DEF LeavePaysStaker, CashInv, Covered, lobby
  <2> QED
    BY <2>6, <2>7 DEF CashInv
<1>6. CASE LeaveCredits
  <2>1. purse' \in Nat
    BY <1>6, FieldTypes DEF LeaveCredits, CashInv
  <2>2. TypeOK'
    BY <1>6, <2>1 DEF LeaveCredits, CashInv, TypeOK, LeaveSpots, lobby
  <2>3. Covered'
    BY <1>6 DEF LeaveCredits, CashInv, Covered, lobby
  <2> QED
    BY <2>2, <2>3 DEF CashInv
<1>7. CASE LeaveFinalises
  <2>1. task.player \in Nat /\ task.staker \in Nat
    BY FieldTypes DEF CashInv
  <2>2. sess' \in [Sessions -> [state : {"missing", "active", "closed", "broken"}, buyIn : Nat,
                              takeHome : Nat, sponsorRepaid : Nat]]
    BY <1>2, <1>7, <2>1 DEF LeaveFinalises
  <2>3. TypeOK'
    BY <1>7, <2>2 DEF LeaveFinalises, CashInv, TypeOK, LeaveSpots, chips, lobby
  <2>4. Covered'
    BY <1>7 DEF LeaveFinalises, CashInv, Covered, chips, lobby
  <2> QED
    BY <2>3, <2>4 DEF CashInv
<1>8. CASE LeaveRemoves
  <2>1. seats' \in SeatRows
    <3>1. seats.custody \in Int /\ seats.cashed \in Nat /\ game.rest \in Nat
      BY FieldTypes DEF CashInv, TypeOK
    <3>2. CashedOut \in Nat
      BY <3>1 DEF CashedOut
    <3> QED
      BY <1>8, <3>1, <3>2 DEF LeaveRemoves, SeatRows
  <2>2. TypeOK'
    BY <1>8, <2>1 DEF LeaveRemoves, CashInv, TypeOK, SeatRows, lobby, NoGame, Games, NoTask
  <2>3. Covered'
    BY <1>8 DEF LeaveRemoves, CashInv, Covered, lobby, NoGame
  <2> QED
    BY <2>2, <2>3 DEF CashInv
<1>9. CASE LeaveRaises
  <2>1. raises' \in 0..MaxRaises
    <3>1. raises \in 0..MaxRaises
      BY DEF CashInv, TypeOK
    <3> QED
      BY <1>9, <3>1, CashAssumption DEF LeaveRaises
  <2>2. sess' \in [Sessions -> [state : {"missing", "active", "closed", "broken"}, buyIn : Nat,
                              takeHome : Nat, sponsorRepaid : Nat]]
    BY <1>2, <1>9 DEF LeaveRaises
  <2>3. TypeOK'
    BY <1>9, <2>1, <2>2 DEF LeaveRaises, CashInv, TypeOK, chips, lobby, NoTask
  <2>4. Covered'
    BY <1>9 DEF LeaveRaises, CashInv, Covered, chips, lobby
  <2> QED
    BY <2>3, <2>4 DEF CashInv
<1> QED
  BY <1>4, <1>5, <1>6, <1>7, <1>8, <1>9 DEF Leaving

\* A step of a request about a carry: stakes, the bankrolls and the request.
LEMMA LobbyStep ==
  ASSUME CashInv, NEW r \in Requests,
         stakes' \in [Sessions -> StakeRows], purse' \in Nat, lender' \in Nat, lender <= lender',
         NEW spot \in {"idle", "claim", "debit", "credit", "close", "zero", "mark", "writeoff"},
         Goes(r, spot),
         NEW seen \in [stake : Sessions, saw : Nat, carry : Nat],
         job' = [job EXCEPT ![r] = seen],
         spot \in {"claim", "debit"} => seen.carry <= seen.saw,
         UNCHANGED <<bank, seats, game, saved, n, sess, table, crashes, raises>>
  PROVE  CashInv'
<1>1. TypeOK'
  <2>1. /\ busy' \in [Requests -> {"idle", "claim", "debit", "credit", "close", "zero", "mark",
                                  "writeoff"}]
        /\ job' \in [Requests -> [stake : Sessions, saw : Nat, carry : Nat]]
    BY DEF CashInv, TypeOK, Goes
  <2> QED
    BY <2>1 DEF CashInv, TypeOK, StakeRows, table
<1>2. Covered'
  <2>1. \A q \in Requests : busy'[q] \in {"claim", "debit"} => job'[q].carry <= job'[q].saw
    BY DEF CashInv, TypeOK, Covered, Goes
  <2>2. task.amount \in Int /\ lender \in Int /\ lender' \in Int
    <3>1. task.amount \in Nat /\ lender \in Nat /\ lender' \in Nat
      BY FieldTypes DEF CashInv
    <3> QED
      BY <3>1
  <2>3. task.amount <= lender => task.amount <= lender'
    BY ONLY <2>2, lender <= lender'
  <2> QED
    BY <2>1, <2>3 DEF CashInv, Covered, table
<1> QED
  BY <1>1, <1>2 DEF CashInv

LEMMA ResolvingCovered == CashInv /\ Resolving => CashInv'
<1> SUFFICES ASSUME CashInv, Resolving PROVE CashInv'
  OBVIOUS
<1>1. stakes \in [Sessions -> StakeRows] /\ purse \in Nat /\ lender \in Nat /\ lender <= lender
  BY DEF CashInv, TypeOK, StakeRows
<1>2. \A r \in Requests : /\ job[r] \in [stake : Sessions, saw : Nat, carry : Nat]
                          /\ job[r].stake \in Sessions /\ job[r].saw \in Nat
                          /\ job[r].carry \in Nat /\ job[r].carry \in Int
                          /\ job = [job EXCEPT ![r] = job[r]]
  BY FieldTypes DEF CashInv, TypeOK
<1>3. NoJob \in [stake : Sessions, saw : Nat, carry : Nat]
  BY CashAssumption DEF NoJob, Sessions
<1>4. \A s \in Sessions : /\ stakes[s].carry \in Nat /\ stakes[s].repaid \in Nat
                          /\ stakes[s].owed \in Int
  BY FieldTypes DEF CashInv
<1>5. ASSUME NEW r \in Requests, NEW s \in Sessions, NEW spot \in {"claim", "zero"}, Reads(r, s, spot),
             spot = "claim" => stakes[s].carry <= purse
      PROVE  CashInv'
  <2> DEFINE seen == [stake |-> s, saw |-> purse, carry |-> stakes[s].carry]
  <2>1. seen \in [stake : Sessions, saw : Nat, carry : Nat]
        /\ (spot \in {"claim", "debit"} => seen.carry <= seen.saw)
    BY <1>1, <1>4, <1>5
  <2>2. job' = [job EXCEPT ![r] = seen]
    BY <1>5 DEF Reads
  <2> HIDE DEF seen
  <2>3. /\ stakes' \in [Sessions -> StakeRows] /\ purse' \in Nat
        /\ lender' \in Nat /\ lender <= lender'
        /\ Goes(r, spot)
        /\ UNCHANGED <<bank, seats, game, saved, n, sess, table, crashes, raises>>
    BY <1>1, <1>5 DEF Reads, chips
  <2>4. spot \in {"idle", "claim", "debit", "credit", "close", "zero", "mark", "writeoff"}
    BY <1>5
  <2> QED
    BY ONLY CashInv, r \in Requests, <2>1, <2>2, <2>3, <2>4, LobbyStep
\* The request goes on with what it read, or ends, having written a stake.
<1>6. ASSUME NEW r \in Requests, stakes' \in [Sessions -> StakeRows],
             NEW spot \in {"idle", "mark", "writeoff"}, OnlyStakes(r, spot)
      PROVE  CashInv'
  <2> DEFINE seen == IF spot = "idle" THEN NoJob ELSE job[r]
  <2>1. seen \in [stake : Sessions, saw : Nat, carry : Nat] /\ job' = [job EXCEPT ![r] = seen]
    BY <1>2, <1>3, <1>6 DEF OnlyStakes
  <2> HIDE DEF seen
  <2>2. /\ stakes' \in [Sessions -> StakeRows] /\ purse' \in Nat
        /\ lender' \in Nat /\ lender <= lender'
        /\ Goes(r, spot)
        /\ UNCHANGED <<bank, seats, game, saved, n, sess, table, crashes, raises>>
    BY <1>1, <1>6 DEF OnlyStakes, chips
  <2>3. /\ spot \in {"idle", "claim", "debit", "credit", "close", "zero", "mark", "writeoff"}
        /\ spot \in {"claim", "debit"} => seen.carry <= seen.saw
    BY <1>6
  <2> QED
    BY ONLY CashInv, r \in Requests, <2>1, <2>2, <2>3, LobbyStep
<1>7. ASSUME NEW r \in Payoffs, NEW s \in Sessions, PayoffReads(r, s) PROVE CashInv'
  BY <1>1, <1>4, <1>5, <1>7 DEF PayoffReads, Requests
<1>8. ASSUME NEW r \in Payoffs, PayoffClaims(r) PROVE CashInv'
  <2>1. r \in Requests
    BY DEF Requests
  <2>2. CASE stakes[job[r].stake].status = "carry"
    <3>1. stakes' \in [Sessions -> StakeRows]
      BY <1>1, <1>2, <1>8, <2>1, <2>2 DEF PayoffClaims, StakeRows
    <3>2. job[r].carry <= job[r].saw
      BY <1>8, <2>1 DEF PayoffClaims, CashInv, Covered
    <3>3. job' = [job EXCEPT ![r] = job[r]] /\ Goes(r, "debit")
          /\ UNCHANGED <<chips, game, saved, n, sess, table, crashes, raises>>
      BY <1>2, <1>8, <2>1, <2>2 DEF PayoffClaims, OnlyStakes
    <3> QED
      BY <1>1, <1>2, <2>1, <3>1, <3>2, <3>3, LobbyStep DEF chips
  <2>3. CASE stakes[job[r].stake].status # "carry"
    BY <1>1, <1>6, <1>8, <2>1, <2>3 DEF PayoffClaims
  <2> QED
    BY <2>2, <2>3
<1>9. ASSUME NEW r \in Payoffs, PayoffDebits(r) PROVE CashInv'
  <2>1. r \in Requests
    BY DEF Requests
  <2>2. job[r].carry <= job[r].saw
    BY <1>9, <2>1 DEF PayoffDebits, CashInv, Covered
  <2>3. purse' \in Nat
    BY <1>2, <1>9, <2>1, <2>2 DEF PayoffDebits
  <2>4. job' = [job EXCEPT ![r] = job[r]]
    BY <1>2, <1>9, <2>1 DEF PayoffDebits
  <2> QED
    BY <1>1, <1>2, <1>9, <2>1, <2>3, <2>4, LobbyStep DEF PayoffDebits
<1>10. ASSUME NEW r \in Payoffs, PayoffCredits(r) PROVE CashInv'
  <2>1. r \in Requests
    BY DEF Requests
  <2>2. lender' \in Nat /\ lender <= lender'
    BY <1>1, <1>2, <1>10, <2>1 DEF PayoffCredits
  <2>3. stakes[job[r].stake].repaid + job[r].carry \in Nat /\ job[r].stake \in Sessions
    BY <1>2, <1>4, <2>1
  <2>4. stakes' \in [Sessions -> StakeRows]
    BY <1>1, <1>10, <2>3 DEF PayoffCredits, StakeRows
  <2>5. job' = [job EXCEPT ![r] = job[r]]
    BY <1>2, <1>10, <2>1 DEF PayoffCredits
  <2> QED
    BY <1>1, <1>2, <1>10, <2>1, <2>2, <2>4, <2>5, LobbyStep DEF PayoffCredits
<1>11. ASSUME NEW r \in Payoffs, PayoffCloses(r) PROVE CashInv'
  <2>1. r \in Requests
    BY DEF Requests
  <2>2. stakes[job[r].stake].owed - job[r].carry \in Int /\ job[r].stake \in Sessions
    BY <1>2, <1>4, <2>1
  <2>3. stakes' \in [Sessions -> StakeRows]
    BY <1>1, <1>11, <2>2 DEF PayoffCloses, StakeRows
  <2> QED
    BY <1>6, <1>11, <2>1, <2>3 DEF PayoffCloses
<1>12. ASSUME NEW r \in Resolvers, NEW s \in Sessions, ResolveReads(r, s) PROVE CashInv'
  BY <1>5, <1>12 DEF ResolveReads, Requests
<1>13. ASSUME NEW r \in Resolvers, ResolveZeroes(r) \/ DefaultMarks(r) \/ DefaultWritesOff(r) \/ ForgivenessMarks(r)
       PROVE  CashInv'
  <2>1. r \in Requests
    BY DEF Requests
  <2>2. stakes[job[r].stake].owed - job[r].carry \in Int /\ job[r].stake \in Sessions
    BY <1>2, <1>4, <2>1
  <2>3. CASE ResolveZeroes(r)
    <3>1. stakes' \in [Sessions -> StakeRows]
      BY <1>1, <2>2, <2>3 DEF ResolveZeroes, StakeRows
    <3> QED
      BY <1>6, <2>1, <2>3, <3>1 DEF ResolveZeroes
  <2>4. CASE DefaultMarks(r)
    <3>1. stakes' \in [Sessions -> StakeRows]
      BY <1>1, <2>2, <2>4 DEF DefaultMarks, StakeRows
    <3> QED
      BY <1>6, <2>1, <2>4, <3>1 DEF DefaultMarks
  <2>5. CASE DefaultWritesOff(r)
    <3>1. stakes' \in [Sessions -> StakeRows]
      BY <1>1, <2>2, <2>5 DEF DefaultWritesOff, StakeRows
    <3> QED
      BY <1>6, <2>1, <2>5, <3>1 DEF DefaultWritesOff
  <2>6. CASE ForgivenessMarks(r)
    <3>1. stakes' \in [Sessions -> StakeRows]
      BY <1>1, <2>2, <2>6 DEF ForgivenessMarks, StakeRows
    <3> QED
      BY <1>6, <2>1, <2>6, <3>1 DEF ForgivenessMarks
  <2> QED
    BY <1>13, <2>3, <2>4, <2>5, <2>6
<1> QED
  BY <1>7, <1>8, <1>9, <1>10, <1>11, <1>12, <1>13 DEF Resolving

LEMMA CrashCovered == CashInv /\ Crash => CashInv'
<1> SUFFICES ASSUME CashInv, Crash PROVE CashInv'
  OBVIOUS
<1>1. crashes' \in 0..MaxCrashes
  <2>1. crashes \in 0..MaxCrashes
    BY DEF CashInv, TypeOK
  <2> QED
    BY <2>1, CashAssumption DEF Crash
<1>2. /\ job' \in [Requests -> [stake : Sessions, saw : Nat, carry : Nat]]
      /\ busy' \in [Requests -> {"idle", "claim", "debit", "credit", "close", "zero", "mark", "writeoff"}]
      /\ game' \in Games
  BY CashAssumption DEF Crash, NoJob, Sessions, NoGame, Games
<1>3. TypeOK'
  BY <1>1, <1>2 DEF Crash, CashInv, TypeOK, chips, NoTask
<1>4. Covered'
  BY DEF Crash, CashInv, Covered, NoGame
<1> QED
  BY <1>3, <1>4 DEF CashInv

LEMMA CashNext == CashInv /\ [Next]_vars => CashInv'
<1> SUFFICES ASSUME CashInv, [Next]_vars PROVE CashInv'
  OBVIOUS
<1>1. CASE UNCHANGED vars
  <2>1. TypeOK'
    BY <1>1 DEF CashInv, TypeOK, vars, chips, table, lobby
  <2>2. Covered'
    BY <1>1 DEF CashInv, Covered, vars, chips, table, lobby
  <2> QED
    BY <2>1, <2>2 DEF CashInv
<1> QED
  BY <1>1, SittingCovered, PlayingCovered, BuyingCovered, LeavingCovered, ResolvingCovered,
     CrashCovered DEF Next

LEMMA CashInvariant == Spec => []CashInv
BY CashInit, CashNext, PTL DEF Spec

\* For any purses, buy-ins, cut, numbers of sessions, of requests and of faults, no
\* bankroll, stack, pot or debt goes below zero: sit, rebuy, top-up, its flush, leave
\* and payoff pay only what they have looked at.
THEOREM CashTypeCorrect == Spec => []TypeOK
<1>1. CashInv => TypeOK
  BY DEF CashInv
<1> QED
  BY <1>1, CashInvariant, PTL

-----------------------------------------------------------------------------
(* No staker is overpaid.  With what a leave has still to pay it (Has), a   *)
(* staker stays within what the terms give it of the stack; a carry is what *)
(* the terms give it beyond that, and one payoff at most is moving it.      *)

Has(s) == stakes[s].repaid + IF pc = "settle" /\ n = s THEN task.staker ELSE 0

Paying(r) == busy[r] \in {"debit", "credit"}

WithinTerms(s) ==
    IF Short(stakes[s])
    THEN /\ Has(s) <= stakes[s].principal
         /\ stakes[s].carry <= stakes[s].principal - stakes[s].left
         /\ stakes[s].status = "carry" => Has(s) <= stakes[s].left
    ELSE /\ stakes[s].status # "carry"
         /\ \E due \in StakerTotals(stakes[s].principal, stakes[s].left) : Has(s) <= due

JobKnows(r) ==
    LET s == job[r].stake
    IN  /\ stakes[s].status \in Over /\ Short(stakes[s])
        /\ job[r].carry <= stakes[s].principal - stakes[s].left
        /\ Paying(r) => stakes[s].status # "carry" /\ Has(s) <= stakes[s].left

Paid ==
    /\ \A s \in Sessions : s > n \/ (s = n /\ pc = "stake") => stakes[s].status = "none"
    /\ \A s \in Sessions : stakes[s].status \in {"none", "active"} => stakes[s].repaid = 0
    /\ pc = "settle" => stakes[n].status \in Over
    /\ \A s \in Sessions : stakes[s].status \in Over => WithinTerms(s)
    /\ \A r \in Requests : busy[r] # "idle" => JobKnows(r)
    /\ \A r, q \in Requests : Paying(r) /\ Paying(q) /\ job[r].stake = job[q].stake => r = q

LEMMA PaidInit == Init => Paid
BY DEF Init, Paid, NoStake, Over, Paying

\* A step that writes no stake, starts no leave and no request about a carry.
LEMMA PaidFrame ==
  ASSUME CashInv, CashInv', Paid,
         stakes' = stakes,
         \A r \in Requests : busy'[r] # "idle" => busy'[r] = busy[r] /\ job'[r] = job[r],
         pc' = "settle" => pc = "settle" /\ n' = n /\ task' = task,
         n' = n + 1 \/ (n' = n /\ (pc' = "stake" => pc = "stake"))
  PROVE  Paid'
<1>1. \A s \in Sessions : Has(s) \in Nat /\ Has(s)' \in Nat /\ Has(s)' <= Has(s)
  <2> SUFFICES ASSUME NEW s \in Sessions
               PROVE  Has(s) \in Nat /\ Has(s)' \in Nat /\ Has(s)' <= Has(s)
    OBVIOUS
  <2>1. stakes[s].repaid \in Nat /\ task.staker \in Nat
    BY FieldTypes DEF CashInv
  <2> QED
    BY <2>1 DEF Has
<1>2. \A s \in Sessions : stakes[s].left \in Nat /\ stakes[s].principal \in Nat
  BY FieldTypes DEF CashInv
<1>3. \A s \in Sessions : s > n' \/ (s = n' /\ pc' = "stake") => stakes'[s].status = "none"
  <2>1. n \in Int /\ n' \in Int /\ \A s \in Sessions : s \in Int
    BY DEF CashInv, TypeOK, Sessions
  <2>2. \A s \in Sessions : s > n' \/ (s = n' /\ pc' = "stake") => s > n \/ (s = n /\ pc = "stake")
    BY <2>1
  <2> QED
    BY <2>2 DEF Paid
<1>4. \A s \in Sessions : WithinTerms(s) => WithinTerms(s)'
  <2> SUFFICES ASSUME NEW s \in Sessions, WithinTerms(s) PROVE WithinTerms(s)'
    OBVIOUS
  <2>1. CASE Short(stakes[s])
    BY <1>1, <1>2, <2>1 DEF WithinTerms
  <2>2. CASE ~Short(stakes[s])
    <3>1. PICK due \in StakerTotals(stakes[s].principal, stakes[s].left) : Has(s) <= due
      BY <2>2 DEF WithinTerms
    <3>2. due \in Nat
      BY <1>2, StakerBound
    <3>3. Has(s)' <= due
      BY <1>1, <3>1, <3>2
    <3> QED
      BY <2>2, <3>1, <3>3 DEF WithinTerms
  <2> QED
    BY <2>1, <2>2
<1>5. \A r \in Requests : busy'[r] # "idle" => JobKnows(r)'
  <2> SUFFICES ASSUME NEW r \in Requests, busy'[r] # "idle" PROVE JobKnows(r)'
    OBVIOUS
  <2>1. JobKnows(r) /\ busy'[r] = busy[r] /\ job'[r] = job[r] /\ job[r].stake \in Sessions
    BY FieldTypes DEF Paid, CashInv
  <2> QED
    BY <1>1, <1>2, <2>1 DEF JobKnows, Paying
<1>6. \A r \in Requests : Paying(r)' => Paying(r) /\ job'[r] = job[r]
  BY DEF Paying
<1> QED
  BY <1>3, <1>4, <1>5, <1>6 DEF Paid

LEMMA OtherPaid ==
  ASSUME CashInv, CashInv', Paid,
         Sitting \/ Playing \/ Buying \/ LeaveCredits \/ LeaveFinalises \/ LeaveRemoves \/ LeaveRaises
           \/ Crash \/ UNCHANGED vars,
         ~SponsorStakes
  PROVE  Paid'
<1>1. ASSUME Sitting PROVE Paid'
  <2>1. ASSUME NEW amount \in BuyIns, Builds(amount), pc' \in {"debit", "stake"} PROVE Paid'
    <3>1. stakes' = stakes /\ busy' = busy /\ job' = job /\ n' = n + 1
      BY <2>1 DEF Builds, lobby
    <3>2. \A r \in Requests : busy'[r] # "idle" => busy'[r] = busy[r] /\ job'[r] = job[r]
      BY ONLY <3>1
    <3>3. pc' # "settle"
      BY <2>1
    <3> QED
      BY ONLY CashInv, CashInv', Paid, <3>1, <3>2, <3>3, PaidFrame
  <2>2. CASE SitDebits \/ SitRecords \/ SponsorRecords \/ SponsorFunds
    <3>1. /\ stakes' = stakes /\ busy' = busy /\ job' = job /\ n' = n
          /\ pc' \in {"record", "idle", "begin", "fund"}
      BY <2>2 DEF SitDebits, SitRecords, SponsorRecords, SponsorFunds, lobby
    <3> QED
      BY <3>1, PaidFrame
  <2> QED
    BY <1>1, <2>1, <2>2 DEF Sitting, SitBuilds, SponsorBuilds
<1>2. ASSUME Playing PROVE Paid'
  BY <1>2, PaidFrame DEF Playing, Bet, HandPauses, NextHand, NextHandUnflushed, Resumes, ColdLoad,
     table, lobby
<1>3. ASSUME Buying PROVE Paid'
  BY <1>3, PaidFrame DEF Buying, TopUp, Rebuy, Buys, StageTopUp, BuyRaises, table, lobby
<1>4. CASE LeaveCredits \/ LeaveFinalises \/ LeaveRemoves \/ LeaveRaises
  BY <1>4, PaidFrame DEF LeaveCredits, LeaveFinalises, LeaveRemoves, LeaveRaises, lobby
<1>5. CASE Crash
  BY <1>5, PaidFrame DEF Crash
<1>6. CASE UNCHANGED vars
  BY <1>6, PaidFrame DEF vars, table, lobby
<1> QED
  BY <1>1, <1>2, <1>3, <1>4, <1>5, <1>6

\* A step that writes the stake s alone: what must hold of it, and of who knows it.
LEMMA PaidWrite ==
  ASSUME CashInv, CashInv', Paid, NEW s \in Sessions, n' = n,
         \A u \in Sessions \ {s} : stakes'[u] = stakes[u] /\ Has(u)' = Has(u),
         s > n \/ (s = n /\ pc' = "stake") => stakes'[s].status = "none",
         pc' = "stake" => pc = "stake",
         stakes'[s].status \in {"none", "active"} => stakes'[s].repaid = 0,
         pc' = "settle" => stakes'[n].status \in Over,
         stakes'[s].status \in Over => WithinTerms(s)',
         \A r \in Requests : busy'[r] # "idle" /\ job'[r].stake # s =>
             busy[r] # "idle" /\ job'[r] = job[r] /\ (Paying(r)' => Paying(r)),
         \A r \in Requests : busy'[r] # "idle" /\ job'[r].stake = s => JobKnows(r)',
         \A r, q \in Requests : Paying(r)' /\ Paying(q)' /\ job'[r].stake = s /\ job'[q].stake = s => r = q
  PROVE  Paid'
<1>1. \A u \in Sessions : u > n' \/ (u = n' /\ pc' = "stake") => stakes'[u].status = "none"
  BY DEF Paid
<1>2. \A u \in Sessions : stakes'[u].status \in {"none", "active"} => stakes'[u].repaid = 0
  BY DEF Paid
<1>3. \A u \in Sessions : stakes'[u].status \in Over => WithinTerms(u)'
  <2> SUFFICES ASSUME NEW u \in Sessions \ {s}, stakes'[u].status \in Over PROVE WithinTerms(u)'
    OBVIOUS
  <2>1. WithinTerms(u) /\ stakes'[u] = stakes[u] /\ Has(u)' = Has(u)
    BY DEF Paid
  <2> QED
    BY <2>1 DEF WithinTerms
<1>4. \A r \in Requests : busy'[r] # "idle" => JobKnows(r)'
  <2> SUFFICES ASSUME NEW r \in Requests, busy'[r] # "idle", job'[r].stake # s PROVE JobKnows(r)'
    OBVIOUS
  <2>1. job'[r] = job[r] /\ JobKnows(r) /\ (Paying(r)' => Paying(r)) /\ job[r].stake \in Sessions
    BY FieldTypes DEF Paid, CashInv
  <2>2. stakes'[job[r].stake] = stakes[job[r].stake] /\ Has(job[r].stake)' = Has(job[r].stake)
    BY <2>1
  <2> DEFINE u == job[r].stake
  <2>3. /\ stakes'[u].status \in Over /\ Short(stakes'[u])
        /\ job'[r].carry <= stakes'[u].principal - stakes'[u].left
        /\ Paying(r)' => stakes'[u].status # "carry" /\ Has(u)' <= stakes'[u].left
    BY <2>1, <2>2 DEF JobKnows
  <2> QED
    BY <2>1, <2>3 DEF JobKnows, Has
<1>5. \A r, q \in Requests : Paying(r)' /\ Paying(q)' /\ job'[r].stake = job'[q].stake => r = q
  <2> SUFFICES ASSUME NEW r \in Requests, NEW q \in Requests, Paying(r)', Paying(q)',
                      job'[r].stake = job'[q].stake, job'[r].stake # s
               PROVE  r = q
    OBVIOUS
  <2>1. busy'[r] # "idle" /\ busy'[q] # "idle"
    BY DEF Paying
  <2>2. job'[r] = job[r] /\ job'[q] = job[q] /\ Paying(r) /\ Paying(q)
    BY <2>1
  <2> QED
    BY <2>2 DEF Paid
<1>6. pc' = "settle" => stakes'[n'].status \in Over
  OBVIOUS
<1> QED
  BY <1>1, <1>2, <1>3, <1>4, <1>5, <1>6 DEF Paid

LEMMA SponsorStakesPaid == CashInv /\ CashInv' /\ Paid /\ SponsorStakes => Paid'
<1> SUFFICES ASSUME CashInv, CashInv', Paid, SponsorStakes PROVE Paid'
  OBVIOUS
<1> PICK s \in Sessions : s = n
  BY DEF SponsorStakes, CashInv, Covered
<1>1. s = n /\ stakes[s].status = "none"
  BY DEF SponsorStakes, Paid
<1>2. stakes'[s].status = "active" /\ stakes'[s].repaid = 0
  BY <1>1 DEF SponsorStakes, CashInv, TypeOK
<1>3. /\ pc = "stake" /\ pc' = "begin" /\ n' = n /\ task' = task /\ busy' = busy /\ job' = job
      /\ \A u \in Sessions \ {s} : stakes'[u] = stakes[u]
  BY <1>1 DEF SponsorStakes, lobby, CashInv, TypeOK
<1>4. \A u \in Sessions \ {s} : Has(u)' = Has(u)
  BY <1>1, <1>3 DEF Has
<1>5. \A r \in Requests : busy[r] # "idle" => job[r].stake # s
  BY <1>1 DEF Paid, JobKnows, Over
<1>6. \A r \in Requests : Paying(r)' <=> Paying(r)
  BY <1>3 DEF Paying
<1>7. \A r \in Requests : Paying(r)' => job'[r].stake # s
  BY <1>3, <1>5 DEF Paying
<1>8. ~(s > n)
  BY <1>1 DEF CashInv, TypeOK
<1> QED
  BY <1>1, <1>2, <1>3, <1>4, <1>5, <1>6, <1>7, <1>8, PaidWrite DEF Over

\* The staker is paid: what was on its way has arrived.
LEMMA LeavePaysPaid == CashInv /\ CashInv' /\ Paid /\ LeavePaysStaker => Paid'
<1> SUFFICES ASSUME CashInv, CashInv', Paid, LeavePaysStaker PROVE Paid'
  OBVIOUS
<1> PICK s \in Sessions : s = n
  BY DEF LeavePaysStaker, CashInv, Covered
<1>1. s = n /\ stakes[s].status \in Over
  BY DEF LeavePaysStaker, Paid
<1>2. /\ pc = "settle" /\ pc' = "credit" /\ n' = n /\ task' = task /\ busy' = busy /\ job' = job
      /\ stakes' = [stakes EXCEPT ![s].repaid = @ + task.staker]
  BY <1>1 DEF LeavePaysStaker, lobby
<1>3. \A u \in Sessions \ {s} : stakes'[u] = stakes[u]
  BY <1>2 DEF CashInv, TypeOK
<1>4. /\ stakes'[s].status = stakes[s].status /\ stakes'[s].kind = stakes[s].kind
      /\ stakes'[s].principal = stakes[s].principal /\ stakes'[s].left = stakes[s].left
      /\ stakes'[s].carry = stakes[s].carry
      /\ stakes'[s].repaid = stakes[s].repaid + task.staker
  BY <1>1, <1>2 DEF CashInv, TypeOK
<1>5. stakes[s].repaid \in Nat /\ task.staker \in Nat
  BY <1>1, FieldTypes DEF CashInv
<1>6. Has(s)' = Has(s)
  BY <1>1, <1>2, <1>4, <1>5 DEF Has
<1>7. \A u \in Sessions : Has(u)' = Has(u)
  BY <1>1, <1>2, <1>3, <1>6 DEF Has
<1>8. WithinTerms(s)'
  BY <1>1, <1>4, <1>6 DEF Paid, WithinTerms, Short
<1>9. \A r \in Requests : Paying(r)' <=> Paying(r)
  BY <1>2 DEF Paying
<1>10. \A r \in Requests : busy[r] # "idle" /\ job[r].stake = s => JobKnows(r)'
  <2> SUFFICES ASSUME NEW r \in Requests, busy[r] # "idle", job[r].stake = s PROVE JobKnows(r)'
    OBVIOUS
  <2>1. JobKnows(r)
    BY DEF Paid
  <2> QED
    BY <1>2, <1>4, <1>6, <1>9, <2>1 DEF JobKnows, Short, Has
<1>11. \A r, q \in Requests : Paying(r)' /\ Paying(q)' /\ job'[r].stake = s /\ job'[q].stake = s => r = q
  BY <1>2, <1>9 DEF Paid
<1>12. ~(s > n)
  BY <1>1 DEF CashInv, TypeOK
<1>13. stakes'[s].status \notin {"none", "active"}
  BY <1>1, <1>4 DEF Over
<1> QED
  BY <1>1, <1>2, <1>3, <1>7, <1>8, <1>9, <1>10, <1>11, <1>12, <1>13, PaidWrite

LEMMA LeaveSettlesPaid == CashInv /\ CashInv' /\ Paid /\ LeaveSettles => Paid'
<1> SUFFICES ASSUME CashInv, CashInv', Paid, LeaveSettles PROVE Paid'
  OBVIOUS
<1>1. n' = n /\ busy' = busy /\ job' = job /\ pc = "idle"
  BY DEF LeaveSettles, lobby
<1>2. CASE ~ActiveStake
  <2>1. stakes' = stakes /\ pc' = "credit"
    BY <1>2 DEF LeaveSettles
  <2> QED
    BY <1>1, <2>1, PaidFrame
<1>3. CASE ActiveStake
  <2> PICK s \in Sessions : s = n
    <3>1. pc' = "settle"
      BY <1>3 DEF LeaveSettles
    <3> QED
      BY <1>1, <3>1 DEF CashInv, Covered
  <2> DEFINE g == IF game.there THEN game ELSE saved
             old == stakes[s]
  <2>1. g.stack \in Nat
    BY DEF CashInv, TypeOK, Games
  <2>2. s = n
    OBVIOUS
  <2>3. PICK staker \in StakerTotals(old.principal, g.stack) :
          /\ stakes' = [stakes EXCEPT ![s] = SettledStake(@, g.stack, staker)]
          /\ task' = [NoTask EXCEPT !.saw = purse, !.kind = stakes[s].kind,
                                    !.staker = staker, !.player = g.stack - staker]
          /\ pc' = "settle"
    BY <1>3, <2>2 DEF LeaveSettles
  <2>4. /\ old.status = "active" /\ old.repaid = 0 /\ old.principal \in Nat
        /\ old.kind \in {"house", "persona"}
    BY <1>3, <2>2, FieldTypes DEF ActiveStake, Paid, CashInv
  <2> HIDE DEF g
  <2>5. staker \in Nat /\ staker <= g.stack /\ (g.stack < old.principal => staker = g.stack)
    BY <2>1, <2>3, <2>4, StakerBound
  <2> DEFINE carry == IF g.stack < old.principal /\ old.kind = "persona"
                      THEN old.principal - staker ELSE 0
  <2>6. /\ stakes'[s].status = IF carry > 0 THEN "carry" ELSE "settled"
        /\ stakes'[s].carry = carry /\ stakes'[s].left = g.stack
        /\ stakes'[s].kind = old.kind /\ stakes'[s].principal = old.principal
        /\ stakes'[s].repaid = 0
    <3>1. /\ stakes'[s] = [old EXCEPT !.status = IF carry > 0 THEN "carry" ELSE "settled",
                                     !.carry = carry, !.owed = carry, !.left = g.stack]
          /\ old \in StakeRows
      BY <2>2, <2>3 DEF CashInv, TypeOK, StakeRows, SettledStake
    <3> HIDE DEF carry
    <3> QED
      BY <2>4, <3>1 DEF StakeRows
  <2>7. task'.staker = staker
    BY <2>3 DEF NoTask
  <2>8. Has(s)' = staker
    BY <1>1, <2>3, <2>2, <2>5, <2>6, <2>7 DEF Has
  <2>9. WithinTerms(s)'
    <3>1. CASE Short(stakes'[s])
      <4>1. g.stack < old.principal /\ old.kind = "persona"
        BY <2>6, <3>1 DEF Short
      <4>2. staker = g.stack /\ carry = old.principal - g.stack
        BY <2>5, <4>1
      <4>3. /\ Has(s)' <= stakes'[s].principal /\ Has(s)' <= stakes'[s].left
            /\ stakes'[s].carry <= stakes'[s].principal - stakes'[s].left
        BY <2>1, <2>4, <2>6, <2>8, <4>1, <4>2
      <4> QED
        BY <3>1, <4>3 DEF WithinTerms
    <3>2. CASE ~Short(stakes'[s])
      <4>1. carry = 0
        BY <2>6, <3>2 DEF Short
      <4>2. stakes'[s].status # "carry" /\ staker <= staker
        BY <2>5, <2>6, <4>1
      <4> QED
        BY <2>3, <2>6, <2>8, <3>2, <4>2 DEF WithinTerms
    <3> QED
      BY <3>1, <3>2
  <2>10. stakes'[s].status \in Over /\ stakes'[s].status \notin {"none", "active"}
    BY <2>6 DEF Over
  <2>11. \A u \in Sessions \ {s} : stakes'[u] = stakes[u] /\ Has(u)' = Has(u)
    BY <1>1, <2>2, <2>3 DEF Has, CashInv, TypeOK
  <2>12. \A r \in Requests : busy[r] # "idle" => job[r].stake # s
    BY <2>4 DEF Paid, JobKnows, Over
  <2>13. \A r \in Requests : /\ Paying(r)' <=> Paying(r)
                             /\ Paying(r)' => job'[r].stake # s
    BY <1>1, <2>12 DEF Paying
  <2>14. ~(s > n)
    BY <2>2 DEF CashInv, TypeOK
  <2> QED
    BY <1>1, <2>2, <2>3, <2>9, <2>10, <2>11, <2>12, <2>13, <2>14, PaidWrite
<1> QED
  BY <1>2, <1>3

\* A request reads the carry it will move: the terms say what there is to move.
LEMMA ReadsPaid ==
  ASSUME CashInv, CashInv', Paid, NEW r \in Requests, NEW s \in Sessions, NEW spot \in {"claim", "zero"},
         Reads(r, s, spot)
  PROVE  Paid'
<1>1. /\ n' = n /\ pc' = pc /\ task' = task /\ stakes' = stakes /\ busy[r] = "idle"
      /\ stakes[s].status = "carry"
      /\ job'[r].stake = s /\ job'[r].carry = stakes[s].carry /\ busy'[r] = spot
      /\ \A q \in Requests \ {r} : busy'[q] = busy[q] /\ job'[q] = job[q]
  BY DEF Reads, Goes, table, CashInv, TypeOK
<1>2. \A u \in Sessions : Has(u)' = Has(u) /\ Short(stakes'[u]) = Short(stakes[u])
  BY <1>1 DEF Has
<1>3. WithinTerms(s) /\ stakes[s].status \in Over
  BY <1>1 DEF Paid, Over
<1>4. Short(stakes[s]) /\ stakes[s].carry <= stakes[s].principal - stakes[s].left
  BY <1>1, <1>3 DEF WithinTerms
<1>5. ~Paying(r)' /\ \A q \in Requests : Paying(q)' => Paying(q)
  BY <1>1 DEF Paying
<1>6. \A q \in Requests : busy'[q] # "idle" => JobKnows(q)'
  <2>1. JobKnows(r)'
    BY <1>1, <1>3, <1>4, <1>5 DEF JobKnows
  <2>2. ASSUME NEW q \in Requests \ {r}, busy'[q] # "idle" PROVE JobKnows(q)'
    <3>1. JobKnows(q) /\ job[q].stake \in Sessions
      BY <1>1, <2>2, FieldTypes DEF Paid, CashInv
    <3> QED
      BY <1>1, <1>2, <1>5, <3>1 DEF JobKnows, Has
  <2> QED
    BY <2>1, <2>2
<1>7. WithinTerms(s)'
  BY <1>1, <1>2, <1>3 DEF WithinTerms, Short
<1>8. \A q, t \in Requests : Paying(q)' /\ Paying(t)' /\ job'[q].stake = s /\ job'[t].stake = s => q = t
  <2> SUFFICES ASSUME NEW q \in Requests, NEW t \in Requests, Paying(q)', Paying(t)',
                      job'[q].stake = s, job'[t].stake = s
               PROVE  q = t
    OBVIOUS
  <2>1. q # r /\ t # r /\ Paying(q) /\ Paying(t)
    BY <1>5
  <2> QED
    BY <1>1, <2>1 DEF Paid
<1>9. /\ pc = "settle" => stakes[n].status \in Over
      /\ s > n \/ (s = n /\ pc = "stake") => stakes[s].status = "none"
  BY DEF Paid
<1> QED
  BY <1>1, <1>2, <1>3, <1>5, <1>6, <1>7, <1>8, <1>9, PaidWrite DEF Over

\* A request writes the stake it has read: it claims it, pays it or marks it.
LEMMA JobPaid ==
  ASSUME CashInv, CashInv', Paid, NEW r \in Requests, NEW s \in Sessions,
         busy[r] # "idle", job[r].stake = s,
         n' = n, pc' = pc, task' = task,
         \A q \in Requests \ {r} : busy'[q] = busy[q] /\ job'[q] = job[q],
         busy'[r] # "idle" => job'[r] = job[r],
         \A u \in Sessions \ {s} : stakes'[u] = stakes[u],
         stakes'[s].kind = stakes[s].kind, stakes'[s].principal = stakes[s].principal,
         stakes'[s].left = stakes[s].left, stakes'[s].carry <= stakes[s].carry,
         stakes'[s].status \in Over, stakes'[s].status = "carry" => stakes[s].status = "carry",
         \/ /\ stakes'[s].repaid = stakes[s].repaid
            /\ Paying(r)' => Paying(r) \/ (stakes[s].status = "carry" /\ stakes'[s].status # "carry")
         \/ /\ stakes'[s].repaid = stakes[s].repaid + job[r].carry
            /\ Paying(r) /\ ~Paying(r)'
  PROVE  Paid'
<1>1. /\ stakes[s].status \in Over /\ Short(stakes[s])
      /\ job[r].carry <= stakes[s].principal - stakes[s].left
      /\ Paying(r) => stakes[s].status # "carry" /\ Has(s) <= stakes[s].left
  BY DEF Paid, JobKnows
<1>2. Short(stakes'[s])
  BY <1>1 DEF Short
<1>3. /\ Has(s) <= stakes[s].principal
      /\ stakes[s].carry <= stakes[s].principal - stakes[s].left
      /\ stakes[s].status = "carry" => Has(s) <= stakes[s].left
  BY <1>1 DEF Paid, WithinTerms
<1>4. /\ stakes[s].repaid \in Nat /\ stakes[s].left \in Nat /\ stakes[s].principal \in Nat
      /\ stakes[s].carry \in Nat /\ task.staker \in Nat /\ job[r].carry \in Nat
  BY FieldTypes DEF CashInv
<1>5. \A u \in Sessions \ {s} : Has(u)' = Has(u)
  BY DEF Has
<1>6. Has(s) \in Nat
  BY <1>4 DEF Has
<1>7. \A q \in Requests \ {r} : Paying(q)' <=> Paying(q)
  BY DEF Paying
<1>8. \A q \in Requests : Paying(q) => busy[q] # "idle" /\ JobKnows(q)
  BY DEF Paid, Paying
<1>9. /\ Has(s)' <= stakes'[s].principal
      /\ stakes'[s].status = "carry" => Has(s)' <= stakes'[s].left
      /\ \A q \in Requests : Paying(q)' /\ job'[q].stake = s =>
            stakes'[s].status # "carry" /\ Has(s)' <= stakes'[s].left
      /\ \A q, t \in Requests : Paying(q)' /\ Paying(t)' /\ job'[q].stake = s /\ job'[t].stake = s => q = t
  <2>1. CASE /\ stakes'[s].repaid = stakes[s].repaid
             /\ Paying(r)' => Paying(r) \/ (stakes[s].status = "carry" /\ stakes'[s].status # "carry")
    <3>1. Has(s)' = Has(s)
      BY <2>1 DEF Has
    <3>2. ASSUME NEW q \in Requests, Paying(q)', job'[q].stake = s
          PROVE  stakes'[s].status # "carry" /\ Has(s)' <= stakes'[s].left
      <4>1. CASE q = r
        BY <1>1, <1>3, <2>1, <3>1, <3>2, <4>1
      <4>2. CASE q # r
        <5>1. Paying(q) /\ job[q].stake = s /\ JobKnows(q)
          BY <1>7, <1>8, <3>2, <4>2
        <5> QED
          BY <3>1, <5>1 DEF JobKnows
      <4> QED
        BY <4>1, <4>2
    <3>3. ASSUME NEW q \in Requests \ {r}, Paying(q)', job'[q].stake = s
          PROVE  stakes[s].status # "carry" /\ Paying(q) /\ job[q].stake = s
      <4>1. Paying(q) /\ job[q].stake = s /\ JobKnows(q)
        BY <1>7, <1>8, <3>3
      <4> QED
        BY <4>1 DEF JobKnows
    <3>4. ASSUME NEW q \in Requests, NEW t \in Requests, Paying(q)', Paying(t)',
                 job'[q].stake = s, job'[t].stake = s
          PROVE  q = t
      <4>1. CASE q # r /\ t # r
        BY <3>3, <3>4, <4>1 DEF Paid
      <4>2. CASE q = r /\ t # r
        <5>1. Paying(r) /\ Paying(t) /\ job[t].stake = s
          BY <2>1, <3>3, <3>4, <4>2
        <5> QED
          BY <4>2, <5>1 DEF Paid
      <4>3. CASE t = r /\ q # r
        <5>1. Paying(r) /\ Paying(q) /\ job[q].stake = s
          BY <2>1, <3>3, <3>4, <4>3
        <5> QED
          BY <4>3, <5>1 DEF Paid
      <4> QED
        BY <4>1, <4>2, <4>3
    <3> QED
      BY <1>3, <3>1, <3>2, <3>4
  <2>2. CASE /\ stakes'[s].repaid = stakes[s].repaid + job[r].carry
             /\ Paying(r) /\ ~Paying(r)'
    <3>1. Has(s)' = Has(s) + job[r].carry
      BY <1>4, <2>2 DEF Has
    <3>2. stakes[s].status # "carry" /\ Has(s) <= stakes[s].left
      BY <1>1, <2>2
    <3>3. Has(s)' <= stakes[s].principal
      BY <1>1, <1>4, <1>6, <3>1, <3>2
    <3>4. \A q \in Requests : Paying(q)' => job'[q].stake # s
      <4> SUFFICES ASSUME NEW q \in Requests, Paying(q)', job'[q].stake = s PROVE FALSE
        OBVIOUS
      <4>1. q # r /\ Paying(q) /\ job[q].stake = s
        BY <1>7, <2>2
      <4> QED
        BY <2>2, <4>1 DEF Paid
    <3> QED
      BY <3>2, <3>3, <3>4
  <2> QED
    BY <2>1, <2>2
<1>10. WithinTerms(s)'
  <2>1. stakes'[s].carry \in Nat
    BY DEF CashInv, TypeOK
  <2> QED
    BY <1>2, <1>3, <1>4, <1>9, <2>1 DEF WithinTerms
<1>11. \A q \in Requests : busy'[q] # "idle" /\ job'[q].stake = s => JobKnows(q)'
  <2> SUFFICES ASSUME NEW q \in Requests, busy'[q] # "idle", job'[q].stake = s PROVE JobKnows(q)'
    OBVIOUS
  <2>1. job'[q] = job[q] /\ busy[q] # "idle" /\ job[q].stake = s
    OBVIOUS
  <2>2. job[q].carry <= stakes[s].principal - stakes[s].left
    BY <2>1 DEF Paid, JobKnows
  <2> QED
    BY <1>2, <1>9, <2>1, <2>2 DEF JobKnows
<1>12. stakes'[n].status \in Over \/ pc # "settle"
  <2>1. pc = "settle" => n \in Sessions /\ stakes[n].status \in Over
    BY DEF Paid, CashInv, Covered
  <2>2. CASE n = s
    BY <2>2
  <2>3. CASE n # s
    BY <2>1, <2>3
  <2> QED
    BY <2>2, <2>3
<1>13. /\ s > n \/ (s = n /\ pc = "stake") => stakes'[s].status = "none"
       /\ stakes'[s].status \notin {"none", "active"}
  BY <1>1 DEF Paid, Over
<1>14. \A q \in Requests : busy'[q] # "idle" /\ job'[q].stake # s =>
          busy[q] # "idle" /\ job'[q] = job[q] /\ (Paying(q)' => Paying(q))
  BY <1>7
<1> QED
  BY ONLY CashInv, CashInv', Paid, n' = n, pc' = pc,
     \A u \in Sessions \ {s} : stakes'[u] = stakes[u], s \in Sessions,
     <1>5, <1>9, <1>10, <1>11, <1>12, <1>13, <1>14, PaidWrite

LEMMA ResolvingPaid == CashInv /\ CashInv' /\ Paid /\ Resolving => Paid'
<1> SUFFICES ASSUME CashInv, CashInv', Paid, Resolving PROVE Paid'
  OBVIOUS
<1>1. ASSUME NEW r \in Requests, NEW s \in Sessions, PayoffReads(r, s) \/ ResolveReads(r, s) PROVE Paid'
  BY <1>1, ReadsPaid DEF PayoffReads, ResolveReads
<1>2. ASSUME NEW r \in Requests,
             PayoffClaims(r) \/ PayoffDebits(r) \/ PayoffCredits(r) \/ PayoffCloses(r)
               \/ ResolveZeroes(r) \/ DefaultMarks(r) \/ DefaultWritesOff(r) \/ ForgivenessMarks(r)
      PROVE  Paid'
  <2> PICK s \in Sessions : s = job[r].stake
    BY FieldTypes DEF CashInv
  <2>1. /\ busy[r] # "idle" /\ n' = n /\ pc' = pc /\ task' = task
        /\ \A q \in Requests \ {r} : busy'[q] = busy[q] /\ job'[q] = job[q]
        /\ busy'[r] # "idle" => job'[r] = job[r]
    <3>1. /\ busy[r] # "idle" /\ n' = n /\ pc' = pc /\ task' = task
          /\ busy' = [busy EXCEPT ![r] = busy'[r]]
          /\ job' = job \/ (busy'[r] = "idle" /\ job' = [job EXCEPT ![r] = NoJob])
      BY <1>2 DEF PayoffClaims, PayoffDebits, PayoffCredits, PayoffCloses, ResolveZeroes, DefaultMarks,
         DefaultWritesOff, ForgivenessMarks, OnlyStakes, Goes, table, CashInv, TypeOK
    <3> QED
      BY <3>1 DEF CashInv, TypeOK
  <2>2. /\ stakes[s].status \in Over
        /\ stakes[s].carry \in Nat /\ stakes[s].repaid \in Nat /\ job[r].carry \in Nat
    BY <2>1, FieldTypes DEF Paid, JobKnows, CashInv
  <2> DEFINE Same == /\ \A u \in Sessions \ {s} : stakes'[u] = stakes[u]
                     /\ stakes'[s].kind = stakes[s].kind /\ stakes'[s].principal = stakes[s].principal
                     /\ stakes'[s].left = stakes[s].left
  <2>3. CASE PayoffClaims(r)
    <3>1. CASE stakes[s].status = "carry"
      <4>1. /\ Same /\ stakes'[s].status = "settled"
            /\ stakes'[s].carry = stakes[s].carry /\ stakes'[s].repaid = stakes[s].repaid
        <5>1. stakes' = [stakes EXCEPT ![s].status = "settled"] /\ s \in Sessions
          BY <2>1, <2>3, <3>1 DEF PayoffClaims
        <5>2. stakes \in [Sessions -> StakeRows]
          BY DEF CashInv, TypeOK, StakeRows
        <5> QED
          BY <5>1, <5>2 DEF StakeRows
      <4> QED
        BY <2>1, <2>2, <3>1, <4>1, JobPaid DEF Over
    <3>2. CASE stakes[s].status # "carry"
      <4>1. stakes' = stakes /\ busy'[r] = "idle"
        BY <2>3, <3>2 DEF PayoffClaims, OnlyStakes, Goes, CashInv, TypeOK
      <4> QED
        BY <2>1, <4>1, PaidFrame
    <3> QED
      BY <3>1, <3>2
  <2>4. CASE PayoffDebits(r)
    <3>1. Same /\ stakes' = stakes /\ Paying(r)
      BY <2>4 DEF PayoffDebits, Paying
    <3> QED
      BY <2>1, <2>2, <3>1, JobPaid
  <2>5. CASE PayoffCredits(r)
    <3>1. /\ Same /\ stakes'[s].status = stakes[s].status
          /\ stakes'[s].carry = stakes[s].carry /\ stakes'[s].repaid = stakes[s].repaid + job[r].carry
          /\ Paying(r) /\ ~Paying(r)'
      BY <2>5 DEF PayoffCredits, Goes, Paying, CashInv, TypeOK
    <3> QED
      BY <2>1, <2>2, <3>1, JobPaid
  <2>6. CASE PayoffCloses(r)
    <3>1. /\ Same /\ stakes'[s].status = stakes[s].status
          /\ stakes'[s].carry = 0 /\ stakes'[s].repaid = stakes[s].repaid
          /\ ~Paying(r)'
      BY <2>6 DEF PayoffCloses, OnlyStakes, Goes, Paying, CashInv, TypeOK
    <3> QED
      BY <2>1, <2>2, <3>1, JobPaid
  <2>7. CASE ResolveZeroes(r)
    <3>1. /\ Same /\ stakes'[s].status = stakes[s].status
          /\ stakes'[s].carry = 0 /\ stakes'[s].repaid = stakes[s].repaid
          /\ ~Paying(r)'
      BY <2>7 DEF ResolveZeroes, OnlyStakes, Goes, Paying, CashInv, TypeOK
    <3> QED
      BY <2>1, <2>2, <3>1, JobPaid
  <2>8. CASE DefaultMarks(r) \/ ForgivenessMarks(r)
    <3>1. /\ Same /\ stakes'[s].status \in {"defaulted", "settled"}
          /\ stakes'[s].carry = stakes[s].carry /\ stakes'[s].repaid = stakes[s].repaid
          /\ ~Paying(r)'
      BY <2>8 DEF DefaultMarks, ForgivenessMarks, OnlyStakes, Goes, Paying, CashInv, TypeOK
    <3> QED
      BY <2>1, <2>2, <3>1, JobPaid DEF Over
  <2>9. CASE DefaultWritesOff(r)
    <3>1. /\ Same /\ stakes'[s].status = stakes[s].status
          /\ stakes'[s].carry = stakes[s].carry /\ stakes'[s].repaid = stakes[s].repaid
          /\ ~Paying(r)'
      BY <2>9 DEF DefaultWritesOff, OnlyStakes, Goes, Paying, CashInv, TypeOK
    <3> QED
      BY <2>1, <2>2, <3>1, JobPaid
  <2> QED
    BY <1>2, <2>3, <2>4, <2>5, <2>6, <2>7, <2>8, <2>9
<1> QED
  BY <1>1, <1>2 DEF Resolving, Requests

LEMMA PaidNext == CashInv /\ CashInv' /\ Paid /\ [Next]_vars => Paid'
<1> SUFFICES ASSUME CashInv, CashInv', Paid, [Next]_vars PROVE Paid'
  OBVIOUS
<1>1. CASE SponsorStakes
  BY <1>1, SponsorStakesPaid
<1>2. CASE LeavePaysStaker \/ LeaveSettles
  BY <1>2, LeavePaysPaid, LeaveSettlesPaid
<1>3. CASE Resolving
  BY <1>3, ResolvingPaid
<1>4. CASE /\ ~SponsorStakes
           /\ \/ Sitting \/ Playing \/ Buying \/ LeaveCredits \/ LeaveFinalises \/ LeaveRemoves
                \/ LeaveRaises \/ Crash \/ UNCHANGED vars
  BY <1>4, OtherPaid
<1> QED
  BY <1>1, <1>2, <1>3, <1>4 DEF Next, Leaving

\* For any cut, purses and numbers of sessions, of requests about one carry, of crashes
\* and of repeated leaves, a staker never gets more than its terms give it: a stake is
\* settled by the first leave alone, and the compare-and-swap lets one payoff move what
\* the terms left open, whatever defaults and pleas do to the status meanwhile.
THEOREM CashNoStakerOverpaid == Spec => []NoStakerOverpaid
<1>1. CashInv /\ Paid => NoStakerOverpaid
  <2> SUFFICES ASSUME CashInv, Paid, NEW s \in Sessions, stakes[s].status \in Over
               PROVE  \E due \in Due(stakes[s]) : stakes[s].repaid <= due
    BY DEF NoStakerOverpaid
  <2>1. /\ stakes[s].repaid \in Nat /\ task.staker \in Nat
        /\ stakes[s].principal \in Nat /\ stakes[s].left \in Nat
    BY FieldTypes DEF CashInv
  <2>2. Has(s) \in Nat /\ stakes[s].repaid <= Has(s)
    BY <2>1 DEF Has
  <2>3. WithinTerms(s)
    BY DEF Paid
  <2>4. CASE Short(stakes[s])
    <3>1. stakes[s].repaid <= stakes[s].principal
      BY <2>1, <2>2, <2>3, <2>4 DEF WithinTerms
    <3> QED
      BY <2>4, <3>1 DEF Due
  <2>5. CASE ~Short(stakes[s])
    <3>1. PICK due \in StakerTotals(stakes[s].principal, stakes[s].left) : Has(s) <= due
      BY <2>3, <2>5 DEF WithinTerms
    <3>2. due \in Nat
      BY <2>1, StakerBound
    <3>3. stakes[s].repaid <= due
      BY <2>1, <2>2, <3>1, <3>2
    <3> QED
      BY <2>5, <3>1, <3>3 DEF Due
  <2> QED
    BY <2>4, <2>5
<1>2. CashInv /\ Paid /\ [Next]_vars => (CashInv /\ Paid)'
  BY CashNext, PaidNext
<1>3. Init => CashInv /\ Paid
  BY CashInit, PaidInit
<1> QED
  BY <1>1, <1>2, <1>3, PTL DEF Spec

-----------------------------------------------------------------------------
(* The books.  The invariant.                                               *)
\* Nothing has crashed or raised.
Clean == ~marred.fault

\* A session that has been left.
Left(s) == s < n \/ (s = n /\ (pc = "remove" \/ ~game.there))

\* Where the game, its row, each session and each stake are, at each point of a request.
Shape ==
    /\ game.there <=> saved.there
    /\ ~game.there => game = NoGame /\ pc = "idle"
    /\ pc \in SitSpots => game.pending = 0
    /\ \A s \in Sessions :
          /\ sess[s].state = IF Left(s) THEN "closed"
                             ELSE IF s = n /\ pc \notin SitSpots \ {"fund"} THEN "active" ELSE "missing"
          /\ sess[s].state = "missing" => sess[s] = NoSession
          /\ sess[s].state = "active" => sess[s].takeHome = 0 /\ sess[s].sponsorRepaid = 0
          /\ stakes[s].status \in Over => s < n \/ (s = n /\ (pc \in LeaveSpots \/ ~game.there))
    /\ \A r \in Requests : busy[r] # "idle" => pc \notin LeaveSpots \cup {"debit"}
    /\ \A r, q \in Requests : busy[r] # "idle" /\ busy[q] # "idle" => job[r].stake = job[q].stake

\* Every chip that is somewhere.
Total == purse + lender + bank + TableChips + forfeited

\* The chips a request of the table has paid out, or dealt, and not yet taken in.
InFlight ==
    CASE pc \in {"debit", "stake", "begin", "fund"} -> task.amount
      [] pc = "credit" -> task.staker
      [] pc \in {"finalise", "remove"} -> game.stack
      [] OTHER -> 0

\* What the bankroll has that the session's row does not say yet.
Unbooked == CASE pc = "record" -> -task.amount
              [] pc = "finalise" -> task.player
              [] OTHER -> 0

\* A bankroll that will be written back has been read as it is; what is left of a stack
\* is split between the staker and the owner.
Money ==
    /\ forfeited \in Nat
    /\ pc \in {"debit", "settle", "credit"} => task.saw = purse
    /\ pc \in LeaveSpots => task.staker + task.player = game.stack
    /\ pc = "settle" => stakes[n].repaid = 0 /\ (Short(stakes[n]) => stakes[n].status = "carry")
    /\ pc \in {"credit", "finalise"} => stakes[n].repaid = task.staker
    /\ \A r \in Requests :
          busy[r] = "debit" \/ (busy[r] = "claim" /\ stakes[job[r].stake].status = "carry") =>
              job[r].saw = purse

\* What the sessions brought, by their rows.
Booked == SumFunction([s \in Sessions |-> Profit(s)])

\* What a payoff has taken from the owner and the lender has not got yet.
Moving(x) ==
    IF \E r \in Requests : busy[r] = "credit"
    THEN \A r \in Requests : busy[r] = "credit" => job[r].carry = x
    ELSE x = 0

\* Every chip is somewhere, in flight or moving; and the books explain the bankroll.
Balanced ==
    \E x \in Nat :
        /\ Moving(x)
        /\ Total + x = Purse + LenderPurse + Others + InFlight
        /\ purse + x = Purse + Booked + Unbooked

\* A request about the stake is at one of these points.
OnIt(s, spots) == \E r \in Requests : busy[r] \in spots /\ job[r].stake = s

\* What a staker has, and the carry, once the stake is settled.
InTerms(s) ==
    LET stake == stakes[s]
        lack  == stake.principal - stake.left
    IN  IF Short(stake)
        THEN IF stake.status = "carry"
             THEN /\ Has(s) = stake.left
                  /\ stake.carry = lack \/ (stake.carry = 0 /\ OnIt(s, {"mark"}))
             ELSE /\ Has(s) \in {stake.left, stake.principal}
                  /\ stake.carry = 0 \/ (stake.carry = lack /\ OnIt(s, {"debit", "credit", "close"}))
        ELSE /\ stake.carry = 0 /\ stake.status = "settled"
             /\ Has(s) \in StakerTotals(stake.principal, stake.left)

\* Every settled stake is within its terms, and a request knows the carry as it was.
Terms ==
    /\ \A s \in Sessions : stakes[s].status \in Over => InTerms(s)
    /\ \A r \in Requests : busy[r] # "idle" =>
          LET stake == stakes[job[r].stake]
          IN  /\ job[r].carry \in {0, stake.principal - stake.left}
              /\ busy[r] \in {"debit", "credit", "close"} => stake.status # "carry"
              /\ Paying(r) => stake.repaid = stake.left
              /\ busy[r] = "mark" => stake.carry = 0

\* What the account of a stake holds: a carry given up on a plea stays on it.
Debt(stake) ==
    CASE stake.status = "active" -> stake.principal
      [] GivenUp(stake) -> stake.principal - stake.repaid
      [] OTHER -> stake.carry

\* The account of every stake says what is owed, and a request about one is going to
\* bring it there.
Debts ==
    /\ \A r, q \in Requests : busy[r] # "idle" /\ busy[q] # "idle" => r = q
    /\ \A s \in Sessions :
          (\A r \in Requests : busy[r] = "idle" \/ job[r].stake # s) =>
              stakes[s].owed = IF s = n /\ pc = "settle" THEN stakes[s].carry ELSE Debt(stakes[s])
    /\ \A r \in Requests : busy[r] # "idle" =>
          LET stake == stakes[job[r].stake]
          IN  /\ stake.owed = job[r].carry /\ job[r].carry = stake.principal - stake.left
              /\ busy[r] \in {"claim", "zero"} => stake.status = "carry" /\ stake.carry = job[r].carry
              /\ busy[r] = "mark" => stake.status = "carry"
              /\ busy[r] \in {"debit", "credit", "close"} => stake.status = "settled"
              /\ busy[r] = "close" => stake.repaid = stake.principal
              /\ busy[r] = "writeoff" => stake.status = "defaulted" /\ stake.carry = 0

\* The invariant. TLC checked it on the instance of the run before it was proved.
BooksInv ==
    Clean => /\ Shape /\ Money /\ Balanced /\ Terms
             /\ ~marred.overlap => Debts

-----------------------------------------------------------------------------
(* A request about a carry moves.                                           *)
\* One request about a carry moves, and writes one stake.
Move(r, s) ==
    /\ \A q \in Requests \ {r} : busy'[q] = busy[q] /\ job'[q] = job[q]
    /\ \A u \in Sessions \ {s} : stakes'[u] = stakes[u]
    /\ stakes'[s].kind = stakes[s].kind /\ stakes'[s].principal = stakes[s].principal
    /\ stakes'[s].left = stakes[s].left
    /\ UNCHANGED <<bank, seats, game, saved, n, sess, pc, task, crashes, raises>>

\* It reads the stake and the bankroll.
Looks(r, s) ==
    /\ Move(r, s) /\ stakes' = stakes /\ purse' = purse /\ lender' = lender
    /\ busy[r] = "idle" /\ busy'[r] \in {"claim", "zero"}
    /\ stakes[s].status = "carry" /\ stakes[s].kind = "persona"
    /\ job'[r].stake = s /\ job'[r].saw = purse /\ job'[r].carry = stakes[s].carry

\* It goes on to its next point.
GoesOn(r, s, from, to) ==
    /\ Move(r, s)
    /\ busy[r] = from /\ busy'[r] = to /\ job[r].stake = s
    /\ to # "idle" => job'[r] = job[r]

\* What it writes to the stake.
Writes(s, status, carry, owed, repaid) ==
    /\ stakes'[s].status = status /\ stakes'[s].carry = carry
    /\ stakes'[s].owed = owed /\ stakes'[s].repaid = repaid

\* The steps after the first.
Advances(r, s) ==
    LET stake == stakes[s]
        carry == job[r].carry
    IN  \/ /\ GoesOn(r, s, "claim", "debit") /\ stake.status = "carry"
           /\ Writes(s, "settled", stake.carry, stake.owed, stake.repaid) /\ UNCHANGED <<purse, lender>>
        \/ /\ GoesOn(r, s, "claim", "idle") /\ stake.status # "carry"
           /\ stakes' = stakes /\ UNCHANGED <<purse, lender>>
        \/ /\ GoesOn(r, s, "debit", "credit")
           /\ stakes' = stakes /\ purse' = job[r].saw - carry /\ lender' = lender
        \/ /\ GoesOn(r, s, "credit", "close")
           /\ Writes(s, stake.status, stake.carry, stake.owed, stake.repaid + carry)
           /\ purse' = purse /\ lender' = lender + carry
        \/ /\ GoesOn(r, s, "close", "idle")
           /\ Writes(s, stake.status, 0, stake.owed - carry, stake.repaid) /\ UNCHANGED <<purse, lender>>
        \/ /\ GoesOn(r, s, "zero", "mark")
           /\ Writes(s, stake.status, 0, stake.owed, stake.repaid) /\ UNCHANGED <<purse, lender>>
        \/ /\ GoesOn(r, s, "mark", "writeoff")
           /\ Writes(s, "defaulted", stake.carry, stake.owed, stake.repaid) /\ UNCHANGED <<purse, lender>>
        \/ /\ GoesOn(r, s, "writeoff", "idle")
           /\ Writes(s, stake.status, stake.carry, stake.owed - carry, stake.repaid) /\ UNCHANGED <<purse, lender>>
        \/ /\ GoesOn(r, s, "mark", "idle")
           /\ Writes(s, "settled", stake.carry, stake.owed, stake.repaid) /\ UNCHANGED <<purse, lender>>

\* Every step of a request about a carry is one of these.
LEMMA ResolvingMoves ==
  ASSUME CashInv, Resolving
  PROVE  \E r \in Requests, s \in Sessions : Looks(r, s) \/ Advances(r, s)
<1>1. /\ stakes \in [Sessions -> StakeRows]
      /\ busy \in [Requests -> {"idle", "claim", "debit", "credit", "close", "zero", "mark", "writeoff"}]
      /\ job \in [Requests -> [stake : Sessions, saw : Nat, carry : Nat]]
  BY DEF CashInv, TypeOK, StakeRows
<1>2. \A r \in Requests : job[r].stake \in Sessions
  BY FieldTypes DEF CashInv
<1>3. ASSUME NEW r \in Requests, NEW s \in Sessions, NEW spot \in {"claim", "zero"}, Reads(r, s, spot)
      PROVE  Looks(r, s)
  <2>1. /\ stakes' = stakes /\ UNCHANGED <<purse, lender, bank, seats, game, saved, n, sess, pc, task, crashes, raises>>
        /\ busy[r] = "idle" /\ stakes[s].status = "carry" /\ stakes[s].kind = "persona"
        /\ busy' = [busy EXCEPT ![r] = spot]
        /\ job' = [job EXCEPT ![r] = [stake |-> s, saw |-> purse, carry |-> stakes[s].carry]]
    BY <1>3 DEF Reads, Goes, chips, table
  <2> QED BY <1>1, <2>1 DEF Looks, Move
<1>4. ASSUME NEW r \in Requests, NEW from, NEW to, busy[r] = from, OnlyStakes(r, to) \/ (Goes(r, to) /\ job' = job),
             UNCHANGED <<bank, seats, game, saved, n, sess, pc, task, crashes, raises>>,
             \/ stakes' = stakes
             \/ \E x \in StakeRows : /\ stakes' = [stakes EXCEPT ![job[r].stake] = x]
                                     /\ x.kind = stakes[job[r].stake].kind
                                     /\ x.principal = stakes[job[r].stake].principal
                                     /\ x.left = stakes[job[r].stake].left
      PROVE  GoesOn(r, job[r].stake, from, to)
  <2>1. /\ busy' = [busy EXCEPT ![r] = to]
        /\ \A q \in Requests \ {r} : job'[q] = job[q]
        /\ to # "idle" => job'[r] = job[r]
    BY <1>1, <1>4 DEF OnlyStakes, Goes
  <2> QED BY <1>1, <1>2, <1>4, <2>1 DEF GoesOn, Move
<1>5. \A r \in Requests : OnlyStakes(r, "idle") \/ OnlyStakes(r, "debit") \/ OnlyStakes(r, "mark") \/ OnlyStakes(r, "writeoff")
        => UNCHANGED <<purse, lender, bank, seats, game, saved, n, sess, pc, task, crashes, raises>>
  BY DEF OnlyStakes, chips, table
<1>6. ASSUME NEW r \in Requests,
             PayoffClaims(r) \/ PayoffDebits(r) \/ PayoffCredits(r) \/ PayoffCloses(r)
      PROVE  Advances(r, job[r].stake)
  <2> DEFINE s == job[r].stake
  <2>1. s \in Sessions /\ stakes[s] \in StakeRows /\ job[r].carry \in Nat
    BY <1>1, <1>2
  <2>2. CASE PayoffClaims(r) /\ stakes[s].status = "carry"
    <3>1. /\ busy[r] = "claim" /\ OnlyStakes(r, "debit")
          /\ stakes' = [stakes EXCEPT ![s] = [stakes[s] EXCEPT !.status = "settled"]]
      BY <1>1, <2>1, <2>2 DEF PayoffClaims
    <3>2. [stakes[s] EXCEPT !.status = "settled"] \in StakeRows
      BY <2>1 DEF StakeRows
    <3>3. Writes(s, "settled", stakes[s].carry, stakes[s].owed, stakes[s].repaid)
      BY <1>1, <2>1, <3>1 DEF Writes, StakeRows
    <3>4. GoesOn(r, s, "claim", "debit")
      BY <1>4, <1>5, <2>1, <3>1, <3>2 DEF StakeRows
    <3> QED BY <1>5, <2>2, <3>1, <3>3, <3>4 DEF Advances
  <2>3. CASE PayoffClaims(r) /\ stakes[s].status # "carry"
    <3>1. busy[r] = "claim" /\ OnlyStakes(r, "idle") /\ stakes' = stakes
      BY <2>3 DEF PayoffClaims
    <3>2. GoesOn(r, s, "claim", "idle")
      BY <1>4, <1>5, <3>1
    <3> QED BY <1>5, <2>3, <3>1, <3>2 DEF Advances
  <2>4. CASE PayoffDebits(r)
    <3>1. /\ busy[r] = "debit" /\ Goes(r, "credit") /\ job' = job /\ stakes' = stakes
          /\ UNCHANGED <<lender, bank, seats, game, saved, n, sess, pc, task, crashes, raises>>
          /\ purse' = job[r].saw - job[r].carry
      BY <2>4 DEF PayoffDebits, table
    <3>2. GoesOn(r, s, "debit", "credit")
      BY <1>4, <3>1
    <3> QED BY <3>1, <3>2 DEF Advances
  <2>5. CASE PayoffCredits(r)
    <3>1. /\ busy[r] = "credit" /\ Goes(r, "close") /\ job' = job
          /\ UNCHANGED <<purse, bank, seats, game, saved, n, sess, pc, task, crashes, raises>>
          /\ lender' = lender + job[r].carry
          /\ stakes' = [stakes EXCEPT ![s] = [stakes[s] EXCEPT !.repaid = stakes[s].repaid + job[r].carry]]
      BY <1>1, <2>1, <2>5 DEF PayoffCredits, table
    <3>2. [stakes[s] EXCEPT !.repaid = stakes[s].repaid + job[r].carry] \in StakeRows
      BY <2>1 DEF StakeRows
    <3>3. Writes(s, stakes[s].status, stakes[s].carry, stakes[s].owed, stakes[s].repaid + job[r].carry)
      BY <1>1, <2>1, <3>1 DEF Writes, StakeRows
    <3>4. GoesOn(r, s, "credit", "close")
      BY <1>4, <2>1, <3>1, <3>2 DEF StakeRows
    <3> QED BY <3>1, <3>3, <3>4 DEF Advances
  <2>6. CASE PayoffCloses(r)
    <3>1. /\ busy[r] = "close" /\ OnlyStakes(r, "idle")
          /\ stakes' = [stakes EXCEPT ![s] = [stakes[s] EXCEPT !.carry = 0, !.owed = stakes[s].owed - job[r].carry]]
      BY <1>1, <2>1, <2>6 DEF PayoffCloses
    <3>2. [stakes[s] EXCEPT !.carry = 0, !.owed = stakes[s].owed - job[r].carry] \in StakeRows
      <4>1. stakes[s].owed - job[r].carry \in Int /\ 0 \in Nat
        BY <2>1 DEF StakeRows
      <4> QED BY <2>1, <4>1 DEF StakeRows
    <3>3. Writes(s, stakes[s].status, 0, stakes[s].owed - job[r].carry, stakes[s].repaid)
      BY <1>1, <2>1, <3>1 DEF Writes, StakeRows
    <3>4. GoesOn(r, s, "close", "idle")
      BY <1>4, <1>5, <2>1, <3>1, <3>2 DEF StakeRows
    <3> QED BY <1>5, <3>1, <3>3, <3>4 DEF Advances
  <2> QED BY <1>6, <2>2, <2>3, <2>4, <2>5, <2>6
<1>7. ASSUME NEW r \in Requests,
             ResolveZeroes(r) \/ DefaultMarks(r) \/ DefaultWritesOff(r) \/ ForgivenessMarks(r)
      PROVE  Advances(r, job[r].stake)
  <2> DEFINE s == job[r].stake
  <2>1. s \in Sessions /\ stakes[s] \in StakeRows /\ job[r].carry \in Nat
    BY <1>1, <1>2
  <2>2. CASE ResolveZeroes(r)
    <3>1. /\ busy[r] = "zero" /\ OnlyStakes(r, "mark")
          /\ stakes' = [stakes EXCEPT ![s] = [stakes[s] EXCEPT !.carry = 0]]
      BY <1>1, <2>1, <2>2 DEF ResolveZeroes
    <3>2. [stakes[s] EXCEPT !.carry = 0] \in StakeRows
      BY <2>1 DEF StakeRows
    <3>3. Writes(s, stakes[s].status, 0, stakes[s].owed, stakes[s].repaid)
      BY <1>1, <2>1, <3>1 DEF Writes, StakeRows
    <3>4. GoesOn(r, s, "zero", "mark")
      BY <1>4, <1>5, <2>1, <3>1, <3>2 DEF StakeRows
    <3> QED BY <1>5, <3>1, <3>3, <3>4 DEF Advances
  <2>3. CASE DefaultMarks(r)
    <3>1. /\ busy[r] = "mark" /\ OnlyStakes(r, "writeoff")
          /\ stakes' = [stakes EXCEPT ![s] = [stakes[s] EXCEPT !.status = "defaulted"]]
      BY <1>1, <2>1, <2>3 DEF DefaultMarks
    <3>2. [stakes[s] EXCEPT !.status = "defaulted"] \in StakeRows
      BY <2>1 DEF StakeRows
    <3>3. Writes(s, "defaulted", stakes[s].carry, stakes[s].owed, stakes[s].repaid)
      BY <1>1, <2>1, <3>1 DEF Writes, StakeRows
    <3>4. GoesOn(r, s, "mark", "writeoff")
      BY <1>4, <1>5, <2>1, <3>1, <3>2 DEF StakeRows
    <3> QED BY <1>5, <3>1, <3>3, <3>4 DEF Advances
  <2>4. CASE DefaultWritesOff(r)
    <3>1. /\ busy[r] = "writeoff" /\ OnlyStakes(r, "idle")
          /\ stakes' = [stakes EXCEPT ![s] = [stakes[s] EXCEPT !.owed = stakes[s].owed - job[r].carry]]
      BY <1>1, <2>1, <2>4 DEF DefaultWritesOff
    <3>2. [stakes[s] EXCEPT !.owed = stakes[s].owed - job[r].carry] \in StakeRows
      BY <2>1 DEF StakeRows
    <3>3. Writes(s, stakes[s].status, stakes[s].carry, stakes[s].owed - job[r].carry, stakes[s].repaid)
      BY <1>1, <2>1, <3>1 DEF Writes, StakeRows
    <3>4. GoesOn(r, s, "writeoff", "idle")
      BY <1>4, <1>5, <2>1, <3>1, <3>2 DEF StakeRows
    <3> QED BY <1>5, <3>1, <3>3, <3>4 DEF Advances
  <2>5. CASE ForgivenessMarks(r)
    <3>1. /\ busy[r] = "mark" /\ OnlyStakes(r, "idle")
          /\ stakes' = [stakes EXCEPT ![s] = [stakes[s] EXCEPT !.status = "settled"]]
      BY <1>1, <2>1, <2>5 DEF ForgivenessMarks
    <3>2. [stakes[s] EXCEPT !.status = "settled"] \in StakeRows
      BY <2>1 DEF StakeRows
    <3>3. Writes(s, "settled", stakes[s].carry, stakes[s].owed, stakes[s].repaid)
      BY <1>1, <2>1, <3>1 DEF Writes, StakeRows
    <3>4. GoesOn(r, s, "mark", "idle")
      BY <1>4, <1>5, <2>1, <3>1, <3>2 DEF StakeRows
    <3> QED BY <1>5, <3>1, <3>3, <3>4 DEF Advances
  <2> QED BY <1>7, <2>2, <2>3, <2>4, <2>5
<1>8. \A r : (r \in Payoffs => r \in Requests) /\ (r \in Resolvers => r \in Requests)
  BY DEF Requests
<1> QED BY <1>2, <1>3, <1>6, <1>7, <1>8 DEF Resolving, PayoffReads, ResolveReads

-----------------------------------------------------------------------------
(* Steps without a fault, and where they leave the session.                  *)
\* A step without a fault: a step of the table or of a request about a carry.
LEMMA WithoutFault ==
  ASSUME CashInv, BooksNext, ~marred'.fault
  PROVE  /\ ~marred.fault /\ crashes' = crashes /\ raises' = raises
         /\ ~marred'.overlap =>
              ~marred.overlap /\ \A r, q \in Requests : busy'[r] # "idle" /\ busy'[q] # "idle" => r = q
         /\ \/ Sitting
            \/ Playing
            \/ \E amount \in 1..MaxBuyIn : TopUp(amount) \/ Rebuy(amount) \/ StageTopUp(amount)
            \/ LeaveSettles \/ LeavePaysStaker \/ LeaveCredits \/ LeaveFinalises \/ LeaveRemoves
            \/ Resolving
<1>1. Next /\ Apart /\ Recorded
  BY DEF BooksNext
<1>2. ~marred.fault /\ ~(crashes' > crashes) /\ ~(raises' > raises)
  <2>1. marred' = [fault   |-> marred.fault \/ crashes' > crashes \/ raises' > raises,
                  overlap |-> \/ marred.overlap
                              \/ \E r, q \in Requests : r # q /\ busy'[r] # "idle" /\ busy'[q] # "idle"]
    BY <1>1 DEF Recorded
  <2>2. marred'.fault = (marred.fault \/ crashes' > crashes \/ raises' > raises)
    BY ONLY <2>1
  <2> QED BY <2>2
<1>3. crashes \in Nat /\ raises \in Nat
  BY CashAssumption DEF CashInv, TypeOK
<1>4. ~Crash /\ ~LeaveRaises /\ \A amount : ~BuyRaises(amount)
  BY <1>2, <1>3 DEF Crash, LeaveRaises, BuyRaises
<1>5. \/ Sitting
      \/ Playing
      \/ \E amount \in 1..MaxBuyIn : TopUp(amount) \/ Rebuy(amount) \/ StageTopUp(amount)
      \/ LeaveSettles \/ LeavePaysStaker \/ LeaveCredits \/ LeaveFinalises \/ LeaveRemoves
      \/ Resolving
  BY <1>1, <1>4 DEF Next, Buying, Leaving
<1>6. crashes' = crashes /\ raises' = raises
  <2>1. ASSUME Sitting PROVE crashes' = crashes /\ raises' = raises
    BY <2>1 DEF Sitting, SitBuilds, SponsorBuilds, Builds, SitDebits, SitRecords, SponsorStakes, SponsorRecords, SponsorFunds
  <2>2. ASSUME Playing PROVE crashes' = crashes /\ raises' = raises
    BY <2>2 DEF Playing, Bet, HandPauses, NextHand, NextHandUnflushed, Resumes, ColdLoad
  <2>3. ASSUME NEW amount \in 1..MaxBuyIn, TopUp(amount) \/ Rebuy(amount) \/ StageTopUp(amount)
        PROVE  crashes' = crashes /\ raises' = raises
    BY <2>3 DEF TopUp, Rebuy, StageTopUp, Buys
  <2>4. ASSUME LeaveSettles \/ LeavePaysStaker \/ LeaveCredits \/ LeaveFinalises \/ LeaveRemoves
        PROVE  crashes' = crashes /\ raises' = raises
    BY <2>4 DEF LeaveSettles, LeavePaysStaker, LeaveCredits, LeaveFinalises, LeaveRemoves
  <2>5. ASSUME Resolving PROVE crashes' = crashes /\ raises' = raises
    <3>1. PICK r \in Requests, s \in Sessions : Looks(r, s) \/ Advances(r, s)
      BY <2>5, ResolvingMoves
    <3> QED BY <3>1 DEF Looks, Advances, GoesOn, Move
  <2> QED BY <1>5, <2>1, <2>2, <2>3, <2>4, <2>5
<1>7. ~marred'.overlap =>
         ~marred.overlap /\ \A r, q \in Requests : busy'[r] # "idle" /\ busy'[q] # "idle" => r = q
  <2>1. marred'.overlap = \/ marred.overlap
                          \/ \E r, q \in Requests : r # q /\ busy'[r] # "idle" /\ busy'[q] # "idle"
    BY <1>1 DEF Recorded
  <2> QED BY <2>1
<1> QED BY <1>2, <1>5, <1>6, <1>7

\* The discipline, request by request.
LEMMA ApartMeans ==
  ASSUME CashInv, Apart
  PROVE  /\ \A r \in Requests : busy[r] # "idle" /\ busy' = busy => purse' = purse
         /\ \A r \in Requests : busy'[r] # "idle" => pc' \notin LeaveSpots \cup {"debit"}
         /\ \A r, q \in Requests : busy'[r] # "idle" /\ busy'[q] # "idle" => job'[r].stake = job'[q].stake
<1>1. \A r \in Requests : busy[r] # "idle" => job[r].stake \in Resolved
  BY DEF Resolved
<1>2. \A r \in Requests : busy'[r] # "idle" => job'[r].stake \in Resolved'
  BY DEF Resolved
<1> QED BY <1>1, <1>2 DEF Apart

\* What the rest needs of it.
LEMMA ShapeTypes ==
  ASSUME CashInv, Shape
  PROVE  /\ n \in Nat /\ n <= MaxSessions /\ \A s \in Sessions : s \in Nat
         /\ game \in Games /\ saved \in Games
         /\ game.there => n \in Sessions
         /\ n > 0 => n \in Sessions
         /\ ~game.there => game = NoGame /\ pc = "idle" /\ ~saved.there
<1>1. MaxSessions \in Nat /\ n \in 0..MaxSessions /\ Sessions = 1..MaxSessions
  BY CashAssumption DEF CashInv, TypeOK, Sessions
<1>2. game \in Games /\ saved \in Games /\ (game.there => n \in Sessions)
  BY DEF CashInv, TypeOK, Covered
<1>3. ~game.there => game = NoGame /\ pc = "idle" /\ ~saved.there
  BY DEF Shape
<1> QED BY <1>1, <1>2, <1>3

\* Sitting down opens the next session, which is missing until it is recorded.
LEMMA ShapeSits ==
  ASSUME CashInv, Shape, Apart, Sitting
  PROVE  Shape'
<1>0. /\ n \in Nat /\ \A s \in Sessions : s \in Nat
      /\ game.there => n \in Sessions
      /\ ~game.there => game = NoGame /\ pc = "idle" /\ ~saved.there
      /\ sess \in [Sessions -> [state : {"missing", "active", "closed", "broken"}, buyIn : Nat,
                              takeHome : Nat, sponsorRepaid : Nat]]
      /\ stakes \in [Sessions -> StakeRows]
  BY ShapeTypes DEF CashInv, TypeOK, StakeRows
<1>1. /\ \A r \in Requests : busy'[r] # "idle" => pc' \notin LeaveSpots \cup {"debit"}
      /\ \A r, q \in Requests : busy'[r] # "idle" /\ busy'[q] # "idle" => job'[r].stake = job'[q].stake
  BY ApartMeans
<1>2. ASSUME NEW amount \in BuyIns, Builds(amount), pc' \in {"debit", "stake"} PROVE Shape'
  <2>1. /\ pc = "idle" /\ ~game.there /\ ~saved.there /\ n' = n + 1 /\ sess' = sess /\ stakes' = stakes
        /\ game'.there /\ saved'.there /\ game'.pending = 0
    BY <1>0, <1>2 DEF Builds, NoGame
  <2>2. \A s \in Sessions : Left(s) <=> s <= n
    BY <1>0, <2>1 DEF Left
  <2>3. \A s \in Sessions : Left(s)' <=> s <= n
    BY <1>0, <1>2, <2>1 DEF Left
  <2> QED BY <1>0, <1>1, <1>2, <2>1, <2>2, <2>3 DEF Shape, SitSpots, LeaveSpots
<1>3. ASSUME pc \in SitSpots, game' = game, saved' = saved, n' = n, pc' \in SitSpots \cup {"idle"}, pc' # "debit",
             stakes' = stakes \/ (\A s \in Sessions : stakes'[s].status = stakes[s].status \/ (s = n /\ stakes'[s].status \notin Over)),
             \A s \in Sessions \ {n} : sess'[s] = sess[s],
             sess'[n].state = (IF pc' \in {"fund", "idle"} THEN "active" ELSE "missing"),
             sess'[n].state = "missing" => sess'[n] = NoSession,
             sess'[n].state = "active" => sess'[n].takeHome = 0 /\ sess'[n].sponsorRepaid = 0
      PROVE  Shape'
  <2>1. game.there /\ n \in Sessions
    BY <1>0, <1>3 DEF SitSpots
  <2>2. \A s \in Sessions : (Left(s) <=> s < n) /\ (Left(s)' <=> s < n)
    BY <1>0, <1>3, <2>1 DEF Left, SitSpots
  <2>3. \A s \in Sessions : stakes'[s].status \in Over => s < n
    <3>1. pc \notin LeaveSpots /\ game.there
      BY <1>3, <2>1 DEF SitSpots, LeaveSpots
    <3>2. \A s \in Sessions : stakes[s].status \in Over => s < n
      BY <3>1 DEF Shape
    <3>3. ~(n < n)
      BY <1>0
    <3> QED BY <1>3, <3>2
  <2>4. \A s \in Sessions :
          /\ sess'[s].state = IF s < n THEN "closed"
                             ELSE IF s = n /\ pc' \notin SitSpots \ {"fund"} THEN "active" ELSE "missing"
          /\ sess'[s].state = "missing" => sess'[s] = NoSession
          /\ sess'[s].state = "active" => sess'[s].takeHome = 0 /\ sess'[s].sponsorRepaid = 0
    <3> SUFFICES ASSUME NEW s \in Sessions
                 PROVE  /\ sess'[s].state = IF s < n THEN "closed"
                             ELSE IF s = n /\ pc' \notin SitSpots \ {"fund"} THEN "active" ELSE "missing"
                        /\ sess'[s].state = "missing" => sess'[s] = NoSession
                        /\ sess'[s].state = "active" => sess'[s].takeHome = 0 /\ sess'[s].sponsorRepaid = 0
      OBVIOUS
    <3>1. CASE s = n
      <4>1. ~(n < n) /\ (pc' \in {"fund", "idle"} <=> pc' \notin SitSpots \ {"fund"})
        BY <1>0, <1>3 DEF SitSpots
      <4> QED BY <1>3, <3>1, <4>1
    <3>2. CASE s # n
      BY <1>3, <2>2, <3>2 DEF Shape
    <3> QED BY <3>1, <3>2
  <2>5. (game.there <=> saved.there) /\ game.pending = 0
    BY <1>3 DEF Shape
  <2>6. pc' \notin LeaveSpots \cup {"debit"}
    BY <1>3 DEF SitSpots, LeaveSpots
  <2>7. \A s \in Sessions : stakes'[s].status \in Over => s < n' \/ (s = n' /\ (pc' \in LeaveSpots \/ ~game'.there))
    BY <1>3, <2>3
  <2> QED BY <1>1, <1>3, <2>1, <2>2, <2>4, <2>5, <2>6, <2>7 DEF Shape
<1>4. ASSUME pc \in SitSpots
      PROVE  /\ game.there /\ n \in Sessions
             /\ sess[n].state = IF pc = "fund" THEN "active" ELSE "missing"
             /\ sess[n].state = "missing" => sess[n] = NoSession
             /\ sess[n].state = "active" => sess[n].takeHome = 0 /\ sess[n].sponsorRepaid = 0
  <2>1. game.there /\ n \in Sessions
    BY <1>0, <1>4 DEF SitSpots
  <2>2. ~Left(n)
    BY <1>0, <1>4, <2>1 DEF Left, SitSpots
  <2> QED BY <1>4, <2>1, <2>2 DEF Shape, SitSpots
<1>5. ASSUME NEW b \in Nat, sess' = [sess EXCEPT ![n] = [NoSession EXCEPT !.state = "active", !.buyIn = b]], n \in Sessions
      PROVE  /\ \A s \in Sessions \ {n} : sess'[s] = sess[s]
             /\ sess'[n].state = "active" /\ sess'[n].takeHome = 0 /\ sess'[n].sponsorRepaid = 0
  <2>1. sess'[n] = [NoSession EXCEPT !.state = "active", !.buyIn = b]
    BY <1>0, <1>5
  <2>2. /\ sess'[n].state = "active" /\ sess'[n].takeHome = 0 /\ sess'[n].sponsorRepaid = 0
    BY <2>1 DEF NoSession
  <2> QED BY <1>0, <1>5, <2>2
<1>6. CASE SitDebits
  <2>1. pc = "debit" /\ pc' = "record" /\ UNCHANGED <<game, saved, n, sess, stakes>>
    BY <1>6 DEF SitDebits
  <2>2. pc \in SitSpots /\ pc' \in SitSpots /\ pc' # "debit"
    BY <2>1 DEF SitSpots
  <2> QED BY <1>3, <1>4, <2>1, <2>2
<1>7. CASE SitRecords
  <2>1. pc = "record" /\ pc' = "idle" /\ UNCHANGED <<game, saved, n, stakes>>
        /\ sess' = [sess EXCEPT ![n] = [NoSession EXCEPT !.state = "active", !.buyIn = task.amount]]
    BY <1>7 DEF SitRecords
  <2>2. pc \in SitSpots /\ task.amount \in Nat
    BY <2>1, FieldTypes DEF SitSpots, CashInv
  <2>3. \A s \in Sessions \ {n} : sess'[s] = sess[s]
    BY <1>4, <1>5, <2>1, <2>2
  <2>4. sess'[n].state = "active" /\ sess'[n].takeHome = 0 /\ sess'[n].sponsorRepaid = 0
    BY <1>4, <1>5, <2>1, <2>2
  <2> QED BY <1>3, <2>1, <2>2, <2>3, <2>4
<1>8. CASE SponsorStakes
  <2>1. pc = "stake" /\ pc' = "begin" /\ UNCHANGED <<game, saved, n, sess>>
        /\ stakes' = [stakes EXCEPT ![n] =
                    [status |-> "active", kind |-> task.kind, principal |-> task.amount,
                     carry |-> 0, owed |-> task.amount, repaid |-> 0, left |-> 0]]
    BY <1>8 DEF SponsorStakes
  <2>2. pc \in SitSpots /\ pc' \in SitSpots /\ pc' # "debit"
    BY <2>1 DEF SitSpots
  <2>3. \A s \in Sessions : stakes'[s].status = stakes[s].status \/ (s = n /\ stakes'[s].status \notin Over)
    BY <1>0, <2>1 DEF Over
  <2> QED BY <1>3, <1>4, <2>1, <2>2, <2>3
<1>9. CASE SponsorRecords
  <2>1. pc = "begin" /\ pc' = "fund" /\ UNCHANGED <<game, saved, n, stakes>>
        /\ sess' = [sess EXCEPT ![n] = [NoSession EXCEPT !.state = "active"]]
    BY <1>9 DEF SponsorRecords
  <2>2. pc \in SitSpots /\ pc' \in SitSpots
    BY <2>1 DEF SitSpots
  <2>3. n \in Sessions
    BY <1>4, <2>2
  <2>4. \A s \in Sessions \ {n} : sess'[s] = sess[s]
    BY <1>0, <2>1
  <2>5. sess'[n] = [NoSession EXCEPT !.state = "active"]
    BY <1>0, <2>1, <2>3
  <2>6. sess'[n].state = "active" /\ sess'[n].takeHome = 0 /\ sess'[n].sponsorRepaid = 0
    BY <2>5 DEF NoSession
  <2> QED BY <1>3, <2>1, <2>2, <2>4, <2>6
<1>10. CASE SponsorFunds
  <2>1. pc = "fund" /\ pc' = "idle" /\ UNCHANGED <<game, saved, n, sess, stakes>>
    BY <1>10 DEF SponsorFunds
  <2>2. pc \in SitSpots /\ sess[n].state = "active"
    BY <1>4, <2>1 DEF SitSpots
  <2> QED BY <1>3, <1>4, <2>1, <2>2
<1>11. ASSUME NEW amount \in BuyIns, SitBuilds(amount) \/ \E kind \in {"house", "persona"} : SponsorBuilds(kind, amount)
       PROVE  Shape'
  BY <1>2, <1>11 DEF SitBuilds, SponsorBuilds
<1> QED BY <1>6, <1>7, <1>8, <1>9, <1>10, <1>11 DEF Sitting

\* The chips in a game.
InPlay(g) == g.stack + g.rest + g.pot

\* The owner's chips go from the bankroll into the game, and count as bought in.
PaysIn(paid) ==
    /\ purse' = purse - paid /\ InPlay(game') = InPlay(game) + paid
    /\ \/ sess' = sess /\ paid = 0
       \/ sess[n].state = "active" /\ sess' = [sess EXCEPT ![n].buyIn = @ + paid]

\* The steps of the table that are not a leave.
AtTable ==
    /\ Playing \/ \E amount \in 1..MaxBuyIn : TopUp(amount) \/ Rebuy(amount) \/ StageTopUp(amount)
    /\ Apart

\* Whatever happens at a table, chips come in from the bankroll alone, and are booked.
LEMMA TablePays ==
  ASSUME CashInv, Shape, AtTable
  PROVE  /\ UNCHANGED <<lender, bank, n, stakes, pc, task, busy, job>>
         /\ game.there /\ game'.there /\ saved'.there /\ pc \notin LeaveSpots /\ n \in Sessions
         /\ pc \in SitSpots => game'.pending = 0
         /\ \E paid \in Nat : PaysIn(paid)
<1>0. /\ purse \in Nat /\ game \in Games /\ n \in 0..MaxSessions /\ (game.there => n \in Sessions)
      /\ game.stack \in Nat /\ game.rest \in Nat /\ game.pot \in Nat /\ game.pending \in Nat
      /\ ~(~game.there /\ saved.there)
      /\ sess \in [Sessions -> [state : {"missing", "active", "closed", "broken"}, buyIn : Nat,
                              takeHome : Nat, sponsorRepaid : Nat]]
  BY FieldTypes DEF CashInv, TypeOK, Covered, Shape
<1>1. pc \in SitSpots => game.pending = 0
  BY DEF Shape
<1>2. Applied \in Nat /\ (game.pending = 0 => Applied = 0)
  BY <1>0 DEF Applied
<1>3. game.there /\ pc \notin LeaveSpots =>
         \/ sess[n].state = "active"
         \/ sess[n].state = "missing" /\ pc \in SitSpots
  <2> SUFFICES ASSUME game.there, pc \notin LeaveSpots
               PROVE  sess[n].state = "active" \/ (sess[n].state = "missing" /\ pc \in SitSpots)
    OBVIOUS
  <2>1. n \in Sessions /\ ~Left(n)
    BY <1>0 DEF Left, LeaveSpots
  <2> QED BY <2>1 DEF Shape
<1>5. ASSUME NEW own \in 0..MaxBet, NEW rest \in 0..MaxBet, Bet(own, rest)
      PROVE  /\ UNCHANGED <<purse, lender, bank, n, sess, stakes, pc, task, busy, job>>
             /\ game.there /\ game'.there /\ saved'.there /\ pc \notin LeaveSpots
             /\ game'.pending = game.pending /\ InPlay(game') = InPlay(game)
  <2>1. own \in Nat /\ rest \in Nat
    BY CashAssumption
  <2>2. /\ UNCHANGED <<purse, lender, bank, n, sess, stakes, pc, task, busy, job>>
        /\ game.there /\ pc \notin LeaveSpots
        /\ game' = [game EXCEPT !.stack = @ - own, !.rest = @ - rest, !.pot = @ + own + rest,
                                   !.theirs = @ + rest]
        /\ saved' = Row(game')
    BY <1>5 DEF Bet, LockFree, chips, table, lobby
  <2>3. /\ game'.there /\ game'.pending = game.pending
        /\ game'.stack = game.stack - own /\ game'.rest = game.rest - rest /\ game'.pot = game.pot + own + rest
    BY <1>0, <2>2 DEF Games
  <2>4. saved'.there
    <3>1. game.stack - own \in Nat /\ game.rest - rest \in Nat /\ game.pot + own + rest \in Nat
          /\ game.theirs + rest \in Nat
      BY <1>0, <1>5, <2>1 DEF Bet, Games
    <3>2. game' \in Games
      BY <1>0, <2>2, <3>1 DEF Games
    <3> QED BY <2>2, <2>3, <3>2 DEF Row, Games
  <2> QED BY <1>0, <2>1, <2>2, <2>3, <2>4 DEF InPlay
<1>6. ASSUME NEW won \in {0, game.pot}
      PROVE  /\ Won(won) \in Games /\ Won(won).there = game.there /\ Won(won).pending = game.pending
             /\ Won(won).stack = game.stack + won /\ Won(won).rest = game.rest + game.pot - won
             /\ Won(won).pot = 0 /\ won \in Nat
             /\ InPlay(Won(won)) = InPlay(game)
  <2>1. won \in Nat /\ game.stack + won \in Nat /\ game.rest + game.pot - won \in Nat
    BY <1>0
  <2>2. Won(won) \in Games /\ Won(won).there = game.there /\ Won(won).pending = game.pending
             /\ Won(won).stack = game.stack + won /\ Won(won).rest = game.rest + game.pot - won
             /\ Won(won).pot = 0
    BY <1>0, <2>1 DEF Won, Games
  <2> QED BY <1>0, <2>1, <2>2 DEF InPlay
<1>7. ASSUME NEW won \in {0, game.pot}, HandPauses(won) \/ NextHandUnflushed(won)
      PROVE  /\ UNCHANGED <<purse, lender, bank, n, sess, stakes, pc, task, busy, job>>
             /\ game.there /\ game'.there /\ saved'.there /\ pc \notin LeaveSpots
             /\ game'.pending = game.pending /\ InPlay(game') = InPlay(game)
  <2>1. /\ UNCHANGED <<purse, lender, bank, n, sess, stakes, pc, task, busy, job>>
        /\ game.there /\ pc \notin LeaveSpots /\ saved' = Row(game')
        /\ game' = [Won(won) EXCEPT !.mid = FALSE] \/ game' = Won(won)
    BY <1>7 DEF HandPauses, NextHandUnflushed, HandOver, LockFree, chips, table, lobby
  <2>2. /\ game' \in Games /\ game'.there /\ game'.pending = game.pending
        /\ game'.stack = Won(won).stack /\ game'.rest = Won(won).rest /\ game'.pot = Won(won).pot
    BY <1>6, <2>1 DEF Games
  <2>3. saved'.there
    BY <2>1, <2>2 DEF Row, Games
  <2>4. InPlay(game') = InPlay(Won(won))
    BY <2>2 DEF InPlay
  <2> QED BY <1>6, <2>1, <2>2, <2>3, <2>4
<1>8. ASSUME NEW won \in {0, game.pot}, NextHand(won)
      PROVE  /\ UNCHANGED <<lender, bank, n, stakes, pc, task, busy, job>>
             /\ game.there /\ game'.there /\ saved'.there /\ pc \notin LeaveSpots
             /\ game'.pending = 0 /\ InPlay(game') = InPlay(game) + Applied /\ purse' = purse - Applied
             /\ BuysIn(Applied)
  <2>1. /\ UNCHANGED <<lender, bank, n, stakes, pc, task, busy, job>>
        /\ game.there /\ pc \notin LeaveSpots /\ saved' = Row(game') /\ purse' = purse - Applied /\ BuysIn(Applied)
        /\ game' = [Won(won) EXCEPT !.stack = @ + Applied, !.pending = 0]
    BY <1>8 DEF NextHand, HandOver, LockFree, table, lobby
  <2>2. /\ game' \in Games /\ game'.there /\ game'.pending = 0
        /\ game'.stack = Won(won).stack + Applied /\ game'.rest = Won(won).rest /\ game'.pot = Won(won).pot
    <3>1. Won(won).stack \in Nat /\ Won(won).stack + Applied \in Nat
      BY <1>2, <1>6 DEF Games
    <3> QED BY <1>6, <2>1, <3>1 DEF Games
  <2>3. saved'.there
    BY <2>1, <2>2 DEF Row, Games
  <2>4. InPlay(game') = InPlay(Won(won)) + Applied
    <3>1. Won(won).stack \in Nat /\ Won(won).rest \in Nat /\ Won(won).pot \in Nat
      BY <1>6 DEF Games
    <3> QED BY <1>2, <2>2, <3>1 DEF InPlay
  <2> QED BY <1>6, <2>1, <2>2, <2>3, <2>4
<1>9. ASSUME Resumes
      PROVE  /\ UNCHANGED <<purse, lender, bank, n, sess, stakes, pc, task, busy, job>>
             /\ game.there /\ game'.there /\ saved'.there /\ pc \notin LeaveSpots
             /\ game'.pending = game.pending /\ InPlay(game') = InPlay(game)
  <2>1. /\ UNCHANGED <<purse, lender, bank, n, sess, stakes, pc, task, busy, job>>
        /\ game.there /\ pc \notin LeaveSpots /\ saved' = Row(game') /\ game' = [game EXCEPT !.mid = TRUE]
    BY <1>9 DEF Resumes, LockFree, chips, table, lobby
  <2>2. /\ game' \in Games /\ game'.there /\ game'.pending = game.pending
        /\ game'.stack = game.stack /\ game'.rest = game.rest /\ game'.pot = game.pot
    BY <1>0, <2>1 DEF Games
  <2>3. saved'.there
    BY <2>1, <2>2 DEF Row, Games
  <2> QED BY <2>1, <2>2, <2>3 DEF InPlay
<1>10. ~ColdLoad
  BY <1>0 DEF ColdLoad
<1>11. ASSUME NEW amount \in 1..MaxBuyIn, TopUp(amount) \/ Rebuy(amount)
       PROVE  /\ UNCHANGED <<lender, bank, n, stakes, pc, task, busy, job>>
              /\ game.there /\ game'.there /\ saved'.there /\ pc = "idle" /\ amount \in Nat
              /\ InPlay(game') = InPlay(game) + amount /\ purse' = purse - amount
              /\ BuysIn(amount)
  <2>1. amount \in Nat
    BY CashAssumption
  <2>2. /\ UNCHANGED <<lender, bank, n, saved, stakes, pc, task, busy, job>>
        /\ game.there /\ pc = "idle" /\ purse' = purse - amount /\ BuysIn(amount)
        /\ game' = [game EXCEPT !.stack = @ + amount]
    BY <1>11 DEF TopUp, Rebuy, Buys, table, lobby
  <2>3. game'.there /\ game'.stack = game.stack + amount /\ game'.rest = game.rest /\ game'.pot = game.pot
    BY <1>0, <2>2 DEF Games
  <2>4. saved'.there
    BY <2>2 DEF Shape
  <2> QED BY <1>0, <2>1, <2>2, <2>3, <2>4 DEF InPlay
<1>12. ASSUME NEW amount \in 1..MaxBuyIn, StageTopUp(amount)
       PROVE  /\ UNCHANGED <<purse, lender, bank, n, sess, stakes, pc, task, busy, job>>
              /\ game.there /\ game'.there /\ saved'.there /\ pc = "idle" /\ InPlay(game') = InPlay(game)
  <2>2. /\ UNCHANGED <<purse, lender, bank, n, saved, sess, stakes, pc, task, busy, job>>
        /\ game.there /\ pc = "idle"
        /\ game' = [game EXCEPT !.pending = @ + amount]
    BY <1>12 DEF StageTopUp, chips, table, lobby
  <2>3. game'.there /\ game'.stack = game.stack /\ game'.rest = game.rest /\ game'.pot = game.pot
    BY <1>0, <2>2 DEF Games
  <2>4. saved'.there
    BY <2>2 DEF Shape
  <2> QED BY <2>2, <2>3, <2>4 DEF InPlay
<1>13. "idle" \notin SitSpots \cup LeaveSpots
  BY DEF SitSpots, LeaveSpots
<1>14. ASSUME UNCHANGED <<purse, sess>>, InPlay(game') = InPlay(game) PROVE \E paid \in Nat : PaysIn(paid)
  <2>1. PaysIn(0)
    BY <1>0, <1>14 DEF PaysIn, InPlay
  <2> QED BY <2>1
<1>15. ASSUME NEW paid \in Nat, purse' = purse - paid, InPlay(game') = InPlay(game) + paid, BuysIn(paid),
              game.there, pc \notin LeaveSpots, pc \in SitSpots => paid = 0
       PROVE  \E p \in Nat : PaysIn(p)
  <2>1. n \in Sessions
    BY <1>0, <1>15
  <2>2. CASE sess[n].state = "active"
    <3>1. sess' = [sess EXCEPT ![n].buyIn = @ + paid]
      BY <1>15, <2>2 DEF BuysIn
    <3> QED BY <1>15, <2>2, <3>1 DEF PaysIn
  <2>3. CASE sess[n].state = "missing" /\ pc \in SitSpots
    <3>1. sess' = [sess EXCEPT ![n].buyIn = @ + 0] /\ paid = 0
      BY <1>15, <2>3 DEF BuysIn
    <3>2. sess' = sess
      BY <1>0, <2>1, <3>1
    <3>3. PaysIn(0)
      BY <1>15, <3>1, <3>2 DEF PaysIn
    <3> QED BY <3>3
  <2> QED BY <1>3, <1>15, <2>2, <2>3
<1>16. CASE \E own, rest \in 0..MaxBet : Bet(own, rest)
  BY <1>0, <1>1, <1>5, <1>14, <1>16
<1>17. CASE \E won \in {0, game.pot} : HandPauses(won) \/ NextHandUnflushed(won)
  BY <1>0, <1>1, <1>7, <1>14, <1>17
<1>18. CASE \E won \in {0, game.pot} : NextHand(won)
  BY <1>0, <1>1, <1>2, <1>8, <1>15, <1>18
<1>19. CASE Resumes
  BY <1>0, <1>1, <1>9, <1>14, <1>19
<1>20. CASE \E amount \in 1..MaxBuyIn : TopUp(amount) \/ Rebuy(amount)
  BY <1>0, <1>11, <1>13, <1>15, <1>20
<1>21. CASE \E amount \in 1..MaxBuyIn : StageTopUp(amount)
  BY <1>0, <1>12, <1>13, <1>14, <1>21
<1> QED BY <1>10, <1>16, <1>17, <1>18, <1>19, <1>20, <1>21 DEF AtTable, Playing

\* A step of a game that goes on: what the rows say of its session is kept, or it is
\* closed on the way to its removal.
LEMMA ShapeKeeps ==
  ASSUME CashInv, Shape, Apart, n' = n, game.there, game'.there, saved'.there,
         (pc \notin SitSpots /\ pc' \notin SitSpots) \/ (pc' = pc /\ game'.pending = 0 /\ stakes' = stakes),
         pc = "remove" => pc' = "remove",
         \A s \in Sessions : stakes'[s].status \in Over =>
             stakes[s].status \in Over \/ (s = n /\ pc' \in LeaveSpots),
         pc \in LeaveSpots => pc' \in LeaveSpots,
         \A s \in Sessions \ {n} : sess'[s] = sess[s],
         IF pc' = "remove" /\ pc # "remove" THEN sess'[n].state = "closed"
         ELSE \/ sess'[n] = sess[n]
              \/ /\ sess[n].state = "active" /\ sess'[n].state = "active"
                 /\ sess'[n].takeHome = sess[n].takeHome /\ sess'[n].sponsorRepaid = sess[n].sponsorRepaid
  PROVE  Shape'
<1>1. /\ n \in Nat /\ n \in Sessions /\ \A s \in Sessions : s \in Nat
  BY ShapeTypes
<1>2. /\ \A r \in Requests : busy'[r] # "idle" => pc' \notin LeaveSpots \cup {"debit"}
      /\ \A r, q \in Requests : busy'[r] # "idle" /\ busy'[q] # "idle" => job'[r].stake = job'[q].stake
  BY ApartMeans
<1>3. \A s \in Sessions :
        /\ Left(s) <=> s < n \/ (s = n /\ pc = "remove")
        /\ Left(s)' <=> s < n \/ (s = n /\ pc' = "remove")
  BY <1>1 DEF Left
<1>4. pc \in SitSpots => pc # "remove"
  BY DEF SitSpots
<1>5. \A s \in Sessions :
          /\ sess'[s].state = IF Left(s)' THEN "closed"
                             ELSE IF s = n /\ pc' \notin SitSpots \ {"fund"} THEN "active" ELSE "missing"
          /\ sess'[s].state = "missing" => sess'[s] = NoSession
          /\ sess'[s].state = "active" => sess'[s].takeHome = 0 /\ sess'[s].sponsorRepaid = 0
  <2> SUFFICES ASSUME NEW s \in Sessions
               PROVE  /\ sess'[s].state = IF Left(s)' THEN "closed"
                             ELSE IF s = n /\ pc' \notin SitSpots \ {"fund"} THEN "active" ELSE "missing"
                      /\ sess'[s].state = "missing" => sess'[s] = NoSession
                      /\ sess'[s].state = "active" => sess'[s].takeHome = 0 /\ sess'[s].sponsorRepaid = 0
    OBVIOUS
  <2>0. /\ sess[s].state = IF Left(s) THEN "closed"
                             ELSE IF s = n /\ pc \notin SitSpots \ {"fund"} THEN "active" ELSE "missing"
        /\ sess[s].state = "missing" => sess[s] = NoSession
        /\ sess[s].state = "active" => sess[s].takeHome = 0 /\ sess[s].sponsorRepaid = 0
    BY DEF Shape
  <2>1. CASE s # n
    BY <1>1, <1>3, <2>0, <2>1
  <2>2. CASE s = n /\ pc' = "remove" /\ pc # "remove"
    BY <1>3, <2>2
  <2>3. CASE s = n /\ pc' = "remove" /\ pc = "remove"
    <3>1. sess[n].state = "closed"
      BY <1>1, <1>3, <2>0, <2>3
    <3>2. sess'[n] = sess[n]
      BY <2>3, <3>1
    <3> QED BY <1>3, <2>3, <3>1, <3>2
  <2>4. CASE s = n /\ pc' # "remove"
    <3>1. pc # "remove" /\ ~(n < n)
      BY <1>1, <2>4
    <3>2. pc' \notin SitSpots \ {"fund"} <=> pc \notin SitSpots \ {"fund"}
      OBVIOUS
    <3>3. sess[n].state = IF pc \notin SitSpots \ {"fund"} THEN "active" ELSE "missing"
      BY <1>1, <1>3, <2>0, <2>4, <3>1
    <3>4. ~Left(n)'
      BY <1>1, <1>3, <2>4, <3>1
    <3> QED BY <2>0, <2>4, <3>2, <3>3, <3>4
  <2> QED BY <2>1, <2>2, <2>3, <2>4
<1>6. \A s \in Sessions : stakes'[s].status \in Over => s < n \/ (s = n /\ pc' \in LeaveSpots)
  BY DEF Shape
<1>7. pc' \in SitSpots => game'.pending = 0
  BY DEF Shape
<1> QED BY <1>1, <1>2, <1>5, <1>6, <1>7 DEF Shape

\* Play changes no session's place in its life.
LEMMA ShapeTable ==
  ASSUME CashInv, Shape, AtTable
  PROVE  Shape'
<1>1. /\ UNCHANGED <<lender, bank, n, stakes, pc, task, busy, job>>
      /\ game.there /\ game'.there /\ saved'.there /\ pc \notin LeaveSpots /\ n \in Sessions
      /\ pc \in SitSpots => game'.pending = 0
  BY TablePays
<1>2. PICK paid \in Nat : PaysIn(paid)
  BY TablePays
<1>3. sess \in [Sessions -> [state : {"missing", "active", "closed", "broken"}, buyIn : Nat,
                              takeHome : Nat, sponsorRepaid : Nat]]
  BY DEF CashInv, TypeOK
<1>4. \A s \in Sessions \ {n} : sess'[s] = sess[s]
  BY <1>1, <1>2, <1>3 DEF PaysIn
<1>5. \/ sess'[n] = sess[n]
      \/ /\ sess[n].state = "active" /\ sess'[n].state = "active"
         /\ sess'[n].takeHome = sess[n].takeHome /\ sess'[n].sponsorRepaid = sess[n].sponsorRepaid
  BY <1>1, <1>2, <1>3 DEF PaysIn
<1>6. pc # "remove"
  BY <1>1 DEF LeaveSpots
<1>7. Apart
  BY DEF AtTable
<1> QED BY <1>1, <1>4, <1>5, <1>6, <1>7, ShapeKeeps

\* A leave closes the session before it drops the game and its row.
LEMMA ShapeLeaves ==
  ASSUME CashInv, Shape, Paid, Apart,
         LeaveSettles \/ LeavePaysStaker \/ LeaveCredits \/ LeaveFinalises \/ LeaveRemoves
  PROVE  Shape'
<1>0. /\ n \in Nat /\ \A s \in Sessions : s \in Nat
      /\ game.there => n \in Sessions
      /\ ~game.there => game = NoGame /\ pc = "idle" /\ ~saved.there
      /\ sess \in [Sessions -> [state : {"missing", "active", "closed", "broken"}, buyIn : Nat,
                              takeHome : Nat, sponsorRepaid : Nat]]
      /\ stakes \in [Sessions -> StakeRows]
      /\ game.there <=> saved.there
  BY ShapeTypes DEF CashInv, TypeOK, StakeRows, Shape
<1>1. {"settle", "credit", "finalise", "remove"} \cap (SitSpots \cup {"idle"}) = {}
      /\ "idle" \notin SitSpots \cup LeaveSpots
  BY DEF SitSpots, LeaveSpots
<1>2. CASE LeaveSettles
  <2>1. /\ game.there /\ game' = game /\ saved' = saved /\ n' = n /\ sess' = sess
        /\ pc = "idle" /\ pc' \in {"settle", "credit"}
    BY <1>0, <1>2 DEF LeaveSettles
  <2>2. \A s \in Sessions \ {n} : stakes'[s] = stakes[s]
    BY <1>0, <1>2, <2>1 DEF LeaveSettles
  <2>3. pc' \in LeaveSpots
    BY <2>1 DEF LeaveSpots
  <2>4. \A s \in Sessions : stakes'[s].status \in Over =>
             stakes[s].status \in Over \/ (s = n /\ pc' \in LeaveSpots)
    BY <2>2, <2>3
  <2> QED BY <1>0, <1>1, <2>1, <2>3, <2>4, ShapeKeeps
<1>3. CASE LeavePaysStaker \/ LeaveCredits \/ LeaveFinalises
  <2>1. /\ game' = game /\ saved' = saved /\ n' = n
        /\ pc \in {"settle", "credit", "finalise"} /\ pc' \in {"credit", "finalise", "remove"}
        /\ pc' = "remove" => pc = "finalise"
    BY <1>3 DEF LeavePaysStaker, LeaveCredits, LeaveFinalises
  <2>2. game.there /\ n \in Sessions
    BY <1>0, <2>1
  <2>3. \A s \in Sessions : stakes'[s].status = stakes[s].status
    <3>1. CASE LeaveCredits \/ LeaveFinalises
      BY <3>1 DEF LeaveCredits, LeaveFinalises
    <3>2. CASE LeavePaysStaker
      <4>1. stakes' = [stakes EXCEPT ![n] = [stakes[n] EXCEPT !.repaid = stakes[n].repaid + task.staker]]
        BY <1>0, <2>2, <3>2 DEF LeavePaysStaker
      <4>2. stakes[n] \in StakeRows
        BY <1>0, <2>2
      <4>3. [stakes[n] EXCEPT !.repaid = stakes[n].repaid + task.staker].status = stakes[n].status
        BY <4>2 DEF StakeRows
      <4> QED BY <1>0, <2>2, <4>1, <4>3
    <3> QED BY <1>3, <3>1, <3>2
  <2>4. \A s \in Sessions \ {n} : sess'[s] = sess[s]
    BY <1>0, <1>3, <2>2 DEF LeavePaysStaker, LeaveCredits, LeaveFinalises
  <2>5. IF pc' = "remove" THEN sess'[n].state = "closed" ELSE sess'[n] = sess[n]
    <3>1. CASE LeavePaysStaker \/ LeaveCredits
      BY <3>1 DEF LeavePaysStaker, LeaveCredits
    <3>2. CASE LeaveFinalises
      <4>1. ~Left(n) /\ pc = "finalise"
        BY <1>0, <2>2, <3>2 DEF Left, LeaveFinalises
      <4>2. sess[n].state = "active"
        BY <1>1, <2>2, <4>1 DEF Shape
      <4> QED BY <1>0, <2>2, <3>2, <4>2 DEF LeaveFinalises
    <3> QED BY <1>3, <3>1, <3>2
  <2>6. pc \in LeaveSpots /\ pc' \in LeaveSpots
    BY <2>1 DEF LeaveSpots
  <2> QED BY <1>0, <1>1, <2>1, <2>2, <2>3, <2>4, <2>5, <2>6, ShapeKeeps
<1>4. CASE LeaveRemoves
  <2>1. /\ pc = "remove" /\ pc' = "idle" /\ game' = NoGame /\ saved' = NoGame /\ n' = n /\ sess' = sess /\ stakes' = stakes
    BY <1>4 DEF LeaveRemoves
  <2>2. game.there /\ n \in Sessions /\ ~NoGame.there
    BY <1>0, <2>1 DEF NoGame
  <2>3. \A s \in Sessions : (Left(s) <=> s <= n) /\ (Left(s)' <=> s <= n)
    BY <1>0, <2>1, <2>2 DEF Left
  <2>4. \A s \in Sessions :
          /\ sess'[s].state = IF Left(s)' THEN "closed"
                             ELSE IF s = n' /\ pc' \notin SitSpots \ {"fund"} THEN "active" ELSE "missing"
          /\ sess'[s].state = "missing" => sess'[s] = NoSession
          /\ sess'[s].state = "active" => sess'[s].takeHome = 0 /\ sess'[s].sponsorRepaid = 0
    <3>1. \A s \in Sessions : s = n => Left(s) /\ Left(s)'
      BY <1>0, <2>3
    <3> QED BY <2>1, <2>3, <3>1 DEF Shape
  <2>5. \A s \in Sessions : stakes'[s].status \in Over => s < n \/ s = n
    BY <2>1 DEF Shape
  <2>6. /\ \A r \in Requests : busy'[r] # "idle" => pc' \notin LeaveSpots \cup {"debit"}
        /\ \A r, q \in Requests : busy'[r] # "idle" /\ busy'[q] # "idle" => job'[r].stake = job'[q].stake
    BY ApartMeans
  <2> QED BY <1>1, <2>1, <2>2, <2>4, <2>5, <2>6 DEF Shape
<1> QED BY <1>2, <1>3, <1>4

\* A request about a carry touches no session, and keeps to the one stake.
LEMMA ShapeResolves ==
  ASSUME CashInv, Shape, Paid, Apart, NEW r \in Requests, NEW s \in Sessions, Looks(r, s) \/ Advances(r, s)
  PROVE  Shape'
<1>1. /\ UNCHANGED <<game, saved, n, sess, pc>>
      /\ \A u \in Sessions : stakes'[u].status \in Over => stakes[u].status \in Over
  <2>1. CASE Looks(r, s)
    BY <2>1 DEF Looks, Move
  <2>2. CASE Advances(r, s)
    <3>1. UNCHANGED <<game, saved, n, sess, pc>> /\ job[r].stake = s /\ busy[r] # "idle"
          /\ \A u \in Sessions \ {s} : stakes'[u] = stakes[u]
      BY <2>2 DEF Advances, GoesOn, Move
    <3>2. stakes[s].status \in Over
      BY <3>1 DEF Paid, JobKnows
    <3> QED BY <3>1, <3>2
  <2> QED BY <2>1, <2>2
<1>2. /\ \A q \in Requests : busy'[q] # "idle" => pc' \notin LeaveSpots \cup {"debit"}
      /\ \A p, q \in Requests : busy'[p] # "idle" /\ busy'[q] # "idle" => job'[p].stake = job'[q].stake
  BY ApartMeans
<1>3. \A u \in Sessions : Left(u)' <=> Left(u)
  BY <1>1 DEF Left
<1> QED BY <1>1, <1>2, <1>3 DEF Shape

-----------------------------------------------------------------------------
(* The chips, and what the sessions' books say.                              *)
\* A profit is a number; so it is after the step.
LEMMA ProfitInt ==
  ASSUME CashInv, NEW s \in Sessions
  PROVE  Profit(s) \in Int
<1>1. sess[s].buyIn \in Nat /\ sess[s].takeHome \in Nat /\ sess[s].sponsorRepaid \in Nat /\ stakes[s].repaid \in Nat
  BY FieldTypes DEF CashInv, TypeOK
<1> QED BY <1>1 DEF Profit

LEMMA ProfitIntNext ==
  ASSUME CashInv', NEW s \in Sessions
  PROVE  Profit(s)' \in Int
<1>1. /\ sess' \in [Sessions -> [state : {"missing", "active", "closed", "broken"}, buyIn : Nat,
                              takeHome : Nat, sponsorRepaid : Nat]]
      /\ stakes' \in [Sessions -> StakeRows]
  BY DEF CashInv, TypeOK, StakeRows
<1>2. sess'[s].buyIn \in Nat /\ sess'[s].takeHome \in Nat /\ sess'[s].sponsorRepaid \in Nat
  BY <1>1
<1>3. stakes'[s].repaid \in Nat
  <2>1. stakes'[s] \in StakeRows
    BY <1>1
  <2> QED BY <2>1 DEF StakeRows
<1> QED BY <1>2, <1>3 DEF Profit

\* The books are a sum over a finite set.
LEMMA BookedTypes ==
  ASSUME CashInv
  PROVE  Booked \in Int /\ IsFiniteSet(Sessions) /\ Booked = SumFunctionOnSet([s \in Sessions |-> Profit(s)], Sessions)
<1>1. IsFiniteSet(Sessions)
  BY CashAssumption, FS_Interval DEF Sessions
<1>2. Booked = SumFunctionOnSet([s \in Sessions |-> Profit(s)], Sessions)
  BY DEF Booked, SumFunction
<1>3. \A s \in Sessions : [u \in Sessions |-> Profit(u)][s] \in Int
  BY ProfitInt
<1>4. SumFunctionOnSet([s \in Sessions |-> Profit(s)], Sessions) \in Int
  BY <1>1, <1>3, SumInt
<1> QED BY <1>1, <1>2, <1>4

\* What the books say changes with one session's.
LEMMA BookedOne ==
  ASSUME CashInv, CashInv', NEW t \in Sessions, \A s \in Sessions \ {t} : Profit(s)' = Profit(s)
  PROVE  Booked' = Booked + (Profit(t)' - Profit(t))
<1> DEFINE f == [s \in Sessions |-> Profit(s)]
           g == [s \in Sessions |-> Profit(s)']
<1>1. \A s \in Sessions : f[s] \in Int /\ Profit(s)' \in Int
  BY ProfitInt, ProfitIntNext
<1>2. \A s \in Sessions : g[s] \in Int
  BY <1>1
<1>3. \A s \in Sessions \ {t} : g[s] = f[s]
  OBVIOUS
<1>4. IsFiniteSet(Sessions) /\ Booked = SumFunctionOnSet(f, Sessions)
  BY BookedTypes
<1>5. Booked' = SumFunctionOnSet(g, Sessions)
  BY DEF Booked, SumFunction
<1>6. g[t] = Profit(t)' /\ f[t] = Profit(t)
  OBVIOUS
<1> HIDE DEF f, g
<1>7. SumFunctionOnSet(g, Sessions) = SumFunctionOnSet(f, Sessions) + (g[t] - f[t])
  BY <1>1, <1>2, <1>3, <1>4, SumChange
<1> QED BY <1>4, <1>5, <1>6, <1>7

\* No profit changes.
LEMMA BookedSame ==
  ASSUME CashInv, CashInv', \A s \in Sessions : Profit(s)' = Profit(s)
  PROVE  Booked' = Booked
<1>1. 1 \in Sessions
  BY CashAssumption DEF Sessions
<1>2. Profit(1) \in Int /\ Profit(1)' = Profit(1)
  BY <1>1, ProfitInt
<1>3. Booked' = Booked + (Profit(1)' - Profit(1))
  BY <1>1, BookedOne
<1> QED BY <1>2, <1>3, BookedTypes

\* Every total is a number.
LEMMA BooksTypes ==
  ASSUME CashInv, forfeited \in Nat
  PROVE  /\ Total \in Int /\ InFlight \in Int /\ Unbooked \in Int /\ Booked \in Int
         /\ purse \in Int /\ Purse \in Int /\ LenderPurse \in Int /\ Others \in Int
<1>1. /\ purse \in Nat /\ lender \in Nat /\ bank \in Int /\ seats.row \in Nat
      /\ game.stack \in Nat /\ game.rest \in Nat /\ game.pot \in Nat
      /\ task.amount \in Nat /\ task.staker \in Nat /\ task.player \in Nat
  BY FieldTypes DEF CashInv
<1>2. Booked \in Int
  BY BookedTypes
<1> QED BY <1>1, <1>2, CashAssumption DEF Total, TableChips, InFlight, Unbooked

\* A step between what is in flight and the pots, and between the bankroll and the books.
LEMMA BalancedKeeps ==
  ASSUME CashInv, CashInv', forfeited \in Nat, Balanced,
         busy' = busy, job' = job,
         NEW d \in Int, Total' = Total + d, InFlight' = InFlight + d,
         NEW e \in Int, NEW b \in Int, purse' = purse + e, Booked' = Booked + b, Unbooked' = Unbooked + e - b
  PROVE  Balanced'
<1>1. PICK x \in Nat :
        /\ Moving(x)
        /\ Total + x = Purse + LenderPurse + Others + InFlight
        /\ purse + x = Purse + Booked + Unbooked
  BY DEF Balanced
<1>2. Moving(x)'
  BY <1>1 DEF Moving
<1>3. /\ Total \in Int /\ InFlight \in Int /\ Unbooked \in Int /\ Booked \in Int
      /\ purse \in Int /\ Purse \in Int /\ LenderPurse \in Int /\ Others \in Int
  BY BooksTypes
<1>4. Total' + x = Purse + LenderPurse + Others + InFlight'
  BY <1>1, <1>3
<1>5. purse' + x = Purse + Booked' + Unbooked'
  BY <1>1, <1>3
<1> QED BY <1>2, <1>4, <1>5 DEF Balanced

\* What the owner pays in leaves the bankroll, reaches the game and is booked at once.
LEMMA BalancedTable ==
  ASSUME CashInv, CashInv', Shape, Balanced, forfeited \in Nat, Recorded, AtTable
  PROVE  Balanced' /\ forfeited' = forfeited
<1>1. /\ UNCHANGED <<lender, bank, n, stakes, pc, task, busy, job>>
      /\ game.there /\ game'.there /\ saved'.there /\ pc \notin LeaveSpots /\ n \in Sessions
  BY TablePays
<1>2. PICK paid \in Nat : PaysIn(paid)
  BY TablePays
<1>3. /\ sess \in [Sessions -> [state : {"missing", "active", "closed", "broken"}, buyIn : Nat,
                              takeHome : Nat, sponsorRepaid : Nat]]
      /\ purse \in Nat /\ lender \in Nat /\ bank \in Int /\ seats.row \in Nat
      /\ game.stack \in Nat /\ game.rest \in Nat /\ game.pot \in Nat
      /\ game'.stack \in Nat /\ game'.rest \in Nat /\ game'.pot \in Nat
  BY FieldTypes DEF CashInv, TypeOK, Games
<1>4. forfeited' = forfeited
  BY <1>1 DEF Recorded, LeaveSpots
<1>5. PICK d \in Int, e \in Int : d = 0 /\ e = 0 - paid
  BY <1>2
<1>6. Total' = Total + d
  <2>1. Total' = Total + 0
    BY <1>1, <1>2, <1>3, <1>4 DEF Total, TableChips, PaysIn, InPlay
  <2> QED BY <1>5, <2>1
<1>7. InFlight' = InFlight /\ Unbooked' = Unbooked
  BY <1>1 DEF InFlight, Unbooked, LeaveSpots
<1>8. Booked' = Booked + e
  <2>1. CASE sess' = sess /\ paid = 0
    <3>1. \A s \in Sessions : Profit(s)' = Profit(s)
      BY <1>1, <2>1 DEF Profit
    <3> QED BY <1>5, <2>1, <3>1, BookedSame, BookedTypes
  <2>2. CASE sess[n].state = "active" /\ sess' = [sess EXCEPT ![n].buyIn = @ + paid]
    <3>0. PICK t \in Sessions : t = n
      BY <1>1
    <3>1. \A s \in Sessions \ {t} : Profit(s)' = Profit(s)
      BY <1>1, <1>3, <2>2, <3>0 DEF Profit
    <3>2. sess'[t].state = "active" /\ sess'[t].buyIn = sess[t].buyIn + paid /\ sess'[t].takeHome = sess[t].takeHome
          /\ sess[t].buyIn \in Nat /\ sess[t].takeHome \in Nat
      BY <1>1, <1>3, <2>2, <3>0
    <3>3. Profit(t)' - Profit(t) = 0 - paid
      BY <1>1, <2>2, <3>0, <3>2 DEF Profit
    <3>4. Booked' = Booked + (Profit(t)' - Profit(t))
      BY <3>1, BookedOne
    <3> QED BY <1>5, <3>3, <3>4
  <2> QED BY <1>2, <2>1, <2>2 DEF PaysIn
<1>9. /\ Total \in Int /\ InFlight \in Int /\ Unbooked \in Int /\ Booked \in Int
  BY BooksTypes
<1>10. purse' = purse + e
  BY <1>2, <1>3, <1>5 DEF PaysIn
<1>11. InFlight' = InFlight + d /\ Unbooked' = Unbooked + e - e
  BY <1>5, <1>7, <1>9
<1>12. Balanced'
  BY <1>1, <1>6, <1>8, <1>10, <1>11, BalancedKeeps
<1> QED BY <1>4, <1>12

\* A sit is dealt chips before they are paid for: until then they are in flight.
LEMMA BalancedSits ==
  ASSUME CashInv, CashInv', Shape, Money, Balanced, Recorded, Sitting
  PROVE  Balanced' /\ forfeited' = forfeited
<1>0. /\ purse \in Nat /\ lender \in Nat /\ bank \in Int /\ seats.row \in Nat
      /\ game.stack \in Nat /\ game.rest \in Nat /\ game.pot \in Nat
      /\ task.amount \in Nat /\ task.saw \in Nat /\ forfeited \in Nat
      /\ sess \in [Sessions -> [state : {"missing", "active", "closed", "broken"}, buyIn : Nat,
                              takeHome : Nat, sponsorRepaid : Nat]]
      /\ stakes \in [Sessions -> StakeRows]
  BY FieldTypes DEF CashInv, TypeOK, StakeRows, Money
<1>1. /\ Total \in Int /\ InFlight \in Int /\ Unbooked \in Int /\ Booked \in Int
  BY <1>0, BooksTypes
<1>2. busy' = busy /\ job' = job /\ pc # "remove"
  BY DEF Sitting, SitBuilds, SponsorBuilds, Builds, SitDebits, SitRecords, SponsorStakes, SponsorRecords, SponsorFunds, lobby
<1>3. forfeited' = forfeited
  BY <1>0, <1>2 DEF Recorded
<1>4. ASSUME NEW d \in Int, Total' = Total + d, InFlight' = InFlight + d,
             NEW e \in Int, NEW b \in Int, purse' = purse + e, Booked' = Booked + b, Unbooked' = Unbooked + e - b
      PROVE  Balanced'
  BY <1>0, <1>2, <1>3, <1>4, BalancedKeeps
<1>5. pc \in SitSpots =>
         /\ game.there /\ n \in Sessions
         /\ sess[n].state = IF pc = "fund" THEN "active" ELSE "missing"
         /\ sess[n].state = "missing" => sess[n] = NoSession
  <2> SUFFICES ASSUME pc \in SitSpots
               PROVE  /\ game.there /\ n \in Sessions
                      /\ sess[n].state = IF pc = "fund" THEN "active" ELSE "missing"
                      /\ sess[n].state = "missing" => sess[n] = NoSession
    OBVIOUS
  <2>1. game.there /\ n \in Sessions /\ n \in Nat
    BY ShapeTypes DEF SitSpots
  <2>2. ~Left(n)
    BY <2>1 DEF Left, SitSpots
  <2> QED BY <2>1, <2>2 DEF Shape, SitSpots
<1>6. ASSUME sess' = sess, stakes' = stakes PROVE Booked' = Booked + 0
  <2>1. \A s \in Sessions : Profit(s)' = Profit(s)
    BY <1>6 DEF Profit
  <2> QED BY <1>1, <2>1, BookedSame
<1>7. ASSUME n \in Sessions, sess[n] = NoSession, \A s \in Sessions \ {n} : sess'[s] = sess[s] /\ stakes'[s] = stakes[s],
             NEW b \in Nat, sess'[n].buyIn = b, sess'[n].takeHome = 0, sess'[n].state # "closed"
      PROVE  Booked' = Booked + (0 - b)
  <2>0. PICK t \in Sessions : t = n
    BY <1>7
  <2>1. \A s \in Sessions \ {t} : Profit(s)' = Profit(s)
    BY <1>7, <2>0 DEF Profit
  <2>2. Profit(t) = 0
    BY <1>7, <2>0 DEF Profit, NoSession
  <2>3. Profit(t)' = 0 - b
    BY <1>7, <2>0 DEF Profit
  <2>4. Booked' = Booked + (Profit(t)' - Profit(t))
    BY <2>1, BookedOne
  <2> QED BY <1>1, <1>7, <2>2, <2>3, <2>4
<1>8. ASSUME NEW amount \in BuyIns, SitBuilds(amount) \/ \E kind \in {"house", "persona"} : SponsorBuilds(kind, amount)
      PROVE  Balanced'
  <2>d. PICK d \in Int, e \in Int, b \in Int : d = amount /\ e = 0 /\ b = 0
    BY CashAssumption DEF BuyIns
  <2>1. amount \in Nat
    BY CashAssumption DEF BuyIns
  <2>2. /\ Builds(amount) /\ pc' \in {"debit", "stake"} /\ task'.amount = amount
    BY <1>8 DEF SitBuilds, SponsorBuilds, NoTask
  <2>3. pc = "idle" /\ ~game.there /\ game = NoGame /\ ~saved.there
    BY <2>2, ShapeTypes DEF Builds
  <2>4. /\ UNCHANGED <<purse, lender, bank, seats, sess, stakes>>
        /\ game'.stack = amount /\ game'.rest = seats.row /\ game'.pot = 0 /\ game'.there
    BY <2>2, <2>3 DEF Builds, NoGame, chips
  <2>5. TableChips = seats.row /\ TableChips' = amount + seats.row + 0
    BY <2>3, <2>4 DEF TableChips
  <2>6. Total' = Total + d
    BY <2>d, <1>0, <1>3, <2>1, <2>4, <2>5 DEF Total
  <2>7. InFlight' = InFlight + d
    BY <1>1, <2>d, <2>1, <2>2, <2>3 DEF InFlight
  <2>8. Unbooked' = Unbooked + e - b
    BY <1>1, <2>d, <2>2, <2>3 DEF Unbooked
  <2>9. purse' = purse + e /\ Booked' = Booked + b
    BY <1>1, <2>d, <1>0, <1>6, <2>1, <2>4
  <2> QED BY <1>3, <1>4, <2>6, <2>7, <2>8, <2>9
<1>9. CASE SitDebits
  <2>d. PICK d \in Int, e \in Int, b \in Int : d = 0 - task.amount /\ e = 0 - task.amount /\ b = 0
    BY <1>0
  <2>1. /\ pc = "debit" /\ pc' = "record" /\ purse' = task.saw - task.amount /\ task.saw = purse
        /\ UNCHANGED <<lender, bank, seats, game, sess, stakes, task>>
    BY <1>9 DEF SitDebits, Money
  <2>2. purse' = purse + e
    BY <1>1, <2>d, <1>0, <2>1
  <2>3. Total' = Total + d
    BY <1>1, <2>d, <1>0, <1>3, <2>1 DEF Total, TableChips
  <2>4. InFlight' = InFlight + d /\ Unbooked' = Unbooked + e - b
    BY <1>1, <2>d, <1>0, <2>1 DEF InFlight, Unbooked
  <2>5. Booked' = Booked + b
    BY <1>1, <2>d, <1>6, <2>1
  <2> QED BY <1>3, <1>4, <2>2, <2>3, <2>4, <2>5
<1>10. CASE SitRecords
  <2>d. PICK d \in Int, e \in Int, b \in Int : d = 0 /\ e = 0 /\ b = 0 - task.amount
    BY <1>0
  <2>1. /\ pc = "record" /\ pc' = "idle" /\ UNCHANGED <<purse, lender, bank, seats, game, stakes>>
        /\ sess' = [sess EXCEPT ![n] = [NoSession EXCEPT !.state = "active", !.buyIn = task.amount]]
    BY <1>10 DEF SitRecords, chips
  <2>2. n \in Sessions /\ sess[n] = NoSession
    BY <1>5, <2>1 DEF SitSpots
  <2>3. sess'[n] = [NoSession EXCEPT !.state = "active", !.buyIn = task.amount]
    BY <1>0, <2>1, <2>2
  <2>4. sess'[n].buyIn = task.amount /\ sess'[n].takeHome = 0 /\ sess'[n].state # "closed"
    BY <2>3 DEF NoSession
  <2>5. Booked' = Booked + b
    BY <1>1, <2>d, <1>0, <1>7, <2>1, <2>2, <2>4
  <2>6. Total' = Total + d /\ InFlight' = InFlight + d /\ Unbooked' = Unbooked + e - b /\ purse' = purse + e
    BY <1>1, <2>d, <1>0, <1>3, <2>1 DEF Total, TableChips, InFlight, Unbooked
  <2> QED BY <1>3, <1>4, <2>5, <2>6
<1>11. CASE SponsorStakes \/ SponsorRecords
  <2>d. PICK d \in Int, e \in Int, b \in Int : d = 0 /\ e = 0 /\ b = 0
    BY <1>0
  <2>1. /\ pc \in {"stake", "begin"} /\ pc' \in {"begin", "fund"} /\ UNCHANGED <<purse, lender, bank, seats, game, task>>
    BY <1>11 DEF SponsorStakes, SponsorRecords, chips
  <2>2. n \in Sessions /\ sess[n] = NoSession
    BY <1>5, <2>1 DEF SitSpots
  <2>3. \A s \in Sessions \ {n} : sess'[s] = sess[s] /\ stakes'[s] = stakes[s]
    BY <1>0, <1>11, <2>2 DEF SponsorStakes, SponsorRecords
  <2>4. sess'[n] = NoSession \/ sess'[n] = [NoSession EXCEPT !.state = "active"]
    BY <1>0, <1>11, <2>2 DEF SponsorStakes, SponsorRecords
  <2>5. sess'[n].buyIn = 0 /\ sess'[n].takeHome = 0 /\ sess'[n].state # "closed"
    BY <2>4 DEF NoSession
  <2>6. Booked' = Booked + b
    BY <1>1, <2>d, <1>7, <2>2, <2>3, <2>5
  <2>7. Total' = Total + d /\ InFlight' = InFlight + d /\ Unbooked' = Unbooked + e - b /\ purse' = purse + e
    BY <1>1, <2>d, <1>0, <1>3, <2>1 DEF Total, TableChips, InFlight, Unbooked
  <2>8. Booked' = Booked + b
    BY <1>1, <2>d, <1>1, <2>6
  <2> QED BY <1>3, <1>4, <2>6, <2>7, <2>8
<1>12. CASE SponsorFunds
  <2>d. PICK d \in Int, e \in Int, b \in Int : d = 0 - task.amount /\ e = 0 /\ b = 0
    BY <1>0
  <2>1. /\ pc = "fund" /\ pc' = "idle" /\ UNCHANGED <<purse, seats, game, sess, stakes>>
        /\ \/ bank' = bank - task.amount /\ lender' = lender
           \/ lender' = lender - task.amount /\ bank' = bank
    BY <1>12 DEF SponsorFunds
  <2>2. Total' = Total + d
    BY <1>1, <2>d, <1>0, <1>3, <2>1 DEF Total, TableChips
  <2>3. InFlight' = InFlight + d /\ Unbooked' = Unbooked + e - b /\ purse' = purse + e
    BY <1>1, <2>d, <1>0, <2>1 DEF InFlight, Unbooked
  <2>4. Booked' = Booked + b
    BY <1>1, <2>d, <1>6, <2>1
  <2> QED BY <1>3, <1>4, <2>2, <2>3, <2>4
<1> QED BY <1>3, <1>8, <1>9, <1>10, <1>11, <1>12 DEF Sitting

\* A leave pays the staker, then the owner, and stamps the session last.
LEMMA BalancedLeaves ==
  ASSUME CashInv, CashInv', Shape, Paid, Money, Balanced, Recorded,
         LeaveSettles \/ LeavePaysStaker \/ LeaveCredits \/ LeaveFinalises \/ LeaveRemoves
  PROVE  Balanced' /\ forfeited' \in Nat
<1>0. /\ purse \in Nat /\ lender \in Nat /\ bank \in Int /\ seats.row \in Nat
      /\ game.stack \in Nat /\ game.rest \in Nat /\ game.pot \in Nat
      /\ task.staker \in Nat /\ task.player \in Nat /\ task.saw \in Nat /\ forfeited \in Nat
      /\ sess \in [Sessions -> [state : {"missing", "active", "closed", "broken"}, buyIn : Nat,
                              takeHome : Nat, sponsorRepaid : Nat]]
      /\ stakes \in [Sessions -> StakeRows]
  BY FieldTypes DEF CashInv, TypeOK, StakeRows, Money
<1>1. /\ Total \in Int /\ InFlight \in Int /\ Unbooked \in Int /\ Booked \in Int
  BY <1>0, BooksTypes
<1>2. busy' = busy /\ job' = job
  BY DEF LeaveSettles, LeavePaysStaker, LeaveCredits, LeaveFinalises, LeaveRemoves, lobby
<1>3. forfeited' = (forfeited + IF pc = "remove" /\ pc' = "idle" THEN game.pot ELSE 0) /\ forfeited' \in Nat
  BY <1>0 DEF Recorded
<1>4. ASSUME NEW d \in Int, Total' = Total + d, InFlight' = InFlight + d,
             NEW e \in Int, NEW b \in Int, purse' = purse + e, Booked' = Booked + b, Unbooked' = Unbooked + e - b
      PROVE  Balanced'
  BY <1>0, <1>2, <1>3, <1>4, BalancedKeeps
<1>5. game.there => n \in Sessions /\ n \in Nat
  BY ShapeTypes
<1>6. ASSUME pc \in {"settle", "credit", "finalise"}
      PROVE  /\ n \in Sessions /\ sess[n].state = "active" /\ sess[n].takeHome = 0 /\ sess[n].sponsorRepaid = 0
             /\ task.staker + task.player = game.stack
  <2>1. game.there /\ n \in Sessions /\ n \in Nat
    BY <1>6, ShapeTypes
  <2>2. ~Left(n)
    BY <1>6, <2>1 DEF Left
  <2> QED BY <1>6, <2>1, <2>2 DEF Shape, SitSpots, Money, LeaveSpots
<1>7. CASE LeaveSettles
  <2>d. PICK d \in Int, e \in Int, b \in Int : d = 0 /\ e = 0 /\ b = 0
    BY <1>0
  <2>1. /\ game.there /\ game' = game /\ sess' = sess /\ UNCHANGED <<purse, lender, bank, seats>>
        /\ pc = "idle"
        /\ pc' = "settle" \/ (pc' = "credit" /\ task'.staker = 0)
    BY <1>7 DEF LeaveSettles, Shape, chips, NoTask
  <2>2. n \in Sessions /\ sess[n].state = "active"
    <3>1. n \in Sessions /\ n \in Nat /\ ~Left(n)
      BY <1>5, <2>1 DEF Left
    <3> QED BY <2>1, <3>1 DEF Shape, SitSpots
  <2>3. \A s \in Sessions \ {n} : stakes'[s] = stakes[s]
    BY <1>0, <1>7, <2>1 DEF LeaveSettles
  <2>4. \A s \in Sessions : Profit(s)' = Profit(s)
    BY <2>1, <2>2, <2>3 DEF Profit
  <2>5. Booked' = Booked + b /\ purse' = purse + e
    BY <1>1, <2>d, <1>0, <1>1, <2>1, <2>4, BookedSame
  <2>6. Total' = Total + d
    BY <1>1, <2>d, <1>0, <1>3, <2>1 DEF Total, TableChips
  <2>7. InFlight' = InFlight + d
    BY <1>1, <2>d, <2>1 DEF InFlight
  <2>8. Unbooked' = Unbooked + e - b
    BY <1>1, <2>d, <2>1 DEF Unbooked
  <2> QED BY <1>3, <1>4, <2>5, <2>6, <2>7, <2>8
<1>8. CASE LeavePaysStaker
  <2>d. PICK d \in Int, e \in Int, b \in Int : d = task.staker /\ e = 0 /\ b = 0
    BY <1>0
  <2>1. /\ pc = "settle" /\ pc' = "credit" /\ UNCHANGED <<purse, seats, game, sess, task, n>>
        /\ \/ bank' = bank + task.staker /\ lender' = lender
           \/ lender' = lender + task.staker /\ bank' = bank
    BY <1>8 DEF LeavePaysStaker
  <2>2. \A s \in Sessions \ {n} : stakes'[s] = stakes[s]
    BY <1>0, <1>8, <2>1 DEF LeavePaysStaker
  <2>3. \A s \in Sessions : Profit(s)' = Profit(s)
    BY <1>6, <2>1, <2>2 DEF Profit
  <2>4. Booked' = Booked + b /\ purse' = purse + e
    BY <1>1, <2>d, <1>0, <1>1, <2>1, <2>3, BookedSame
  <2>5. Total' = Total + d
    BY <1>1, <2>d, <1>0, <1>3, <2>1 DEF Total, TableChips
  <2>6. InFlight' = InFlight + d /\ Unbooked' = Unbooked + e - b
    BY <1>1, <2>d, <1>0, <2>1 DEF InFlight, Unbooked
  <2> QED BY <1>3, <1>4, <2>4, <2>5, <2>6
<1>9. CASE LeaveCredits
  <2>d. PICK d \in Int, e \in Int, b \in Int : d = task.player /\ e = task.player /\ b = 0
    BY <1>0
  <2>1. /\ pc = "credit" /\ pc' = "finalise" /\ UNCHANGED <<lender, bank, seats, game, sess, stakes, task>>
        /\ purse' = task.saw + task.player /\ task.saw = purse /\ game.stack = task.staker + task.player
    BY <1>6, <1>9 DEF LeaveCredits, Money
  <2>2. \A s \in Sessions : Profit(s)' = Profit(s)
    BY <2>1 DEF Profit
  <2>3. Booked' = Booked + b /\ purse' = purse + e
    BY <1>1, <2>d, <1>0, <1>1, <2>1, <2>2, BookedSame
  <2>4. Total' = Total + d
    BY <1>1, <2>d, <1>0, <1>3, <2>1 DEF Total, TableChips
  <2>5. InFlight' = InFlight + d /\ Unbooked' = Unbooked + e - b
    BY <1>1, <2>d, <1>0, <2>1 DEF InFlight, Unbooked
  <2> QED BY <1>3, <1>4, <2>3, <2>4, <2>5
<1>10. CASE LeaveFinalises
  <2>d. PICK d \in Int, e \in Int, b \in Int : d = 0 /\ e = 0 /\ b = task.player
    BY <1>0
  <2>0. /\ pc = "finalise" /\ pc' = "remove" /\ UNCHANGED <<purse, lender, bank, seats, game, stakes, task>>
    BY <1>10 DEF LeaveFinalises, chips
  <2>1. n \in Sessions /\ sess[n].state = "active" /\ sess[n].takeHome = 0
    BY <1>6, <2>0
  <2>2. /\ sess' = [sess EXCEPT ![n] = [sess[n] EXCEPT !.state = "closed", !.takeHome = task.player,
                                 !.sponsorRepaid = task.staker]]
    BY <1>0, <1>10, <2>1 DEF LeaveFinalises
  <2>3. /\ sess'[n].state = "closed" /\ sess'[n].takeHome = task.player
        /\ sess'[n].sponsorRepaid = task.staker /\ sess'[n].buyIn = sess[n].buyIn /\ sess[n].buyIn \in Nat
    BY <1>0, <2>1, <2>2
  <2>9. PICK t \in Sessions : t = n
    BY <2>1
  <2>4. \A s \in Sessions \ {t} : Profit(s)' = Profit(s)
    BY <1>0, <2>0, <2>2, <2>9 DEF Profit
  <2>5. stakes[t].repaid = task.staker
    BY <2>0, <2>9 DEF Money
  <2>6. Profit(t)' - Profit(t) = task.player
    <3>1. Profit(t) = 0 - sess[t].buyIn - 0
      BY <2>1, <2>9 DEF Profit
    <3>2. Profit(t)' = task.player - sess[t].buyIn - (IF stakes[t].kind = "persona" THEN stakes[t].repaid - task.staker ELSE 0)
      BY <2>0, <2>3, <2>9 DEF Profit
    <3>3. Profit(t)' = task.player - sess[t].buyIn - 0
      BY <1>0, <2>3, <2>5, <3>2
    <3> QED BY <1>0, <2>3, <2>9, <3>1, <3>3
  <2>7. Booked' = Booked + b /\ purse' = purse + e
    <3>1. Booked' = Booked + (Profit(t)' - Profit(t))
      BY <2>4, BookedOne
    <3> QED BY <1>0, <1>1, <2>d, <2>0, <2>6, <3>1
  <2>8. Total' = Total + d /\ InFlight' = InFlight + d
    BY <1>1, <2>d, <1>0, <1>3, <2>0 DEF Total, TableChips, InFlight
  <2>10. Unbooked' = Unbooked + e - b
    BY <1>1, <2>d, <1>0, <2>0 DEF Unbooked
  <2> QED BY <1>3, <1>4, <2>7, <2>8, <2>10
<1>11. CASE LeaveRemoves
  <2>d. PICK d \in Int, e \in Int, b \in Int : d = 0 - game.stack /\ e = 0 /\ b = 0
    BY <1>0
  <2>1. /\ pc = "remove" /\ pc' = "idle" /\ UNCHANGED <<purse, lender, bank, sess, stakes>>
        /\ seats'.row = game.rest /\ game' = NoGame
    BY <1>11 DEF LeaveRemoves
  <2>2. /\ TableChips = game.stack + game.rest + game.pot /\ TableChips' = game.rest
        /\ forfeited' = forfeited + game.pot
    <3>1. game.there
      BY <2>1, ShapeTypes
    <3> QED BY <1>3, <2>1, <3>1 DEF TableChips, NoGame
  <2>3. \A s \in Sessions : Profit(s)' = Profit(s)
    BY <2>1 DEF Profit
  <2>4. Booked' = Booked + b /\ purse' = purse + e
    BY <1>1, <2>d, <1>0, <1>1, <2>1, <2>3, BookedSame
  <2>5. Total' = Total + d
    BY <2>d, <1>0, <2>1, <2>2 DEF Total
  <2>6. InFlight' = InFlight + d /\ Unbooked' = Unbooked + e - b
    BY <1>1, <2>d, <1>0, <2>1 DEF InFlight, Unbooked
  <2> QED BY <1>3, <1>4, <2>4, <2>5, <2>6
<1> QED BY <1>3, <1>7, <1>8, <1>9, <1>10, <1>11

\* While one request pays, no other one does.
LEMMA OnePays ==
  ASSUME CashInv, Shape, Paid, NEW p \in Requests, NEW q \in Requests, Paying(p), Paying(q)
  PROVE  p = q
<1>1. busy[p] # "idle" /\ busy[q] # "idle"
  BY DEF Paying
<1>2. job[p].stake = job[q].stake
  BY <1>1 DEF Shape
<1> QED BY <1>2 DEF Paid

\* A payoff takes the carry from the owner before the lender has it.
LEMMA BalancedResolves ==
  ASSUME CashInv, CashInv', Shape, Paid, Money, Balanced, Recorded,
         NEW r \in Requests, NEW s \in Sessions, Looks(r, s) \/ Advances(r, s)
  PROVE  Balanced' /\ forfeited' = forfeited
<1>0. /\ purse \in Nat /\ lender \in Nat /\ bank \in Int /\ seats.row \in Nat
      /\ game.stack \in Nat /\ game.rest \in Nat /\ game.pot \in Nat /\ forfeited \in Nat
      /\ job[r].saw \in Nat /\ job[r].carry \in Nat /\ stakes[s].repaid \in Nat
  BY FieldTypes DEF CashInv, Money
<1>1. /\ Total \in Int /\ InFlight \in Int /\ Unbooked \in Int /\ Booked \in Int
      /\ purse \in Int /\ Purse \in Int /\ LenderPurse \in Int /\ Others \in Int
  BY <1>0, BooksTypes
<1>2. /\ UNCHANGED <<bank, seats, game, saved, n, sess, pc, task>>
      /\ \A q \in Requests \ {r} : busy'[q] = busy[q] /\ job'[q] = job[q]
      /\ \A u \in Sessions \ {s} : stakes'[u] = stakes[u]
      /\ stakes'[s].kind = stakes[s].kind
  BY DEF Looks, Advances, GoesOn, Move
<1>3. forfeited' = forfeited
  BY <1>0, <1>2 DEF Recorded
<1>4. InFlight' = InFlight /\ Unbooked' = Unbooked
  BY <1>2 DEF InFlight, Unbooked
<1>5. PICK x \in Nat :
        /\ Moving(x)
        /\ Total + x = Purse + LenderPurse + Others + InFlight
        /\ purse + x = Purse + Booked + Unbooked
  BY DEF Balanced
<1>6. CASE /\ busy[r] # "credit" /\ busy'[r] # "credit" /\ UNCHANGED <<purse, lender>>
           /\ stakes'[s].repaid = stakes[s].repaid
  <2>1. Moving(x)'
    BY <1>2, <1>5, <1>6 DEF Moving
  <2>2. \A u \in Sessions : Profit(u)' = Profit(u)
    BY <1>2, <1>6 DEF Profit
  <2>3. Booked' = Booked
    BY <2>2, BookedSame
  <2>4. Total' = Total
    BY <1>2, <1>3, <1>6 DEF Total, TableChips
  <2>5. Total' + x = Purse + LenderPurse + Others + InFlight' /\ purse' + x = Purse + Booked' + Unbooked'
    BY <1>4, <1>5, <1>6, <2>3, <2>4
  <2> QED BY <1>3, <2>1, <2>5 DEF Balanced
<1>7. CASE /\ GoesOn(r, s, "debit", "credit")
           /\ stakes' = stakes /\ purse' = job[r].saw - job[r].carry /\ lender' = lender
  <2>1. \A q \in Requests : busy[q] # "credit"
    BY <1>7, OnePays DEF Paying, GoesOn
  <2>2. x = 0
    BY <1>5, <2>1 DEF Moving
  <2>3. PICK y \in Nat : y = job[r].carry
    BY <1>0
  <2>4. busy'[r] = "credit" /\ job'[r].carry = y /\ \A q \in Requests \ {r} : busy'[q] # "credit"
    BY <1>2, <1>7, <2>1, <2>3 DEF GoesOn
  <2>5. Moving(y)'
    BY <2>4 DEF Moving
  <2>6. \A u \in Sessions : Profit(u)' = Profit(u)
    BY <1>2, <1>7 DEF Profit
  <2>7. Booked' = Booked
    BY <2>6, BookedSame
  <2>8. job[r].saw = purse
    BY <1>7 DEF GoesOn, Money
  <2>9. purse' = purse - y
    BY <1>7, <2>3, <2>8
  <2>10. Total' = Total - y
    BY <1>0, <1>2, <1>3, <1>7, <2>9 DEF Total, TableChips
  <2>11. Total' + y = Purse + LenderPurse + Others + InFlight' /\ purse' + y = Purse + Booked' + Unbooked'
    BY <1>1, <1>4, <1>5, <2>2, <2>7, <2>9, <2>10
  <2> QED BY <1>3, <2>5, <2>11 DEF Balanced
<1>8. CASE /\ GoesOn(r, s, "credit", "close")
           /\ Writes(s, stakes[s].status, stakes[s].carry, stakes[s].owed, stakes[s].repaid + job[r].carry)
           /\ purse' = purse /\ lender' = lender + job[r].carry
  <2>1. busy[r] = "credit" /\ busy'[r] = "close" /\ job[r].stake = s
    BY <1>8 DEF GoesOn
  <2>2. x = job[r].carry
    BY <1>5, <2>1 DEF Moving
  <2>3. \A q \in Requests : busy'[q] # "credit"
    <3>1. \A q \in Requests \ {r} : busy[q] # "credit"
      BY <2>1, OnePays DEF Paying
    <3> QED BY <1>2, <2>1, <3>1
  <2>4. PICK y \in Nat : y = 0
    OBVIOUS
  <2>5. Moving(y)'
    BY <2>3, <2>4 DEF Moving
  <2>6. stakes[s].status \in Over /\ stakes[s].kind = "persona"
    BY <2>1 DEF Paid, JobKnows, Short
  <2>7. sess[s].state = "closed"
    <3>1. pc \notin LeaveSpots
      BY <2>1 DEF Shape
    <3>2. Left(s)
      BY <2>6, <3>1 DEF Shape, Left
    <3> QED BY <3>2 DEF Shape
  <2>8. \A u \in Sessions \ {s} : Profit(u)' = Profit(u)
    BY <1>2 DEF Profit
  <2>9. /\ sess[s].buyIn \in Nat /\ sess[s].takeHome \in Nat /\ sess[s].sponsorRepaid \in Nat
    BY FieldTypes DEF CashInv, TypeOK
  <2>10. stakes'[s].repaid = stakes[s].repaid + x
    BY <1>8, <2>2 DEF Writes
  <2>11. Profit(s)' - Profit(s) = 0 - x
    BY <1>0, <1>2, <2>6, <2>7, <2>9, <2>10 DEF Profit
  <2>12. Booked' = Booked + (Profit(s)' - Profit(s))
    BY <2>8, BookedOne
  <2>13. Booked' = Booked - x
    BY <1>1, <2>11, <2>12
  <2>14. Total' = Total + x
    BY <1>0, <1>2, <1>3, <1>8, <2>2 DEF Total, TableChips
  <2>15. Total' + y = Purse + LenderPurse + Others + InFlight' /\ purse' + y = Purse + Booked' + Unbooked'
    BY <1>1, <1>4, <1>5, <1>8, <2>4, <2>13, <2>14
  <2> QED BY <1>3, <2>5, <2>15 DEF Balanced
<1>9. CASE Looks(r, s)
  BY <1>6, <1>9 DEF Looks
<1>10. CASE Advances(r, s)
  BY <1>6, <1>7, <1>8, <1>10 DEF Advances, GoesOn, Writes
<1> QED BY <1>9, <1>10

\* The table does not touch the bankroll while somebody is going to write it back.
LEMMA MoneyTable ==
  ASSUME CashInv, Shape, Money, forfeited' = forfeited, AtTable
  PROVE  Money'
<1>1. /\ UNCHANGED <<lender, bank, n, stakes, pc, task, busy, job>>
      /\ game.there /\ game'.there /\ saved'.there /\ pc \notin LeaveSpots /\ n \in Sessions
  BY TablePays
<1>2. PICK paid \in Nat : PaysIn(paid)
  BY TablePays
<1>3. pc = "debit" => purse' = purse
  <2> SUFFICES ASSUME pc = "debit" PROVE purse' = purse
    OBVIOUS
  <2>1. n \in Nat /\ ~Left(n)
    BY <1>1, ShapeTypes DEF Left
  <2>2. sess[n].state # "active"
    BY <1>1, <2>1 DEF Shape, SitSpots
  <2>3. purse \in Nat
    BY FieldTypes DEF CashInv
  <2> QED BY <1>2, <2>2, <2>3 DEF PaysIn
<1>4. \A r \in Requests : busy[r] # "idle" => purse' = purse
  BY <1>1, ApartMeans DEF AtTable
<1> QED BY <1>1, <1>3, <1>4 DEF Money, LeaveSpots

\* Nor does a sit, which is apart from every payoff.
LEMMA MoneySits ==
  ASSUME CashInv, Shape, Money, forfeited' = forfeited, Apart, Sitting
  PROVE  Money'
<1>1. busy' = busy /\ job' = job
  BY DEF Sitting, SitBuilds, SponsorBuilds, Builds, SitDebits, SitRecords, SponsorStakes, SponsorRecords, SponsorFunds, lobby
<1>2. \A r \in Requests : busy[r] # "idle" => purse' = purse
  BY <1>1, ApartMeans
<1>3. /\ pc' \in {"debit", "record", "stake", "begin", "fund", "idle"}
      /\ pc' = "debit" => task'.saw = purse'
  <2>1. ASSUME NEW amount \in BuyIns, SitBuilds(amount) PROVE pc' = "debit" /\ task'.saw = purse'
    BY <2>1 DEF SitBuilds, Builds, NoTask, chips
  <2> QED BY <2>1 DEF Sitting, SponsorBuilds, SitDebits, SitRecords, SponsorStakes, SponsorRecords, SponsorFunds
<1>4. \A s \in Sessions : stakes'[s].status = "carry" => stakes[s].status = "carry"
  <2>1. CASE SponsorStakes
    <3>1. n \in Sessions /\ stakes \in [Sessions -> StakeRows]
      BY <2>1 DEF SponsorStakes, CashInv, Covered, TypeOK, StakeRows
    <3> QED BY <2>1, <3>1 DEF SponsorStakes
  <2>2. CASE ~SponsorStakes
    BY <2>2 DEF Sitting, SitBuilds, SponsorBuilds, Builds, SitDebits, SitRecords, SponsorRecords, SponsorFunds
  <2> QED BY <2>1, <2>2
<1>5. \A r \in Requests : job[r].stake \in Sessions
  BY FieldTypes DEF CashInv
<1> QED BY <1>1, <1>2, <1>3, <1>4, <1>5 DEF Money, LeaveSpots

\* What a leave makes of a stake.
LEMMA SettledFields ==
  ASSUME NEW stake \in StakeRows, NEW left \in Nat,
         NEW staker \in StakerTotals(stake.principal, left),
         NEW after, after = SettledStake(stake, left, staker)
  PROVE  /\ after.kind = stake.kind /\ after.principal = stake.principal /\ after.left = left
         /\ after.repaid = stake.repaid /\ after.owed = after.carry
         /\ Short(after) => after.status = "carry" /\ after.carry = stake.principal - left /\ staker = left
         /\ ~Short(after) => after.status = "settled" /\ after.carry = 0
         /\ staker \in Nat /\ staker <= left
<1> DEFINE carry == IF left < stake.principal /\ stake.kind = "persona"
                    THEN stake.principal - staker ELSE 0
<1>1. stake.principal \in Nat
  BY DEF StakeRows
<1>2. staker \in Nat /\ staker <= left /\ (left < stake.principal => staker = left)
  BY <1>1, StakerBound
<1>3. after = [stake EXCEPT !.status = IF carry > 0 THEN "carry" ELSE "settled",
                        !.carry = carry, !.owed = carry, !.left = left]
  BY DEF SettledStake
<1>4. /\ left < stake.principal /\ stake.kind = "persona" => carry = stake.principal - left /\ carry > 0
      /\ ~(left < stake.principal /\ stake.kind = "persona") => carry = 0 /\ ~(carry > 0)
  BY <1>1, <1>2
<1> HIDE DEF carry
<1>5. /\ after.kind = stake.kind /\ after.principal = stake.principal /\ after.left = left
      /\ after.repaid = stake.repaid /\ after.owed = carry /\ after.carry = carry
      /\ after.status = IF carry > 0 THEN "carry" ELSE "settled"
  BY <1>3 DEF StakeRows
<1> QED BY <1>2, <1>4, <1>5 DEF Short

\* The leave of a stake that is active, and of one's own money.
Settles(staker) ==
    /\ stakes[n].status = "active"
    /\ staker \in StakerTotals(stakes[n].principal, game.stack)
    /\ stakes' = [stakes EXCEPT ![n] = SettledStake(stakes[n], game.stack, staker)]
    /\ pc' = "settle" /\ task'.staker = staker /\ task'.player = game.stack - staker

\* How a leave begins: with a stake to settle, or without one.
LEMMA LeaveBegins ==
  ASSUME CashInv, Shape, Paid, Apart, LeaveSettles
  PROVE  /\ game.there /\ n \in Sessions /\ pc = "idle" /\ task'.saw = purse
         /\ UNCHANGED <<purse, lender, bank, seats, game, n, sess, busy, job>>
         /\ \A r \in Requests : busy[r] = "idle"
         /\ \/ \E staker : Settles(staker)
            \/ /\ pc' = "credit" /\ stakes' = stakes /\ task'.staker = 0 /\ task'.player = game.stack
               /\ stakes[n].status = "none" /\ stakes[n].repaid = 0
<1>1. /\ game.there /\ game' = game /\ pc = "idle" /\ task'.saw = purse
      /\ UNCHANGED <<purse, lender, bank, seats, game, n, sess, busy, job>> /\ pc' \in {"settle", "credit"}
  BY DEF LeaveSettles, Shape, chips, lobby, NoTask
<1>2. n \in Sessions /\ n \in Nat /\ n > 0
  BY <1>1, ShapeTypes DEF Sessions
<1>3. \A r \in Requests : busy[r] = "idle"
  BY <1>1, ApartMeans DEF LeaveSpots
<1>4. CASE ActiveStake
  <2>1. PICK staker \in StakerTotals(stakes[n].principal, game.stack) :
           /\ stakes' = [stakes EXCEPT ![n] = SettledStake(@, game.stack, staker)]
           /\ task' = [NoTask EXCEPT !.saw = purse, !.kind = stakes[n].kind,
                                     !.staker = staker, !.player = game.stack - staker]
           /\ pc' = "settle"
    BY <1>1, <1>4 DEF LeaveSettles
  <2>2. task'.staker = staker /\ task'.player = game.stack - staker
    BY <2>1 DEF NoTask
  <2>3. stakes' = [stakes EXCEPT ![n] = SettledStake(stakes[n], game.stack, staker)]
    BY <2>1
  <2>4. Settles(staker)
    BY <1>4, <2>1, <2>2, <2>3 DEF Settles, ActiveStake
  <2> QED BY <1>1, <1>2, <1>3, <2>4
<1>5. CASE ~ActiveStake
  <2>1. /\ pc' = "credit" /\ stakes' = stakes
        /\ task' = [NoTask EXCEPT !.saw = purse, !.player = game.stack]
    BY <1>1, <1>5 DEF LeaveSettles
  <2>2. task'.staker = 0 /\ task'.player = game.stack
    BY <2>1 DEF NoTask
  <2>3. stakes[n].status \notin Over
    BY <1>1, <1>2 DEF Shape, LeaveSpots
  <2>4. stakes[n].status = "none"
    BY <1>2, <1>5, <2>3, FieldTypes DEF CashInv, Over, ActiveStake
  <2>5. stakes[n].repaid = 0
    BY <1>2, <2>4 DEF Paid
  <2> QED BY <1>1, <1>2, <1>3, <2>1, <2>2, <2>4, <2>5
<1> QED BY <1>4, <1>5

\* A leave pays what it settled, and writes back the bankroll as it is.
LEMMA MoneyLeaves ==
  ASSUME CashInv, Shape, Paid, Money, forfeited' \in Nat, Apart,
         LeaveSettles \/ LeavePaysStaker \/ LeaveCredits \/ LeaveFinalises \/ LeaveRemoves
  PROVE  Money'
<1>0. /\ purse \in Nat /\ game.stack \in Nat /\ task.staker \in Nat /\ task.player \in Nat
      /\ stakes \in [Sessions -> StakeRows]
  BY FieldTypes DEF CashInv, TypeOK, StakeRows
<1>1. busy' = busy /\ job' = job
  BY DEF LeaveSettles, LeavePaysStaker, LeaveCredits, LeaveFinalises, LeaveRemoves, lobby
<1>2. \A r \in Requests : busy'[r] = "idle"
  <2>1. CASE LeaveSettles
    BY <1>1, <2>1, LeaveBegins
  <2>2. CASE ~LeaveSettles
    <3>1. pc \in LeaveSpots
      BY <2>2 DEF LeavePaysStaker, LeaveCredits, LeaveFinalises, LeaveRemoves, LeaveSpots
    <3> QED BY <1>1, <3>1 DEF Shape
  <2> QED BY <2>1, <2>2
<1>3. CASE LeaveSettles
  <2>1. /\ n \in Sessions /\ pc = "idle" /\ task'.saw = purse
        /\ UNCHANGED <<purse, lender, bank, seats, game, n, sess, busy, job>>
    BY <1>3, LeaveBegins
  <2>2. CASE pc' = "credit" /\ stakes' = stakes /\ task'.staker = 0 /\ task'.player = game.stack
               /\ stakes[n].status = "none" /\ stakes[n].repaid = 0
    BY <1>0, <1>2, <2>1, <2>2 DEF Money
  <2>3. ASSUME NEW staker, Settles(staker) PROVE Money'
    <3>1. /\ staker \in StakerTotals(stakes[n].principal, game.stack)
          /\ stakes' = [stakes EXCEPT ![n] = SettledStake(stakes[n], game.stack, staker)]
          /\ pc' = "settle" /\ task'.staker = staker /\ task'.player = game.stack - staker
          /\ stakes[n].status = "active"
      BY <2>3 DEF Settles
    <3>2. stakes[n] \in StakeRows /\ stakes'[n] = SettledStake(stakes[n], game.stack, staker)
      BY <1>0, <2>1, <3>1
    <3>3. /\ stakes'[n].repaid = stakes[n].repaid /\ (Short(stakes'[n]) => stakes'[n].status = "carry")
          /\ staker \in Nat
      BY <1>0, <3>1, <3>2, SettledFields
    <3>4. stakes[n].repaid = 0
      BY <2>1, <3>1 DEF Paid
    <3>5. task'.staker + task'.player = game'.stack
      BY <1>0, <2>1, <3>1, <3>3
    <3>6. Short(stakes[n])' => stakes'[n].status = "carry"
      BY <2>1, <3>3 DEF Short
    <3> QED BY <1>2, <2>1, <3>1, <3>3, <3>4, <3>5, <3>6 DEF Money
  <2> QED BY <1>3, <2>2, <2>3, LeaveBegins
<1>4. CASE LeavePaysStaker
  <2>1. /\ pc = "settle" /\ pc' = "credit" /\ UNCHANGED <<purse, game, n, task>>
        /\ stakes' = [stakes EXCEPT ![n].repaid = @ + task.staker]
    BY <1>4 DEF LeavePaysStaker
  <2>2. n \in Sessions /\ stakes[n].repaid = 0 /\ task.saw = purse /\ task.staker + task.player = game.stack
    BY <2>1 DEF CashInv, Covered, Money, LeaveSpots
  <2>3. stakes'[n].repaid = task.staker
    <3>1. stakes' = [stakes EXCEPT ![n] = [stakes[n] EXCEPT !.repaid = stakes[n].repaid + task.staker]]
      BY <1>0, <2>1, <2>2
    <3>2. stakes[n] \in StakeRows
      BY <1>0, <2>2
    <3>3. stakes'[n].repaid = stakes[n].repaid + task.staker
      BY <1>0, <2>2, <3>1, <3>2 DEF StakeRows
    <3> QED BY <1>0, <2>2, <3>3
  <2> QED BY <1>2, <2>1, <2>2, <2>3 DEF Money
<1>5. CASE LeaveCredits
  <2>1. /\ pc = "credit" /\ pc' = "finalise" /\ UNCHANGED <<game, n, task, stakes>>
    BY <1>5 DEF LeaveCredits
  <2>2. stakes[n].repaid = task.staker /\ task.staker + task.player = game.stack
    BY <2>1 DEF Money, LeaveSpots
  <2> QED BY <1>2, <2>1, <2>2 DEF Money
<1>6. CASE LeaveFinalises
  <2>1. /\ pc = "finalise" /\ pc' = "remove" /\ UNCHANGED <<game, task>>
    BY <1>6 DEF LeaveFinalises
  <2>2. task.staker + task.player = game.stack
    BY <2>1 DEF Money, LeaveSpots
  <2> QED BY <1>2, <2>1, <2>2 DEF Money
<1>7. CASE LeaveRemoves
  <2>1. pc' = "idle"
    BY <1>7 DEF LeaveRemoves
  <2> QED BY <1>2, <2>1 DEF Money, LeaveSpots
<1> QED BY <1>3, <1>4, <1>5, <1>6, <1>7

\* A payoff that still has to write the bankroll back has read it as it is.
LEMMA MoneyResolves ==
  ASSUME CashInv, Shape, Paid, Money, Apart, forfeited' = forfeited,
         NEW r \in Requests, NEW s \in Sessions, Looks(r, s) \/ Advances(r, s)
  PROVE  Money'
<1>1. /\ UNCHANGED <<bank, seats, game, saved, n, sess, pc, task>>
      /\ \A q \in Requests \ {r} : busy'[q] = busy[q] /\ job'[q] = job[q]
      /\ \A u \in Sessions \ {s} : stakes'[u] = stakes[u]
  BY DEF Looks, Advances, GoesOn, Move
<1>2. CASE Looks(r, s)
  <2>1. stakes' = stakes /\ purse' = purse /\ job'[r].saw = purse /\ busy'[r] # "debit"
    BY <1>2 DEF Looks
  <2> QED BY <1>1, <2>1 DEF Money
<1>3. CASE Advances(r, s)
  <2>1. busy[r] # "idle" /\ job[r].stake = s /\ pc \notin LeaveSpots \cup {"debit"}
    <3>1. busy[r] # "idle" /\ job[r].stake = s
      BY <1>3 DEF Advances, GoesOn
    <3> QED BY <3>1 DEF Shape
  <2>2. stakes'[s].status = "carry" => stakes[s].status = "carry"
    BY <1>3 DEF Advances, Writes
  <2>3. \A q \in Requests \ {r} : busy[q] = "debit" \/ (busy[q] = "claim" /\ stakes[job[q].stake].status = "carry")
           => purse' = purse
    <3> SUFFICES ASSUME NEW q \in Requests \ {r},
                        busy[q] = "debit" \/ (busy[q] = "claim" /\ stakes[job[q].stake].status = "carry"),
                        purse' # purse
                 PROVE  FALSE
      OBVIOUS
    <3>1. busy[r] = "debit"
      BY <1>3 DEF Advances, GoesOn
    <3>2. busy[q] # "debit"
      BY <3>1, OnePays DEF Paying
    <3>3. job[q].stake = s /\ stakes[s].status = "carry"
      BY <2>1, <3>2 DEF Shape
    <3>4. stakes[s].status # "carry"
      BY <2>1, <3>1 DEF Paid, JobKnows, Paying
    <3> QED BY <3>3, <3>4
  <2>4. \A q \in Requests : job[q].stake \in Sessions
    BY FieldTypes DEF CashInv
  <2>5. ASSUME NEW q \in Requests \ {r},
               busy'[q] = "debit" \/ (busy'[q] = "claim" /\ stakes'[job'[q].stake].status = "carry")
        PROVE  job'[q].saw = purse'
    <3>1. busy'[q] = busy[q] /\ job'[q] = job[q]
      BY <1>1
    <3>2. stakes'[job[q].stake].status = "carry" => stakes[job[q].stake].status = "carry"
      BY <1>1, <2>2, <2>4
    <3>3. job[q].saw = purse
      BY <2>5, <3>1, <3>2 DEF Money
    <3> QED BY <2>3, <2>5, <3>1, <3>2, <3>3
  <2>6. busy'[r] = "debit" \/ (busy'[r] = "claim" /\ stakes'[job'[r].stake].status = "carry") => job'[r].saw = purse'
    <3>1. busy'[r] # "claim"
      BY <1>3 DEF Advances, GoesOn
    <3>2. busy'[r] = "debit" => /\ busy[r] = "claim" /\ stakes[s].status = "carry" /\ purse' = purse /\ job'[r] = job[r]
      BY <1>3 DEF Advances, GoesOn
    <3> QED BY <2>1, <3>1, <3>2 DEF Money
  <2>7. pc' \notin LeaveSpots \cup {"debit"}
    BY <1>1, <2>1
  <2> QED BY <1>1, <2>5, <2>6, <2>7 DEF Money, LeaveSpots
<1> QED BY <1>2, <1>3

-----------------------------------------------------------------------------
(* What the terms of a stake give.                                           *)
\* A step that writes no stake and moves no request.
LEMMA TermsKept ==
  ASSUME Terms, stakes' = stakes, busy' = busy, job' = job,
         (pc' = "settle" <=> pc = "settle") /\ (pc = "settle" => n' = n /\ task' = task)
  PROVE  Terms'
<1>1. \A s \in Sessions : Has(s)' = Has(s)
  BY DEF Has
<1>2. \A s \in Sessions : InTerms(s) => InTerms(s)'
  BY <1>1 DEF InTerms, OnIt, Short
<1> QED BY <1>2 DEF Terms, Paying

\* The stake that is written is active, or is left with nobody about it.
LEMMA TermsWrite ==
  ASSUME CashInv, Terms, NEW t \in Sessions, \A s \in Sessions \ {t} : stakes'[s] = stakes[s],
         busy' = busy, job' = job, \A r \in Requests : busy[r] # "idle" => job[r].stake # t,
         \A s \in Sessions \ {t} : Has(s)' = Has(s),
         stakes'[t].status \in Over => InTerms(t)'
  PROVE  Terms'
<1>1. \A s \in Sessions \ {t} : InTerms(s) => InTerms(s)'
  BY DEF InTerms, OnIt, Short
<1>2. \A r \in Requests : job[r].stake \in Sessions
  BY FieldTypes DEF CashInv
<1> QED BY <1>1, <1>2 DEF Terms, Paying

\* Play settles no stake.
LEMMA TermsTable ==
  ASSUME CashInv, Shape, Terms, AtTable
  PROVE  Terms'
BY TablePays, TermsKept

\* Nor does a sit.
LEMMA TermsSits ==
  ASSUME CashInv, Shape, Paid, Terms, Sitting
  PROVE  Terms'
<1>1. busy' = busy /\ job' = job /\ pc # "settle" /\ pc' # "settle"
  BY DEF Sitting, SitBuilds, SponsorBuilds, Builds, SitDebits, SitRecords, SponsorStakes, SponsorRecords, SponsorFunds, lobby
<1>2. CASE SponsorStakes
  <2>1. /\ n \in Sessions /\ pc = "stake" /\ stakes \in [Sessions -> StakeRows]
        /\ stakes' = [stakes EXCEPT ![n] =
                    [status |-> "active", kind |-> task.kind, principal |-> task.amount,
                     carry |-> 0, owed |-> task.amount, repaid |-> 0, left |-> 0]]
    BY <1>2 DEF SponsorStakes, CashInv, Covered, TypeOK, StakeRows
  <2>2. PICK t \in Sessions : t = n
    BY <2>1
  <2>3. stakes[t].status = "none"
    BY <2>1, <2>2 DEF Paid
  <2>4. \A r \in Requests : busy[r] # "idle" => job[r].stake # t
    BY <2>3 DEF Paid, JobKnows, Over
  <2>5. /\ \A s \in Sessions \ {t} : stakes'[s] = stakes[s]
        /\ stakes'[t].status = "active"
    BY <2>1, <2>2
  <2>6. \A s \in Sessions \ {t} : Has(s)' = Has(s)
    BY <1>1, <2>5 DEF Has
  <2> QED BY <1>1, <2>4, <2>5, <2>6, TermsWrite DEF Over
<1>3. CASE ~SponsorStakes
  <2>1. stakes' = stakes
    BY <1>3 DEF Sitting, SitBuilds, SponsorBuilds, Builds, SitDebits, SitRecords, SponsorRecords, SponsorFunds
  <2> QED BY <1>1, <2>1, TermsKept
<1> QED BY <1>2, <1>3

\* A leave settles the stake on its terms, and pays what it settled.
LEMMA TermsLeaves ==
  ASSUME CashInv, Shape, Paid, Money, Terms, Apart,
         LeaveSettles \/ LeavePaysStaker \/ LeaveCredits \/ LeaveFinalises \/ LeaveRemoves
  PROVE  Terms'
<1>0. /\ game.stack \in Nat /\ task.staker \in Nat /\ stakes \in [Sessions -> StakeRows]
  BY FieldTypes DEF CashInv, TypeOK, StakeRows
<1>1. busy' = busy /\ job' = job
  BY DEF LeaveSettles, LeavePaysStaker, LeaveCredits, LeaveFinalises, LeaveRemoves, lobby
<1>3. CASE LeaveSettles
  <2>1. /\ n \in Sessions /\ pc = "idle" /\ n' = n /\ \A r \in Requests : busy[r] = "idle"
    BY <1>3, LeaveBegins
  <2>2. CASE pc' = "credit" /\ stakes' = stakes
    BY <1>1, <2>1, <2>2, TermsKept
  <2>3. ASSUME NEW staker, Settles(staker) PROVE Terms'
    <3>1. /\ staker \in StakerTotals(stakes[n].principal, game.stack)
          /\ stakes' = [stakes EXCEPT ![n] = SettledStake(stakes[n], game.stack, staker)]
          /\ pc' = "settle" /\ task'.staker = staker
          /\ stakes[n].status = "active"
      BY <2>3 DEF Settles
    <3>2. PICK t \in Sessions : t = n
      BY <2>1
    <3>3. stakes[t] \in StakeRows /\ stakes'[t] = SettledStake(stakes[t], game.stack, staker)
          /\ \A s \in Sessions \ {t} : stakes'[s] = stakes[s]
      BY <1>0, <3>1, <3>2
    <3>4. /\ stakes'[t].principal = stakes[t].principal /\ stakes'[t].left = game.stack
          /\ stakes'[t].repaid = stakes[t].repaid
          /\ Short(stakes'[t]) => /\ stakes'[t].status = "carry" /\ staker = game.stack
                                  /\ stakes'[t].carry = stakes[t].principal - game.stack
          /\ ~Short(stakes'[t]) => stakes'[t].status = "settled" /\ stakes'[t].carry = 0
          /\ staker \in Nat
      BY <1>0, <3>1, <3>2, <3>3, SettledFields
    <3>5. stakes[t].repaid = 0
      BY <3>1, <3>2 DEF Paid
    <3>6. Has(t)' = staker
      <4>1. Has(t)' = stakes'[t].repaid + (IF pc' = "settle" /\ n' = t THEN task'.staker ELSE 0)
        BY DEF Has
      <4> QED BY <2>1, <3>1, <3>2, <3>4, <3>5, <4>1
    <3>7. \A s \in Sessions \ {t} : Has(s)' = Has(s)
      BY <2>1, <3>2, <3>3 DEF Has
    <3>8. InTerms(t)'
      <4>1. CASE Short(stakes'[t])
        BY <3>4, <3>6, <4>1 DEF InTerms
      <4>2. CASE ~Short(stakes'[t])
        BY <3>1, <3>2, <3>4, <3>6, <4>2 DEF InTerms
      <4> QED BY <4>1, <4>2
    <3> QED BY <1>1, <2>1, <3>3, <3>7, <3>8, TermsWrite
  <2> QED BY <1>3, <2>2, <2>3, LeaveBegins
<1>4. CASE LeavePaysStaker
  <2>1. /\ pc = "settle" /\ pc' = "credit" /\ UNCHANGED <<n, task>>
        /\ stakes' = [stakes EXCEPT ![n].repaid = @ + task.staker]
    BY <1>4 DEF LeavePaysStaker
  <2>2. n \in Sessions /\ stakes[n].status \in Over
    BY <2>1 DEF CashInv, Covered, Paid
  <2>3. \A r \in Requests : busy[r] = "idle"
    BY <2>1 DEF Shape, LeaveSpots
  <2>4. PICK t \in Sessions : t = n
    BY <2>2
  <2>5. stakes[t] \in StakeRows /\ stakes'[t] = [stakes[t] EXCEPT !.repaid = stakes[t].repaid + task.staker]
        /\ \A s \in Sessions \ {t} : stakes'[s] = stakes[s]
    BY <1>0, <2>1, <2>4
  <2>6. /\ stakes'[t].principal = stakes[t].principal /\ stakes'[t].left = stakes[t].left
        /\ stakes'[t].status = stakes[t].status /\ stakes'[t].kind = stakes[t].kind
        /\ stakes'[t].carry = stakes[t].carry /\ stakes'[t].repaid = stakes[t].repaid + task.staker
        /\ stakes[t].repaid \in Nat
    BY <2>5 DEF StakeRows
  <2>7. Has(t)' = Has(t)
    BY <1>0, <2>1, <2>4, <2>6 DEF Has
  <2>8. \A s \in Sessions \ {t} : Has(s)' = Has(s)
    BY <2>1, <2>4, <2>5 DEF Has
  <2>9. InTerms(t)
    BY <2>2, <2>4 DEF Terms
  <2>10. InTerms(t)'
    BY <1>1, <2>6, <2>7, <2>9 DEF InTerms, OnIt, Short
  <2> QED BY <1>1, <2>3, <2>5, <2>8, <2>10, TermsWrite
<1>5. CASE LeaveCredits \/ LeaveFinalises \/ LeaveRemoves
  <2>1. stakes' = stakes /\ pc # "settle" /\ pc' # "settle"
    BY <1>5 DEF LeaveCredits, LeaveFinalises, LeaveRemoves
  <2> QED BY <1>1, <2>1, TermsKept
<1> QED BY <1>3, <1>4, <1>5

\* What the terms of a stake say while requests about it move.
LEMMA TermsResolves ==
  ASSUME CashInv, Shape, Paid, Terms,
         NEW r \in Requests, NEW s \in Sessions, Looks(r, s) \/ Advances(r, s)
  PROVE  Terms'
<1>0. /\ stakes[s].principal \in Nat /\ stakes[s].left \in Nat /\ stakes[s].carry \in Nat
      /\ stakes[s].repaid \in Nat /\ job[r].carry \in Nat /\ \A q \in Requests : job[q].stake \in Sessions
  BY FieldTypes DEF CashInv
<1>1. /\ UNCHANGED <<n, pc, task>>
      /\ \A q \in Requests \ {r} : busy'[q] = busy[q] /\ job'[q] = job[q]
      /\ \A u \in Sessions \ {s} : stakes'[u] = stakes[u]
      /\ stakes'[s].kind = stakes[s].kind /\ stakes'[s].principal = stakes[s].principal
      /\ stakes'[s].left = stakes[s].left
  BY DEF Looks, Advances, GoesOn, Move
<1>2. CASE Looks(r, s)
  <2>1. /\ stakes' = stakes /\ busy[r] = "idle" /\ busy'[r] \in {"claim", "zero"}
        /\ stakes[s].status = "carry" /\ job'[r].stake = s /\ job'[r].carry = stakes[s].carry
    BY <1>2 DEF Looks
  <2>2. \A u \in Sessions : Has(u)' = Has(u)
    BY <1>1, <2>1 DEF Has
  <2>3. \A u \in Sessions : /\ OnIt(u, {"mark"}) => OnIt(u, {"mark"})'
                            /\ OnIt(u, {"debit", "credit", "close"}) => OnIt(u, {"debit", "credit", "close"})'
    BY <1>1, <2>1 DEF OnIt
  <2>4. \A u \in Sessions : InTerms(u) => InTerms(u)'
    BY <2>1, <2>2, <2>3 DEF InTerms, Short
  <2>5. stakes[s].carry \in {0, stakes[s].principal - stakes[s].left}
    <3>1. InTerms(s)
      BY <2>1 DEF Terms, Over
    <3> QED BY <3>1 DEF InTerms
  <2>6. \A q \in Requests \ {r} : busy'[q] # "idle" =>
          LET stake == stakes[job[q].stake]
          IN  /\ job[q].carry \in {0, stake.principal - stake.left}
              /\ busy[q] \in {"debit", "credit", "close"} => stake.status # "carry"
              /\ Paying(q) => stake.repaid = stake.left
              /\ busy[q] = "mark" => stake.carry = 0
    BY <1>1 DEF Terms
  <2> QED BY <1>1, <2>1, <2>4, <2>5, <2>6 DEF Terms, Paying
<1>3. CASE Advances(r, s)
  <2>1. busy[r] # "idle" /\ job[r].stake = s /\ pc # "settle" /\ pc' # "settle"
    <3>1. busy[r] # "idle" /\ job[r].stake = s
      BY <1>3 DEF Advances, GoesOn
    <3>2. pc \notin LeaveSpots
      BY <3>1 DEF Shape
    <3> QED BY <1>1, <3>1, <3>2 DEF LeaveSpots
  <2>2. stakes[s].status \in Over /\ Short(stakes[s]) /\ Short(stakes'[s])
    BY <1>1, <2>1 DEF Paid, JobKnows, Short
  <2>3. \A u \in Sessions : Has(u) = stakes[u].repaid /\ Has(u)' = stakes'[u].repaid
    <3>1. \A u \in Sessions : stakes[u].repaid \in Nat
      BY FieldTypes DEF CashInv
    <3>2. \A u \in Sessions \ {s} : stakes'[u].repaid \in Nat
      BY <1>1, <3>1
    <3>3. stakes'[s].repaid \in Nat
      BY <1>0, <1>3 DEF Advances, Writes
    <3> QED BY <2>1, <3>1, <3>2, <3>3 DEF Has
  <2>4. \A u \in Sessions \ {s} :
          /\ OnIt(u, {"mark"}) => OnIt(u, {"mark"})'
          /\ OnIt(u, {"debit", "credit", "close"}) => OnIt(u, {"debit", "credit", "close"})'
    BY <1>1, <2>1 DEF OnIt
  <2>5. \A u \in Sessions \ {s} : InTerms(u) => InTerms(u)'
    BY <1>1, <2>3, <2>4 DEF InTerms, Short
  <2> DEFINE p == stakes[s].principal
             l == stakes[s].left
  <2>6. /\ stakes[s].status = "carry" =>
             stakes[s].repaid = l /\ (stakes[s].carry = p - l \/ (stakes[s].carry = 0 /\ OnIt(s, {"mark"})))
        /\ stakes[s].status # "carry" =>
             /\ stakes[s].repaid \in {l, p}
             /\ stakes[s].carry = 0 \/ (stakes[s].carry = p - l /\ OnIt(s, {"debit", "credit", "close"}))
    <3>1. InTerms(s)
      BY <2>2 DEF Terms
    <3> QED BY <2>2, <2>3, <3>1 DEF InTerms
  <2>7. ASSUME stakes'[s].status = "carry" =>
                 stakes'[s].repaid = l /\ (stakes'[s].carry = p - l \/ (stakes'[s].carry = 0 /\ OnIt(s, {"mark"})')),
               stakes'[s].status # "carry" =>
                 /\ stakes'[s].repaid \in {l, p}
                 /\ stakes'[s].carry = 0 \/ (stakes'[s].carry = p - l /\ OnIt(s, {"debit", "credit", "close"})')
        PROVE  InTerms(s)'
    BY <1>1, <2>2, <2>3, <2>7 DEF InTerms
  <2>8. ASSUME InTerms(s)',
               \A q \in Requests : busy'[q] # "idle" =>
                  /\ busy'[q] \in {"debit", "credit", "close"} => stakes'[s].status # "carry"
                  /\ busy'[q] \in {"debit", "credit"} => stakes'[s].repaid = l
                  /\ busy'[q] = "mark" => stakes'[s].carry = 0
        PROVE  Terms'
    <3>1. \A u \in Sessions : stakes'[u].status \in Over => InTerms(u)'
      BY <1>1, <2>5, <2>8 DEF Terms
    <3>2. \A q \in Requests : busy'[q] # "idle" => /\ busy[q] # "idle" /\ job'[q] = job[q] /\ job[q].stake = s
      <4>1. busy'[r] # "idle" => job'[r] = job[r]
        BY <1>3 DEF Advances, GoesOn
      <4> QED BY <1>1, <2>1, <4>1 DEF Shape
    <3>3. \A q \in Requests : busy'[q] # "idle" => job'[q].carry \in {0, stakes'[s].principal - stakes'[s].left}
      BY <1>1, <3>2 DEF Terms
    <3> QED BY <1>1, <2>8, <3>1, <3>2, <3>3 DEF Terms, Paying
  <2>9. \A q \in Requests : busy[q] # "idle" =>
           /\ job[q].stake = s
           /\ job[q].carry \in {0, p - l}
           /\ busy[q] \in {"debit", "credit", "close"} => stakes[s].status # "carry"
           /\ busy[q] \in {"debit", "credit"} => stakes[s].repaid = l
           /\ busy[q] = "mark" => stakes[s].carry = 0
    <3>1. \A q \in Requests : busy[q] # "idle" => job[q].stake = s
      BY <2>1 DEF Shape
    <3> QED BY <3>1 DEF Terms, Paying
  <2>10. /\ \A spots : (OnIt(s, spots) /\ busy[r] \notin spots) => OnIt(s, spots)'
         /\ \A spots : busy'[r] # "idle" /\ busy'[r] \in spots => OnIt(s, spots)'
    <3>1. busy'[r] # "idle" => job'[r] = job[r]
      BY <1>3 DEF Advances, GoesOn
    <3> QED BY <1>1, <2>1, <3>1 DEF OnIt
  <2>11. p \in Nat /\ l \in Nat /\ \A q \in Requests \ {r} : busy'[q] = busy[q]
    BY <1>0, <1>1
  <2>12. CASE GoesOn(r, s, "claim", "debit") /\ stakes[s].status = "carry"
               /\ Writes(s, "settled", stakes[s].carry, stakes[s].owed, stakes[s].repaid)
    <3>1. InTerms(s)'
      BY <2>2, <2>6, <2>7, <2>9, <2>10, <2>11, <2>12 DEF GoesOn, Writes
    <3>2. \A q \in Requests : busy'[q] # "idle" =>
             /\ busy'[q] \in {"debit", "credit", "close"} => stakes'[s].status # "carry"
             /\ busy'[q] \in {"debit", "credit"} => stakes'[s].repaid = l
             /\ busy'[q] = "mark" => stakes'[s].carry = 0
      <4>1. stakes[s].repaid = l /\ stakes'[s].repaid = l /\ stakes'[s].status # "carry"
        BY <2>6, <2>12 DEF Writes
      <4>2. busy'[r] = "debit" /\ \A q \in Requests \ {r} : busy'[q] \notin {"debit", "credit", "close"}
        BY <2>9, <2>11, <2>12 DEF GoesOn
      <4>3. \A q \in Requests \ {r} : busy'[q] = "mark" => stakes'[s].carry = 0
        BY <2>9, <2>11, <2>12 DEF Writes
      <4> QED BY <4>1, <4>2, <4>3
    <3> QED BY <2>8, <3>1, <3>2
  <2>13. CASE GoesOn(r, s, "claim", "idle") /\ stakes[s].status # "carry" /\ stakes' = stakes
    <3>1. InTerms(s)'
      BY <2>2, <2>6, <2>7, <2>9, <2>10, <2>11, <2>13 DEF GoesOn, Writes
    <3>2. \A q \in Requests : busy'[q] # "idle" =>
             /\ busy'[q] \in {"debit", "credit", "close"} => stakes'[s].status # "carry"
             /\ busy'[q] \in {"debit", "credit"} => stakes'[s].repaid = l
             /\ busy'[q] = "mark" => stakes'[s].carry = 0
      BY <2>9, <2>11, <2>13 DEF GoesOn, Writes
    <3> QED BY <2>8, <3>1, <3>2
  <2>14. CASE GoesOn(r, s, "debit", "credit") /\ stakes' = stakes
    <3>1. InTerms(s)'
      BY <2>2, <2>6, <2>7, <2>9, <2>10, <2>11, <2>14 DEF GoesOn, Writes
    <3>2. \A q \in Requests : busy'[q] # "idle" =>
             /\ busy'[q] \in {"debit", "credit", "close"} => stakes'[s].status # "carry"
             /\ busy'[q] \in {"debit", "credit"} => stakes'[s].repaid = l
             /\ busy'[q] = "mark" => stakes'[s].carry = 0
      BY <2>9, <2>11, <2>14 DEF GoesOn, Writes
    <3> QED BY <2>8, <3>1, <3>2
  <2>15. CASE /\ GoesOn(r, s, "credit", "close")
            /\ Writes(s, stakes[s].status, stakes[s].carry, stakes[s].owed, stakes[s].repaid + job[r].carry)
    <3>1. InTerms(s)'
      BY <2>2, <2>6, <2>7, <2>9, <2>10, <2>11, <2>15 DEF GoesOn, Writes
    <3>2. \A q \in Requests : busy'[q] # "idle" =>
             /\ busy'[q] \in {"debit", "credit", "close"} => stakes'[s].status # "carry"
             /\ busy'[q] \in {"debit", "credit"} => stakes'[s].repaid = l
             /\ busy'[q] = "mark" => stakes'[s].carry = 0
      BY <2>9, <2>11, <2>15, OnePays DEF GoesOn, Writes, Paying
    <3> QED BY <2>8, <3>1, <3>2
  <2>16. CASE /\ GoesOn(r, s, "close", "idle")
            /\ Writes(s, stakes[s].status, 0, stakes[s].owed - job[r].carry, stakes[s].repaid)
    <3>1. InTerms(s)'
      BY <2>2, <2>6, <2>7, <2>9, <2>10, <2>11, <2>16 DEF GoesOn, Writes
    <3>2. \A q \in Requests : busy'[q] # "idle" =>
             /\ busy'[q] \in {"debit", "credit", "close"} => stakes'[s].status # "carry"
             /\ busy'[q] \in {"debit", "credit"} => stakes'[s].repaid = l
             /\ busy'[q] = "mark" => stakes'[s].carry = 0
      BY <2>9, <2>11, <2>16 DEF GoesOn, Writes
    <3> QED BY <2>8, <3>1, <3>2
  <2>17. CASE /\ GoesOn(r, s, "zero", "mark")
            /\ Writes(s, stakes[s].status, 0, stakes[s].owed, stakes[s].repaid)
    <3>1. InTerms(s)'
      BY <2>2, <2>6, <2>7, <2>9, <2>10, <2>11, <2>17 DEF GoesOn, Writes
    <3>2. \A q \in Requests : busy'[q] # "idle" =>
             /\ busy'[q] \in {"debit", "credit", "close"} => stakes'[s].status # "carry"
             /\ busy'[q] \in {"debit", "credit"} => stakes'[s].repaid = l
             /\ busy'[q] = "mark" => stakes'[s].carry = 0
      BY <2>9, <2>11, <2>17 DEF GoesOn, Writes
    <3> QED BY <2>8, <3>1, <3>2
  <2>18. CASE /\ GoesOn(r, s, "mark", "writeoff") \/ GoesOn(r, s, "mark", "idle")
            /\ \E status \in {"defaulted", "settled"} : Writes(s, status, stakes[s].carry, stakes[s].owed, stakes[s].repaid)
    <3>1. InTerms(s)'
      BY <2>2, <2>6, <2>7, <2>9, <2>10, <2>11, <2>18 DEF GoesOn, Writes
    <3>2. \A q \in Requests : busy'[q] # "idle" =>
             /\ busy'[q] \in {"debit", "credit", "close"} => stakes'[s].status # "carry"
             /\ busy'[q] \in {"debit", "credit"} => stakes'[s].repaid = l
             /\ busy'[q] = "mark" => stakes'[s].carry = 0
      BY <2>9, <2>11, <2>18 DEF GoesOn, Writes
    <3> QED BY <2>8, <3>1, <3>2
  <2>19. CASE /\ GoesOn(r, s, "writeoff", "idle")
            /\ Writes(s, stakes[s].status, stakes[s].carry, stakes[s].owed - job[r].carry, stakes[s].repaid)
    <3>1. InTerms(s)'
      BY <2>2, <2>6, <2>7, <2>9, <2>10, <2>11, <2>19 DEF GoesOn, Writes
    <3>2. \A q \in Requests : busy'[q] # "idle" =>
             /\ busy'[q] \in {"debit", "credit", "close"} => stakes'[s].status # "carry"
             /\ busy'[q] \in {"debit", "credit"} => stakes'[s].repaid = l
             /\ busy'[q] = "mark" => stakes'[s].carry = 0
      BY <2>9, <2>11, <2>19 DEF GoesOn, Writes
    <3> QED BY <2>8, <3>1, <3>2
  <2> QED BY <1>3, <2>12, <2>13, <2>14, <2>15, <2>16, <2>17, <2>18, <2>19 DEF Advances
<1> QED BY <1>2, <1>3

-----------------------------------------------------------------------------
(* What is owed on a stake.                                                  *)
OneRequest == \A r, q \in Requests : busy[r] # "idle" /\ busy[q] # "idle" => r = q

\* A step that writes no stake and moves no request changes no debt.
LEMMA DebtsKept ==
  ASSUME Debts, stakes' = stakes, busy' = busy, job' = job,
         pc # "settle", pc' # "settle"
  PROVE  Debts'
BY DEF Debts, Debt, GivenUp

\* The stake that is written has nobody about it.
LEMMA DebtsWrite ==
  ASSUME CashInv, Debts, NEW t \in Sessions, \A s \in Sessions \ {t} : stakes'[s] = stakes[s],
         busy' = busy, job' = job, n' = n, n = t, \A r \in Requests : busy[r] # "idle" => job[r].stake # t,
         stakes'[t].owed = IF pc' = "settle" THEN stakes'[t].carry ELSE Debt(stakes'[t])
  PROVE  Debts'
<1>1. \A r \in Requests : job[r].stake \in Sessions
  BY FieldTypes DEF CashInv
<1>2. \A r \in Requests : busy'[r] # "idle" => stakes'[job'[r].stake] = stakes[job[r].stake]
  BY <1>1
<1>3. \A s \in Sessions \ {t} :
          (\A r \in Requests : busy[r] = "idle" \/ job[r].stake # s) => stakes'[s].owed = Debt(stakes'[s])
  BY DEF Debts
<1>4. \A s \in Sessions :
          (\A r \in Requests : busy'[r] = "idle" \/ job'[r].stake # s) =>
              stakes'[s].owed = IF s = n' /\ pc' = "settle" THEN stakes'[s].carry ELSE Debt(stakes'[s])
  BY <1>3
<1>5. \A r, q \in Requests : busy'[r] # "idle" /\ busy'[q] # "idle" => r = q
  BY DEF Debts
<1>6. \A r \in Requests : busy'[r] # "idle" =>
          LET stake == stakes'[job'[r].stake]
          IN  /\ stake.owed = job'[r].carry /\ job'[r].carry = stake.principal - stake.left
              /\ busy'[r] \in {"claim", "zero"} => stake.status = "carry" /\ stake.carry = job'[r].carry
              /\ busy'[r] = "mark" => stake.status = "carry"
              /\ busy'[r] \in {"debit", "credit", "close"} => stake.status = "settled"
              /\ busy'[r] = "close" => stake.repaid = stake.principal
              /\ busy'[r] = "writeoff" => stake.status = "defaulted" /\ stake.carry = 0
  BY <1>2 DEF Debts
<1> QED BY <1>4, <1>5, <1>6 DEF Debts

\* Play changes no debt.
LEMMA DebtsTable ==
  ASSUME CashInv, Shape, Debts, AtTable
  PROVE  Debts'
BY TablePays, DebtsKept DEF LeaveSpots

\* A sponsored sit opens an account over the principal.
LEMMA DebtsSits ==
  ASSUME CashInv, Shape, Paid, Debts, Sitting
  PROVE  Debts'
<1>1. busy' = busy /\ job' = job /\ pc # "settle" /\ pc' # "settle"
  BY DEF Sitting, SitBuilds, SponsorBuilds, Builds, SitDebits, SitRecords, SponsorStakes, SponsorRecords, SponsorFunds, lobby
<1>2. CASE SponsorStakes
  <2>1. /\ n \in Sessions /\ pc = "stake" /\ stakes \in [Sessions -> StakeRows] /\ n' = n
        /\ stakes' = [stakes EXCEPT ![n] =
                    [status |-> "active", kind |-> task.kind, principal |-> task.amount,
                     carry |-> 0, owed |-> task.amount, repaid |-> 0, left |-> 0]]
    BY <1>2 DEF SponsorStakes, CashInv, Covered, TypeOK, StakeRows
  <2>2. PICK t \in Sessions : t = n
    BY <2>1
  <2>3. stakes[t].status = "none"
    BY <2>1, <2>2 DEF Paid
  <2>4. \A r \in Requests : busy[r] # "idle" => job[r].stake # t
    BY <2>3 DEF Paid, JobKnows, Over
  <2>5. /\ \A s \in Sessions \ {t} : stakes'[s] = stakes[s]
        /\ stakes'[t].status = "active" /\ stakes'[t].owed = stakes'[t].principal
    BY <2>1, <2>2
  <2>6. stakes'[t].owed = Debt(stakes'[t])
    BY <2>5 DEF Debt, GivenUp
  <2> QED BY <1>1, <2>1, <2>2, <2>4, <2>5, <2>6, DebtsWrite
<1>3. CASE ~SponsorStakes
  <2>1. stakes' = stakes
    BY <1>3 DEF Sitting, SitBuilds, SponsorBuilds, Builds, SitDebits, SitRecords, SponsorRecords, SponsorFunds
  <2> QED BY <1>1, <2>1, DebtsKept
<1> QED BY <1>2, <1>3

\* A leave leaves the carry on the account, and no carry once the staker has its principal.
LEMMA DebtsLeaves ==
  ASSUME CashInv, Shape, Paid, Money, Terms, Debts, Apart,
         LeaveSettles \/ LeavePaysStaker \/ LeaveCredits \/ LeaveFinalises \/ LeaveRemoves
  PROVE  Debts'
<1>0. /\ game.stack \in Nat /\ task.staker \in Nat /\ stakes \in [Sessions -> StakeRows]
  BY FieldTypes DEF CashInv, TypeOK, StakeRows
<1>1. busy' = busy /\ job' = job
  BY DEF LeaveSettles, LeavePaysStaker, LeaveCredits, LeaveFinalises, LeaveRemoves, lobby
<1>3. CASE LeaveSettles
  <2>1. /\ n \in Sessions /\ pc = "idle" /\ n' = n /\ \A r \in Requests : busy[r] = "idle"
    BY <1>3, LeaveBegins
  <2>2. CASE pc' = "credit" /\ stakes' = stakes
    BY <1>1, <2>1, <2>2, DebtsKept
  <2>3. ASSUME NEW staker, Settles(staker) PROVE Debts'
    <3>1. /\ staker \in StakerTotals(stakes[n].principal, game.stack)
          /\ stakes' = [stakes EXCEPT ![n] = SettledStake(stakes[n], game.stack, staker)]
          /\ pc' = "settle"
      BY <2>3 DEF Settles
    <3>2. PICK t \in Sessions : t = n
      BY <2>1
    <3>3. stakes[t] \in StakeRows /\ stakes'[t] = SettledStake(stakes[t], game.stack, staker)
          /\ \A s \in Sessions \ {t} : stakes'[s] = stakes[s]
      BY <1>0, <3>1, <3>2
    <3>4. stakes'[t].owed = stakes'[t].carry
      BY <1>0, <3>1, <3>2, <3>3, SettledFields
    <3> QED BY <1>1, <2>1, <3>1, <3>2, <3>3, <3>4, DebtsWrite
  <2> QED BY <1>3, <2>2, <2>3, LeaveBegins
<1>4. CASE LeavePaysStaker
  <2>1. /\ pc = "settle" /\ pc' = "credit" /\ UNCHANGED <<n, task>>
        /\ stakes' = [stakes EXCEPT ![n].repaid = @ + task.staker]
    BY <1>4 DEF LeavePaysStaker
  <2>2. n \in Sessions /\ stakes[n].status \in Over
    BY <2>1 DEF CashInv, Covered, Paid
  <2>3. \A r \in Requests : busy[r] = "idle"
    BY <2>1 DEF Shape, LeaveSpots
  <2>4. PICK t \in Sessions : t = n
    BY <2>2
  <2>5. stakes[t] \in StakeRows /\ stakes'[t] = [stakes[t] EXCEPT !.repaid = stakes[t].repaid + task.staker]
        /\ \A s \in Sessions \ {t} : stakes'[s] = stakes[s]
    BY <1>0, <2>1, <2>4
  <2>6. /\ stakes'[t].principal = stakes[t].principal /\ stakes'[t].left = stakes[t].left
        /\ stakes'[t].status = stakes[t].status /\ stakes'[t].kind = stakes[t].kind
        /\ stakes'[t].carry = stakes[t].carry /\ stakes'[t].repaid = stakes[t].repaid + task.staker
        /\ stakes'[t].owed = stakes[t].owed /\ stakes[t].repaid \in Nat
        /\ stakes[t].principal \in Nat /\ stakes[t].left \in Nat
    BY <2>5 DEF StakeRows
  <2>7. stakes[t].owed = stakes[t].carry
    BY <2>1, <2>3, <2>4 DEF Debts
  <2>8. stakes[t].status # "carry" /\ stakes[t].kind = "persona" => stakes'[t].repaid >= stakes[t].principal
    <3> SUFFICES ASSUME stakes[t].status # "carry", stakes[t].kind = "persona"
                 PROVE  stakes'[t].repaid >= stakes[t].principal
      OBVIOUS
    <3>1. ~Short(stakes[t])
      BY <2>1, <2>4 DEF Money
    <3>2. Has(t) \in StakerTotals(stakes[t].principal, stakes[t].left)
      BY <2>2, <2>4, <3>1 DEF Terms, InTerms
    <3>3. Has(t) = stakes[t].repaid + task.staker
      BY <2>1, <2>4 DEF Has
    <3>4. stakes[t].left >= stakes[t].principal /\ stakes[t].left - stakes[t].principal \in Nat
      BY <2>6, <3>1 DEF Short
    <3>5. PICK share \in Shares(stakes[t].left - stakes[t].principal) : Has(t) = stakes[t].principal + share
      BY <3>2, <3>4 DEF StakerTotals
    <3>6. share \in Nat
      BY <3>4, ShareBound
    <3> QED BY <2>6, <3>3, <3>5, <3>6
  <2>9. stakes'[t].owed = Debt(stakes'[t])
    <3>1. stakes'[t].status # "active"
      BY <2>2, <2>4, <2>6 DEF Over
    <3>2. ~(stakes'[t].kind = "persona" /\ stakes'[t].status = "settled" /\ stakes'[t].repaid < stakes'[t].principal)
      BY <1>0, <2>6, <2>8
    <3> QED BY <2>6, <2>7, <3>1, <3>2 DEF Debt, GivenUp
  <2> QED BY <1>1, <2>1, <2>3, <2>4, <2>5, <2>9, DebtsWrite
<1>5. CASE LeaveCredits \/ LeaveFinalises \/ LeaveRemoves
  <2>1. stakes' = stakes /\ pc # "settle" /\ pc' # "settle"
    BY <1>5 DEF LeaveCredits, LeaveFinalises, LeaveRemoves
  <2> QED BY <1>1, <2>1, DebtsKept
<1> QED BY <1>3, <1>4, <1>5

\* What is owed on a stake while the one request about it moves.
LEMMA DebtsResolves ==
  ASSUME CashInv, Shape, Paid, Terms, Debts, Apart, OneRequest',
         NEW r \in Requests, NEW s \in Sessions, Looks(r, s) \/ Advances(r, s)
  PROVE  Debts'
<1>0. /\ stakes[s].principal \in Nat /\ stakes[s].left \in Nat /\ stakes[s].carry \in Nat
      /\ stakes[s].repaid \in Nat /\ stakes[s].owed \in Int
      /\ job[r].carry \in Nat /\ \A q \in Requests : job[q].stake \in Sessions
  BY FieldTypes DEF CashInv
<1>1. /\ UNCHANGED <<n, pc, task>>
      /\ \A q \in Requests \ {r} : busy'[q] = busy[q] /\ job'[q] = job[q]
      /\ \A u \in Sessions \ {s} : stakes'[u] = stakes[u]
      /\ stakes'[s].kind = stakes[s].kind /\ stakes'[s].principal = stakes[s].principal
      /\ stakes'[s].left = stakes[s].left
  BY DEF Looks, Advances, GoesOn, Move
<1>2. \A q \in Requests \ {r} : busy[q] = "idle" /\ busy'[q] = "idle"
  <2>1. CASE busy[r] # "idle"
    BY <1>1, <2>1 DEF Debts
  <2>2. CASE busy[r] = "idle"
    <3>1. busy'[r] # "idle"
      BY <2>2 DEF Looks, Advances, GoesOn
    <3> QED BY <1>1, <3>1 DEF OneRequest
  <2> QED BY <2>1, <2>2
<1>3. pc # "settle" /\ pc' # "settle"
  <2>1. CASE busy[r] # "idle"
    BY <1>1, <2>1 DEF Shape, LeaveSpots
  <2>2. CASE Looks(r, s)
    <3>1. busy'[r] # "idle" /\ pc' = pc
      BY <1>1, <2>2 DEF Looks
    <3> QED BY <3>1, ApartMeans DEF LeaveSpots
  <2> QED BY <1>1, <2>1, <2>2 DEF Looks, Advances, GoesOn
<1>4. \A u \in Sessions \ {s} : stakes'[u].owed = Debt(stakes'[u])
  <2>1. \A u \in Sessions \ {s} : \A q \in Requests : busy[q] = "idle" \/ job[q].stake # u
    BY <1>2 DEF Looks, Advances, GoesOn
  <2> QED BY <1>1, <1>3, <2>1 DEF Debts
<1> DEFINE Know == /\ stakes'[s].owed = job'[r].carry /\ job'[r].carry = stakes'[s].principal - stakes'[s].left
                   /\ busy'[r] \in {"claim", "zero"} => stakes'[s].status = "carry" /\ stakes'[s].carry = job'[r].carry
                   /\ busy'[r] = "mark" => stakes'[s].status = "carry"
                   /\ busy'[r] \in {"debit", "credit", "close"} => stakes'[s].status = "settled"
                   /\ busy'[r] = "close" => stakes'[s].repaid = stakes'[s].principal
                   /\ busy'[r] = "writeoff" => stakes'[s].status = "defaulted" /\ stakes'[s].carry = 0
<1>5. ASSUME busy'[r] = "idle" => stakes'[s].owed = Debt(stakes'[s]),
             busy'[r] # "idle" => job'[r].stake = s /\ Know
      PROVE  Debts'
  <2>1. \A q, p \in Requests : busy'[q] # "idle" /\ busy'[p] # "idle" => q = p
    BY DEF OneRequest
  <2>2. \A u \in Sessions :
          (\A q \in Requests : busy'[q] = "idle" \/ job'[q].stake # u) => stakes'[u].owed = Debt(stakes'[u])
    BY <1>4, <1>5
  <2>3. \A q \in Requests : busy'[q] # "idle" => q = r
    BY <1>2
  <2> QED BY <1>3, <1>5, <2>1, <2>2, <2>3 DEF Debts
<1> HIDE DEF Know
<1>6. CASE Looks(r, s)
  <2>1. /\ stakes' = stakes /\ busy[r] = "idle" /\ busy'[r] \in {"claim", "zero"}
        /\ stakes[s].status = "carry" /\ job'[r].stake = s /\ job'[r].carry = stakes[s].carry
    BY <1>6 DEF Looks
  <2>2. \A q \in Requests : busy[q] = "idle"
    BY <1>2, <2>1
  <2>3. stakes[s].owed = stakes[s].carry
    BY <1>3, <2>1, <2>2 DEF Debts, Debt, GivenUp
  <2>4. stakes[s].carry = stakes[s].principal - stakes[s].left
    <3>1. InTerms(s) /\ Short(stakes[s])
      BY <2>1 DEF Terms, Over, InTerms
    <3> QED BY <2>1, <2>2, <3>1 DEF InTerms, OnIt
  <2> QED BY <1>5, <2>1, <2>3, <2>4 DEF Know
<1>7. CASE Advances(r, s)
  <2> DEFINE p == stakes[s].principal
             l == stakes[s].left
             c == job[r].carry
  <2>1. busy[r] # "idle" /\ job[r].stake = s
    BY <1>7 DEF Advances, GoesOn
  <2>2. stakes[s].status \in Over /\ stakes[s].kind = "persona" /\ l < p
    BY <2>1 DEF Paid, JobKnows, Short
  <2>3. /\ stakes[s].owed = c /\ c = p - l
        /\ busy[r] \in {"claim", "zero"} => stakes[s].status = "carry" /\ stakes[s].carry = c
        /\ busy[r] = "mark" => stakes[s].status = "carry"
        /\ busy[r] \in {"debit", "credit", "close"} => stakes[s].status = "settled"
        /\ busy[r] = "close" => stakes[s].repaid = p
        /\ busy[r] = "writeoff" => stakes[s].status = "defaulted" /\ stakes[s].carry = 0
    BY <2>1 DEF Debts
  <2>4. /\ busy[r] \in {"debit", "credit"} => stakes[s].repaid = l
        /\ busy[r] = "mark" => stakes[s].carry = 0 /\ stakes[s].repaid = l
    <3>1. busy[r] = "mark" => stakes[s].status = "carry" /\ InTerms(s) /\ Short(stakes[s])
      BY <2>2, <2>3 DEF Terms, Short
    <3>2. Has(s) = stakes[s].repaid
      BY <1>0, <1>3 DEF Has
    <3> QED BY <2>1, <3>1, <3>2 DEF Terms, Paying, InTerms
  <2>5. /\ busy'[r] # "idle" => job'[r] = job[r]
        /\ stakes'[s].principal = p /\ stakes'[s].left = l /\ stakes'[s].kind = "persona"
        /\ p \in Nat /\ l \in Nat /\ c \in Nat
    BY <1>0, <1>1, <1>7, <2>2 DEF Advances, GoesOn
  <2>6. ASSUME busy'[r] # "idle", stakes'[s].owed = c,
               busy'[r] \in {"claim", "zero"} => stakes'[s].status = "carry" /\ stakes'[s].carry = c,
               busy'[r] = "mark" => stakes'[s].status = "carry",
               busy'[r] \in {"debit", "credit", "close"} => stakes'[s].status = "settled",
               busy'[r] = "close" => stakes'[s].repaid = p,
               busy'[r] = "writeoff" => stakes'[s].status = "defaulted" /\ stakes'[s].carry = 0
        PROVE  Debts'
    <3>1. Know
      BY <2>3, <2>5, <2>6 DEF Know
    <3> QED BY <1>5, <2>1, <2>5, <2>6, <3>1
  <2>7. ASSUME busy'[r] = "idle", stakes'[s].owed = Debt(stakes'[s]) PROVE Debts'
    BY <1>5, <2>7
  <2>12. CASE GoesOn(r, s, "claim", "debit") /\ stakes[s].status = "carry"
               /\ Writes(s, "settled", stakes[s].carry, stakes[s].owed, stakes[s].repaid)
    BY <2>3, <2>6, <2>12 DEF GoesOn, Writes
  <2>13. CASE GoesOn(r, s, "claim", "idle") /\ stakes[s].status # "carry" /\ stakes' = stakes
    BY <2>3, <2>13 DEF GoesOn
  <2>14. CASE GoesOn(r, s, "debit", "credit") /\ stakes' = stakes
    BY <2>3, <2>6, <2>14 DEF GoesOn
  <2>15. CASE /\ GoesOn(r, s, "credit", "close")
            /\ Writes(s, stakes[s].status, stakes[s].carry, stakes[s].owed, stakes[s].repaid + job[r].carry)
    <3>1. stakes'[s].repaid = p
      BY <2>3, <2>4, <2>5, <2>15 DEF GoesOn, Writes
    <3> QED BY <2>3, <2>6, <2>15, <3>1 DEF GoesOn, Writes
  <2>16. CASE /\ GoesOn(r, s, "close", "idle")
            /\ Writes(s, stakes[s].status, 0, stakes[s].owed - job[r].carry, stakes[s].repaid)
    <3>1. /\ stakes'[s].owed = 0 /\ stakes'[s].carry = 0 /\ stakes'[s].status = "settled" /\ stakes'[s].repaid = p
          /\ busy'[r] = "idle"
      BY <2>3, <2>5, <2>16 DEF GoesOn, Writes
    <3>2. stakes'[s].owed = Debt(stakes'[s])
      BY <2>5, <3>1 DEF Debt, GivenUp
    <3> QED BY <2>7, <3>1, <3>2
  <2>17. CASE /\ GoesOn(r, s, "zero", "mark")
            /\ Writes(s, stakes[s].status, 0, stakes[s].owed, stakes[s].repaid)
    BY <2>3, <2>6, <2>17 DEF GoesOn, Writes
  <2>18. CASE /\ GoesOn(r, s, "mark", "writeoff")
            /\ Writes(s, "defaulted", stakes[s].carry, stakes[s].owed, stakes[s].repaid)
    BY <2>3, <2>4, <2>6, <2>18 DEF GoesOn, Writes
  <2>19. CASE /\ GoesOn(r, s, "mark", "idle")
            /\ Writes(s, "settled", stakes[s].carry, stakes[s].owed, stakes[s].repaid)
    <3>1. /\ stakes'[s].owed = p - l /\ stakes'[s].status = "settled" /\ stakes'[s].repaid = l
          /\ busy'[r] = "idle"
      BY <2>3, <2>4, <2>19 DEF GoesOn, Writes
    <3>2. stakes'[s].owed = Debt(stakes'[s])
      BY <2>2, <2>5, <3>1 DEF Debt, GivenUp
    <3> QED BY <2>7, <3>1, <3>2
  <2>20. CASE /\ GoesOn(r, s, "writeoff", "idle")
            /\ Writes(s, stakes[s].status, stakes[s].carry, stakes[s].owed - job[r].carry, stakes[s].repaid)
    <3>1. /\ stakes'[s].owed = 0 /\ stakes'[s].carry = 0 /\ stakes'[s].status = "defaulted" /\ busy'[r] = "idle"
      BY <2>3, <2>5, <2>20 DEF GoesOn, Writes
    <3>2. stakes'[s].owed = Debt(stakes'[s])
      BY <3>1 DEF Debt, GivenUp
    <3> QED BY <2>7, <3>1, <3>2
  <2> QED BY <1>7, <2>12, <2>13, <2>14, <2>15, <2>16, <2>17, <2>18, <2>19, <2>20 DEF Advances
<1> QED BY <1>6, <1>7

-----------------------------------------------------------------------------
(* Together.                                                                 *)
\* Before the first sit nothing is owed, in flight or brought home.
LEMMA BooksStart == BooksInit => BooksInv
<1> SUFFICES ASSUME BooksInit PROVE BooksInv
  OBVIOUS
<1>1. Init /\ forfeited = 0
  BY DEF BooksInit
<1>2. /\ \A s \in Sessions : sess[s] = NoSession /\ stakes[s] = NoStake /\ s \in Nat /\ s > 0
      /\ \A r \in Requests : busy[r] = "idle"
      /\ n = 0 /\ pc = "idle" /\ task = NoTask /\ game = NoGame /\ saved = NoGame
  BY <1>1 DEF Init, Sessions
<1>3. Shape
  BY <1>2 DEF Shape, NoGame, NoSession, NoStake, Left, Over, LeaveSpots, SitSpots
<1>4. Money
  BY <1>1, <1>2 DEF Money, LeaveSpots
<1>5. Terms
  BY <1>2 DEF Terms, NoStake, Over
<1>6. Debts
  BY <1>2 DEF Debts, Debt, GivenUp, NoStake
<1>7. Balanced
  <2>1. CashInv
    BY <1>1, CashInit
  <2>2. \A s \in Sessions : Profit(s) = 0
    BY <1>2 DEF Profit, NoSession, NoStake
  <2>3. /\ IsFiniteSet(Sessions)
        /\ Booked = SumFunctionOnSet([s \in Sessions |-> Profit(s)], Sessions)
    BY <2>1, BookedTypes
  <2>4. SumFunctionOnSet([s \in Sessions |-> Profit(s)], Sessions) = 0 * Cardinality(Sessions)
    BY <2>2, <2>3, SumConst
  <2>5. Cardinality(Sessions) \in Nat
    BY <2>3, FS_CardinalityType
  <2>6. Booked = 0
    BY <2>3, <2>4, <2>5
  <2>7. InFlight = 0 /\ Unbooked = 0
    BY <1>2 DEF InFlight, Unbooked
  <2>8. Moving(0)
    BY <1>2 DEF Moving
  <2>9. Total = Purse + LenderPurse + Others /\ purse = Purse
    BY <1>1, <1>2, CashAssumption DEF Init, BooksInit, Total, TableChips, NoGame
  <2> QED BY <2>6, <2>7, <2>8, <2>9, CashAssumption DEF Balanced
<1> QED BY <1>3, <1>4, <1>5, <1>6, <1>7 DEF BooksInv

\* A step of any kind keeps the books in order.
LEMMA BooksStep ==
  ASSUME CashInv, CashInv', Paid, BooksInv, [BooksNext]_books
  PROVE  BooksInv'
<1>1. CASE UNCHANGED books
  <2>1. /\ UNCHANGED <<purse, lender, bank, seats, game, saved, n, sess, stakes, pc, task, busy, job>>
        /\ UNCHANGED <<marred, forfeited>>
    BY <1>1 DEF books, vars, chips, table, lobby
  <2>2. Shape => Shape'
    BY <2>1 DEF Shape, Left
  <2>3. Money => Money'
    BY <2>1 DEF Money, Short
  <2>4. Terms => Terms'
    BY <2>1, TermsKept
  <2>5. Debts => Debts'
    BY <2>1 DEF Debts, Debt, GivenUp
  <2>6. Balanced => Balanced'
    <3>1. Booked' = Booked
      BY <2>1, BookedSame DEF Profit
    <3>2. Total' = Total /\ InFlight' = InFlight /\ Unbooked' = Unbooked
      BY <2>1 DEF Total, TableChips, InFlight, Unbooked
    <3>3. \A x : Moving(x) => Moving(x)'
      BY <2>1 DEF Moving
    <3> QED BY <2>1, <3>1, <3>2, <3>3 DEF Balanced
  <2>7. Clean' => Clean /\ (~marred'.overlap => ~marred.overlap)
    BY <2>1 DEF Clean
  <2> QED BY <2>2, <2>3, <2>4, <2>5, <2>6, <2>7 DEF BooksInv
<1>2. CASE BooksNext
  <2> SUFFICES ASSUME ~marred'.fault
               PROVE  Shape' /\ Money' /\ Balanced' /\ Terms' /\ (~marred'.overlap => Debts')
    BY DEF BooksInv, Clean
  <2>1. /\ ~marred.fault
        /\ ~marred'.overlap =>
              ~marred.overlap /\ \A r, q \in Requests : busy'[r] # "idle" /\ busy'[q] # "idle" => r = q
        /\ \/ Sitting
           \/ Playing
           \/ \E amount \in 1..MaxBuyIn : TopUp(amount) \/ Rebuy(amount) \/ StageTopUp(amount)
           \/ LeaveSettles \/ LeavePaysStaker \/ LeaveCredits \/ LeaveFinalises \/ LeaveRemoves
           \/ Resolving
    BY <1>2, WithoutFault
  <2>2. Shape /\ Money /\ Balanced /\ Terms /\ (~marred'.overlap => Debts)
    BY <2>1 DEF BooksInv, Clean
  <2>3. Apart /\ Recorded
    BY <1>2 DEF BooksNext
  <2>4. CASE Sitting
    <3>1. Balanced' /\ forfeited' = forfeited
      BY <2>2, <2>3, <2>4, BalancedSits
    <3>2. Shape' /\ Money' /\ Terms'
      BY <2>2, <2>3, <2>4, <3>1, ShapeSits, MoneySits, TermsSits
    <3>3. ~marred'.overlap => Debts'
      BY <2>2, <2>4, DebtsSits
    <3> QED BY <3>1, <3>2, <3>3
  <2>5. CASE Playing \/ \E amount \in 1..MaxBuyIn : TopUp(amount) \/ Rebuy(amount) \/ StageTopUp(amount)
    <3>0. AtTable
      BY <2>3, <2>5 DEF AtTable
    <3>1. Balanced' /\ forfeited' = forfeited
      BY <2>2, <2>3, <3>0, BalancedTable DEF Money
    <3>2. Shape' /\ Money' /\ Terms'
      BY <2>2, <3>0, <3>1, ShapeTable, MoneyTable, TermsTable
    <3>3. ~marred'.overlap => Debts'
      BY <2>2, <3>0, DebtsTable
    <3> QED BY <3>1, <3>2, <3>3
  <2>6. CASE LeaveSettles \/ LeavePaysStaker \/ LeaveCredits \/ LeaveFinalises \/ LeaveRemoves
    <3>1. Balanced' /\ forfeited' \in Nat
      BY <2>2, <2>3, <2>6, BalancedLeaves
    <3>2. Shape' /\ Money' /\ Terms'
      BY <2>2, <2>3, <2>6, <3>1, ShapeLeaves, MoneyLeaves, TermsLeaves
    <3>3. ~marred'.overlap => Debts'
      BY <2>2, <2>3, <2>6, DebtsLeaves
    <3> QED BY <3>1, <3>2, <3>3
  <2>7. CASE Resolving
    <3>0. PICK r \in Requests, s \in Sessions : Looks(r, s) \/ Advances(r, s)
      BY <2>7, ResolvingMoves
    <3>1. Balanced' /\ forfeited' = forfeited
      BY <2>2, <2>3, <3>0, BalancedResolves
    <3>2. Shape' /\ Money' /\ Terms'
      BY <2>2, <2>3, <3>0, <3>1, ShapeResolves, MoneyResolves, TermsResolves
    <3>3. ~marred'.overlap => Debts'
      BY <2>1, <2>2, <2>3, <3>0, DebtsResolves DEF OneRequest
    <3> QED BY <3>1, <3>2, <3>3
  <2> QED BY <2>1, <2>4, <2>5, <2>6, <2>7
<1> QED BY <1>1, <1>2

\* The invariant of the books, with those of every behaviour.
LEMMA BooksInvariant == BooksSpec => [](CashInv /\ Paid /\ BooksInv)
<1>1. BooksInit => CashInv /\ Paid /\ BooksInv
  BY CashInit, PaidInit, BooksStart DEF BooksInit
<1>2. CashInv /\ Paid /\ BooksInv /\ [BooksNext]_books => (CashInv /\ Paid /\ BooksInv)'
  <2> SUFFICES ASSUME CashInv, Paid, BooksInv, [BooksNext]_books PROVE (CashInv /\ Paid /\ BooksInv)'
    OBVIOUS
  <2>1. [Next]_vars
    BY DEF BooksNext, books
  <2>2. CashInv' /\ Paid'
    BY <2>1, CashNext, PaidNext
  <2> QED BY <2>2, BooksStep
<1> QED BY <1>1, <1>2, PTL DEF BooksSpec

\* At rest nothing is on its way: no request of the table, and none about a carry.
LEMMA NothingMoves ==
  ASSUME CashInv, BooksInv, AtRest, ~marred.fault
  PROVE  /\ \A r \in Requests : busy[r] = "idle"
         /\ Total = Purse + LenderPurse + Others /\ purse = Purse + Booked
         /\ \A s \in Sessions : Has(s) = stakes[s].repaid
<1>1. Shape /\ Money /\ Balanced
  BY DEF BooksInv, Clean
<1>2. pc = "idle" /\ \A r \in Requests : busy[r] = "idle"
  BY DEF AtRest, Resolved
<1>3. PICK x \in Nat :
        /\ Moving(x)
        /\ Total + x = Purse + LenderPurse + Others + InFlight
        /\ purse + x = Purse + Booked + Unbooked
  BY <1>1 DEF Balanced
<1>4. x = 0 /\ InFlight = 0 /\ Unbooked = 0
  BY <1>2, <1>3 DEF Moving, InFlight, Unbooked
<1>5. /\ Total \in Int /\ Booked \in Int /\ purse \in Int /\ Purse \in Int /\ LenderPurse \in Int /\ Others \in Int
  BY <1>1, BooksTypes DEF Money
<1>6. \A s \in Sessions : Has(s) = stakes[s].repaid
  BY <1>2, FieldTypes DEF CashInv, Has
<1> QED BY <1>2, <1>3, <1>4, <1>5, <1>6

\* For any purses, buy-ins, cut, and number of sessions and requests: while nothing
\* crashes or raises, no hand is walked out of and requests keep apart, sitting, playing,
\* topping up, leaving and resolving carries neither mint nor lose a chip of the owner,
\* the lender, the house and the table, however they interleave.  The bankrolls of the
\* other seats, which a leave credits while their row keeps the chips, are not in it.
THEOREM CashChipsConserved == BooksSpec => []ChipsConserved
<1>1. CashInv /\ BooksInv => ChipsConserved
  <2> SUFFICES ASSUME CashInv, BooksInv, AtRest, ~marred.fault, forfeited = 0
               PROVE  purse + lender + bank + TableChips = Purse + LenderPurse + Others
    BY DEF ChipsConserved
  <2>1. purse \in Nat /\ lender \in Nat /\ bank \in Int /\ TableChips \in Nat
    BY FieldTypes DEF CashInv, TableChips
  <2>2. Total = Purse + LenderPurse + Others
    BY NothingMoves
  <2> QED BY <2>1, <2>2 DEF Total
<1> QED BY <1>1, BooksInvariant, PTL

\* In the same behaviours the sessions' rows explain the bankroll to the chip: every
\* buy-in, rebuy and top-up, staged or not, is counted once, and every payoff too.
THEOREM CashProfitIsTrue == BooksSpec => []ProfitIsTrue
<1>1. CashInv /\ BooksInv => ProfitIsTrue
  BY NothingMoves DEF ProfitIsTrue, Booked
<1> QED BY <1>1, BooksInvariant, PTL

\* Where no two requests about a carry overlapped either, the obligation account of
\* every stake is the principal or the carry still owed, when the request that changes it
\* is over; a stake given up on a plea is not in it: its account stays as it was.
THEOREM CashDebtIsCarry == BooksSpec => []DebtIsCarry
<1>1. CashInv /\ BooksInv => DebtIsCarry
  <2> SUFFICES ASSUME CashInv, BooksInv, AtRest, ~marred.fault, ~marred.overlap, NEW s \in Sessions,
                      ~GivenUp(stakes[s])
               PROVE  stakes[s].owed = IF stakes[s].status = "active" THEN stakes[s].principal
                                                                      ELSE stakes[s].carry
    BY Zenon DEF DebtIsCarry
  <2>1. Debts /\ pc # "settle"
    BY DEF BooksInv, Clean, AtRest
  <2>2. stakes[s].owed = Debt(stakes[s])
    BY <2>1, NothingMoves DEF Debts
  <2> QED BY <2>2 DEF Debt
<1> QED BY <1>1, BooksInvariant, PTL

\* A staker never gets more than its terms give; undisturbed it gets exactly that, less
\* a carry still open or given up, also where requests about one carry overlap.
THEOREM CashStakerGetsItsDue == BooksSpec => []StakerGetsItsDue
<1>1. CashInv /\ BooksInv /\ NoStakerOverpaid => StakerGetsItsDue
  <2> SUFFICES ASSUME CashInv, BooksInv, AtRest, ~marred.fault, NEW s \in Sessions, stakes[s].status \in Over
               PROVE  LET stake == stakes[s]
                      IN  \/ stake.repaid \in Due(stake)
                          \/ stake.status = "carry" /\ stake.repaid + stake.carry = stake.principal
                          \/ stake.kind = "persona" /\ stake.status # "carry" /\ stake.carry = 0
                                /\ stake.repaid = stake.left
    BY DEF StakerGetsItsDue
  <2>1. InTerms(s) /\ Has(s) = stakes[s].repaid /\ \A spots : ~("idle" \in spots) => ~OnIt(s, spots)
    <3>1. Terms
      BY DEF BooksInv, Clean
    <3> QED BY <3>1, NothingMoves DEF Terms, OnIt
  <2>2. stakes[s].principal \in Nat /\ stakes[s].left \in Nat /\ stakes[s].carry \in Nat /\ stakes[s].repaid \in Nat
    BY FieldTypes DEF CashInv
  <2>3. CASE Short(stakes[s]) /\ stakes[s].status = "carry"
    BY <2>1, <2>2, <2>3 DEF InTerms
  <2>4. CASE Short(stakes[s]) /\ stakes[s].status # "carry"
    <3>1. stakes[s].carry = 0 /\ stakes[s].repaid \in {stakes[s].left, stakes[s].principal}
      BY <2>1, <2>4 DEF InTerms
    <3> QED BY <2>4, <3>1 DEF Short, Due
  <2>5. CASE ~Short(stakes[s])
    BY <2>1, <2>5 DEF InTerms, Due
  <2> QED BY <2>3, <2>4, <2>5
<1>2. BooksSpec => Spec
  <2>1. [BooksNext]_books => [Next]_vars
    BY DEF BooksNext, books
  <2> QED BY <2>1, PTL DEF BooksSpec, BooksInit, Spec
<1> QED BY <1>1, <1>2, BooksInvariant, CashNoStakerOverpaid, PTL
=============================================================================
