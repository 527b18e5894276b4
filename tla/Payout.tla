------------------------------- MODULE Payout -------------------------------
(***************************************************************************)
(* Paying out a tournament: apply_payout_on_complete and                   *)
(* reconcile_stuck_payout of                                               *)
(* flask_app/services/tournament_economy_service.py, and the callers that  *)
(* reach them.                                                             *)
(*                                                                         *)
(*   Routes      /advance and /play-out: play, save the session, pay out   *)
(*   Boundaries  the live table's last hand: pay out, save the session     *)
(*   Tickers     the world tick of a tournament without a human: play, pay *)
(*               out, release the field, save the session                  *)
(*   Watchdogs   the sweep of payouts left in_progress                     *)
(*                                                                         *)
(* Each caller is a thread; the sandbox lock, the session and the threads  *)
(* are lost in a crash, the rows of the database are not.  A final order   *)
(* is the sequence of the players in the money: the session is over when   *)
(* there is one.  Hands played by a resolver are seeded, so they come out  *)
(* the same if they are played again after a crash (fate); hands of the    *)
(* live table need not.                                                    *)
(***************************************************************************)
EXTENDS Integers, Sequences, FiniteSets, Functions, PrizeSchedule

CONSTANTS
    Entrants,       \* the field
    Bankrolled,     \* the human and the real personas: those who can be credited
    Prize,          \* compute_payout_schedule: the amount of each paid place
    Rake,           \* the rake of the funding plan
    Routes, Boundaries, Tickers, Watchdogs,
    SandboxLocked,  \* every caller takes the sandbox lock, as it must
    NotOver,        \* the session has no final order yet
    NoCaller,       \* the sandbox lock is free
    MaxCrashes,     \* bound: crashes of the process
    MaxRaises,      \* bound: exceptions inside a payout
    MaxDrops        \* bound: ledger rows the database refuses

Callers == Routes \cup Boundaries \cup Tickers \cup Watchdogs

ASSUME PrizeAssumption ==
    /\ Prize \in Seq(Nat)
    /\ \A p \in DOMAIN Prize : Prize[p] > 0
    /\ Rake \in Nat

ASSUME FieldAssumption ==
    IsFiniteSet(Entrants) /\ Bankrolled \subseteq Entrants /\ Len(Prize) <= Cardinality(Entrants)

ASSUME CallersAssumption ==
    /\ Routes \cap (Boundaries \cup Tickers \cup Watchdogs) = {}
    /\ Boundaries \cap (Tickers \cup Watchdogs) = {}
    /\ Tickers \cap Watchdogs = {}
    /\ NoCaller \notin Callers
    /\ SandboxLocked \in BOOLEAN
    /\ MaxCrashes \in Nat
    /\ MaxRaises \in Nat
    /\ MaxDrops \in Nat

Places == DOMAIN Prize

\* Every final order: a player for each paid place, nobody in two.
Orders == {o \in [Places -> Entrants] : IsInjective(o)}

ASSUME NotOverAssumption == NotOver \notin Orders

\* What an order owes to a player with a bankroll.
Owed(o) == [f \in Bankrolled |->
              IF \E p \in Places : o[p] = f
              THEN Prize[CHOOSE p \in Places : o[p] = f] ELSE 0]

\* The chips put into escrow at registration: the prize pool and the rake.
Funded == SumFunction(Prize) + Rake

VARIABLES
    status,     \* the row's payout_status
    row,        \* the row's session: its final order, or NotOver
    released,   \* the row's status is 'complete': the field may be drafted again
    paid,       \* the tournament_payout rows of the ledger, by finisher
    raked,      \* the table_rake row
    swept,      \* the tournament_return rows
    credited,   \* what each bankroll has been given
    fate,       \* how the seeded rounds come out
    session,    \* the session in memory
    holder,     \* who holds the sandbox lock
    pc,         \* where each caller is
    at,         \* the place each caller pays next
    seen,       \* the rows by finisher as the watchdog read them
    crashes, raises, drops

books   == <<paid, raked, swept, credited>>
bounds  == <<crashes, raises, drops>>
vars    == <<status, row, released, books, fate, session, holder, pc, at, seen, bounds>>

\* balance_of the escrow
Escrow == Funded - SumFunction(paid) - raked - swept

Spots == {"idle", "save", "load", "claim", "pay", "sweep", "stamp", "settle", "persist"}

\* What each variable holds.
TypeOK ==
    /\ status \in {"pending", "in_progress", "complete"}
    /\ row \in Orders \cup {NotOver}
    /\ released \in BOOLEAN
    /\ paid \in [Bankrolled -> Nat]
    /\ raked \in Nat
    /\ swept \in 0..Funded
    /\ credited \in [Bankrolled -> Nat]
    /\ fate \in Orders
    /\ session \in Orders \cup {NotOver}
    /\ holder \in Callers \cup {NoCaller}
    /\ pc \in [Callers -> Spots]
    /\ at \in [Callers -> Nat]
    /\ seen \in [Watchdogs -> [Bankrolled -> Nat]]
    /\ crashes \in 0..MaxCrashes
    /\ raises \in 0..MaxRaises
    /\ drops \in 0..MaxDrops

Init ==
    /\ status = "pending"
    /\ row = NotOver
    /\ released = FALSE
    /\ paid = [f \in Bankrolled |-> 0]
    /\ raked = 0
    /\ swept = 0
    /\ credited = [f \in Bankrolled |-> 0]
    /\ fate \in Orders
    /\ session = NotOver
    /\ holder = NoCaller
    /\ pc = [c \in Callers |-> "idle"]
    /\ at = [c \in Callers |-> 1]
    /\ seen = [w \in Watchdogs |-> [f \in Bankrolled |-> 0]]
    /\ crashes = 0
    /\ raises = 0
    /\ drops = 0

-----------------------------------------------------------------------------
Free(c) == ~SandboxLocked \/ holder \in {c, NoCaller}

Lock(c) == Free(c) /\ holder' = IF SandboxLocked THEN c ELSE holder

KeepsLock(c) == UNCHANGED holder

Unlock(c) == holder' = IF holder = c THEN NoCaller ELSE holder

GoTo(c, spot) == pc' = [pc EXCEPT ![c] = spot]

\* The end of apply_payout_on_complete and reconcile_stuck_payout, for their
\* callers: a tick settles the row under the lock it took, the others let go.
Leave(c) ==
    IF c \in Tickers THEN GoTo(c, "settle") /\ UNCHANGED holder
    ELSE GoTo(c, IF c \in Boundaries THEN "persist" ELSE "idle") /\ Unlock(c)

\* A ledger row is written, or refused and the refusal swallowed (record,
\* record_transfer).
Write(landed) == /\ landed \/ drops < MaxDrops
                 /\ drops' = IF landed THEN drops ELSE drops + 1

Played == IF session = NotOver THEN fate ELSE session

\* advance, play_out: the rounds are played with the record's resolver.
Request(r) ==
    /\ pc[r] = "idle"
    /\ session' = Played
    /\ GoTo(r, "save")
    /\ UNCHANGED <<status, row, released, books, fate, holder, at, seen, bounds>>

\* registry.persist, before _maybe_payout.
SaveFirst(r) ==
    /\ pc[r] = "save"
    /\ row' = session
    /\ released' = (session # NotOver)
    /\ GoTo(r, "load")
    /\ UNCHANGED <<status, books, fate, session, holder, at, seen, bounds>>

\* tournament_hand_boundary: people played this hand.  A boundary entered again
\* finds the session over and only goes on to the payout.
LastHand(b) ==
    /\ pc[b] = "idle"
    /\ session' \in IF session = NotOver THEN Orders ELSE {session}
    /\ GoTo(b, "load")
    /\ UNCHANGED <<status, row, released, books, fate, holder, at, seen, bounds>>

\* advance_owner_tournament, down to the settle.
Tick(t) ==
    /\ pc[t] = "idle"
    /\ session = NotOver
    /\ Lock(t)
    /\ session' = fate
    /\ GoTo(t, "load")
    /\ UNCHANGED <<status, row, released, books, fate, at, seen, bounds>>

-----------------------------------------------------------------------------
\* The head of apply_payout_on_complete: the row is loaded and its status read.
Load(c) ==
    /\ pc[c] = "load"
    /\ Free(c)
    /\ IF status = "pending" THEN Lock(c) /\ GoTo(c, "claim") ELSE Leave(c)
    /\ UNCHANGED <<status, row, released, books, fate, session, at, seen, bounds>>

\* The row cannot be loaded: the payout gives up before it has begun.
LoadFails(c) ==
    /\ pc[c] = "load"
    /\ Free(c)
    /\ raises < MaxRaises
    /\ raises' = raises + 1
    /\ Leave(c)
    /\ UNCHANGED <<status, row, released, books, fate, session, at, seen, crashes, drops>>

\* claim_payout: compare and swap pending -> in_progress.
Claim(c) ==
    /\ pc[c] = "claim"
    /\ IF status = "pending"
       THEN /\ status' = "in_progress"
            /\ GoTo(c, "pay")
            /\ at' = [at EXCEPT ![c] = 1]
            /\ UNCHANGED holder
       ELSE Leave(c) /\ UNCHANGED <<status, at>>
    /\ UNCHANGED <<row, released, books, fate, session, seen, bounds>>

ResumeBlind(w) ==
    /\ pc[w] = "idle"
    /\ status # "pending"
    /\ session # NotOver
    /\ Lock(w)
    /\ UNCHANGED seen
    /\ at' = [at EXCEPT ![w] = 1]
    /\ GoTo(w, "pay")
    /\ UNCHANGED <<status, row, released, books, fate, session, bounds>>

\* The head of reconcile_stuck_payout: under the lock, the payout is in progress
\* and the session over; payouts_by_sink says who has been paid.
Resume(w) ==
    /\ pc[w] = "idle"
    /\ status = "in_progress"
    /\ session # NotOver
    /\ Lock(w)
    /\ seen' = [seen EXCEPT ![w] = paid]
    /\ at' = [at EXCEPT ![w] = 1]
    /\ GoTo(w, "pay")
    /\ UNCHANGED <<status, row, released, books, fate, session, bounds>>

DueInFull(c, p) == Prize[p]

\* The payout owes the whole prize, the reconcile what the ledger has not paid.
Due(c, p) == IF c \in Watchdogs THEN Prize[p] - seen[c][session[p]] ELSE Prize[p]

\* One entry of the schedule.  The ledger row and the bankroll are one
\* transaction; a row that is refused does not stop the bankroll from being
\* written.  A synthetic seat has no bankroll.
PayPlace(c) ==
    /\ pc[c] = "pay"
    /\ at[c] \in Places
    /\ LET f == session[at[c]]
       IN IF f \in Bankrolled /\ Due(c, at[c]) > 0
          THEN /\ \E landed \in BOOLEAN :
                     /\ Write(landed)
                     /\ paid' = IF landed THEN [paid EXCEPT ![f] = @ + Due(c, at[c])] ELSE paid
               /\ credited' = [credited EXCEPT ![f] = @ + Due(c, at[c])]
          ELSE UNCHANGED <<paid, credited, drops>>
    /\ at' = [at EXCEPT ![c] = @ + 1]
    /\ UNCHANGED <<status, row, released, raked, swept, fate, session, holder, pc, seen, crashes, raises>>

RakeDue(c) == IF c \in Watchdogs THEN Rake - raked ELSE Rake

\* record_table_rake: a row of its own.
TakeRake(c) ==
    /\ pc[c] = "pay"
    /\ at[c] \notin Places
    /\ IF RakeDue(c) > 0
       THEN \E landed \in BOOLEAN :
               /\ Write(landed)
               /\ raked' = IF landed THEN raked + RakeDue(c) ELSE raked
       ELSE UNCHANGED <<raked, drops>>
    /\ GoTo(c, "sweep")
    /\ UNCHANGED <<status, row, released, paid, swept, credited, fate, session, holder, at, seen, crashes, raises>>

SweepPool(c) ==
    /\ pc[c] = "sweep"
    /\ swept' = swept + SumFunction(Prize)
    /\ GoTo(c, "stamp")
    /\ UNCHANGED <<status, row, released, paid, raked, credited, fate, session, holder, at, seen, bounds>>

\* record_tournament_return of whatever is left.
Sweep(c) ==
    /\ pc[c] = "sweep"
    /\ IF Escrow > 0
       THEN \E landed \in BOOLEAN :
               /\ Write(landed)
               /\ swept' = IF landed THEN swept + Escrow ELSE swept
       ELSE UNCHANGED <<swept, drops>>
    /\ GoTo(c, "stamp")
    /\ UNCHANGED <<status, row, released, paid, raked, credited, fate, session, holder, at, seen, crashes, raises>>

\* set_payout_status('complete').  The payout stamps even if the escrow is not
\* empty; the reconcile then leaves it for a human, and else releases the field.
Stamp(c) ==
    /\ pc[c] = "stamp"
    /\ IF c \in Watchdogs /\ Escrow # 0
       THEN UNCHANGED <<status, released>>
       ELSE /\ status' = "complete"
            /\ released' = (released \/ c \in Watchdogs)
    /\ Leave(c)
    /\ UNCHANGED <<row, books, fate, session, at, seen, bounds>>

\* Any exception in between: logged, and the payout is left in_progress.
Raise(c) ==
    /\ pc[c] \in {"pay", "sweep", "stamp"}
    /\ raises < MaxRaises
    /\ raises' = raises + 1
    /\ Leave(c)
    /\ UNCHANGED <<status, row, released, books, fate, session, at, seen, crashes, drops>>

-----------------------------------------------------------------------------
\* settle_autonomous_tournament, after the payout.
Settle(t) ==
    /\ pc[t] = "settle"
    /\ released' = (released \/ status = "complete")
    /\ GoTo(t, "persist")
    /\ UNCHANGED <<status, row, books, fate, session, holder, at, seen, bounds>>

\* _persist_boundary, and registry.persist at the end of a tick.
Persist(c) ==
    /\ pc[c] = "persist"
    /\ row' = session
    /\ released' = (session # NotOver)
    /\ GoTo(c, "idle")
    /\ Unlock(c)
    /\ UNCHANGED <<status, books, fate, session, at, seen, bounds>>

\* The process dies and comes back: the rows are what they were.
Crash ==
    /\ crashes < MaxCrashes
    /\ crashes' = crashes + 1
    /\ session' = row
    /\ holder' = NoCaller
    /\ pc' = [c \in Callers |-> "idle"]
    /\ at' = [c \in Callers |-> 1]
    /\ seen' = [w \in Watchdogs |-> [f \in Bankrolled |-> 0]]
    /\ UNCHANGED <<status, row, released, books, fate, raises, drops>>

Pays(c) == \/ Load(c) \/ Claim(c) \/ PayPlace(c) \/ TakeRake(c) \/ Sweep(c) \/ Stamp(c)

\* What each caller does once it has started; it may fail instead.
Continues(c) == \/ Pays(c) \/ SaveFirst(c) \/ Settle(c) \/ Persist(c)

Next == \/ \E r \in Routes : Request(r)
        \/ \E b \in Boundaries : LastHand(b)
        \/ \E t \in Tickers : Tick(t)
        \/ \E w \in Watchdogs : Resume(w)
        \/ \E c \in Callers : Continues(c) \/ LoadFails(c) \/ Raise(c)
        \/ Crash

Spec == Init /\ [][Next]_vars

(***************************************************************************)
(* A thread that has started goes on, and the watchdog's sweeps come       *)
(* again and again (_maybe_run_payout_reconcile_watchdog, "even when       *)
(* nobody's online").  Nothing is asked of the world tick, which comes     *)
(* only while the owner is active, nor of requests and hands.              *)
(***************************************************************************)
Fairness ==
    /\ \A c \in Callers : WF_vars(Continues(c))
    /\ \A w \in Watchdogs : WF_vars(Resume(w))

FairSpec == Spec /\ Fairness

-----------------------------------------------------------------------------
\* Whatever field a tournament is registered for, and whatever the floating point
\* quotients lose, compute_payout_schedule draws up a fair schedule.  This says
\* nothing of the books, so it is asked until the last hand or a crash only.
ScheduleIsFair == session = NotOver /\ crashes = 0 => UnfairDraws = {}

\* The final order, as far as anybody knows it.
Order == IF session = NotOver THEN fate ELSE session

\* What the ledger has paid a finisher is nothing or all he is owed, which is
\* what lets a reconcile pay the rest (reconcile_stuck_payout, lines 424-430).
NoneOrAll == \A f \in Bankrolled : paid[f] \in {0, Owed(Order)[f]}

\* Nobody is credited more than his prize, however often the payout is started,
\* cut short and resumed.
NeverDoublePays == \A f \in Bankrolled : credited[f] <= Owed(Order)[f]

\* No more leaves the escrow than was put into it.
NeverOverdrawn == Escrow >= 0

\* A payout that is stamped complete has credited everybody his prize, and
\* nothing is left in escrow: what no bankroll got went back to the bank.
SettledExactly ==
    status = "complete" => credited = Owed(Order) /\ Escrow = 0 /\ raked = Rake

\* Once stamped, no caller moves another chip.
BooksStayClosed == [][status = "complete" => UNCHANGED books]_vars

\* A payout that was claimed, of a session whose row is over, is finished: by the
\* caller, or after an exception or a crash by the watchdog, whose sweep is there
\* for payouts left in_progress (reconcile_stuck_payout).  It says nothing of a
\* payout that failed before its claim: the sweep does not list that one.
ClaimedIsPaid == status = "in_progress" /\ row # NotOver ~> status = "complete"

-----------------------------------------------------------------------------
\* The abstract view: who has been credited what.
Books == INSTANCE Prizes WITH
    Finishers <- Bankrolled,
    Debts     <- {Owed(o) : o \in Orders},
    owed      <- Owed(fate),
    balance   <- credited,
    closed    <- status = "complete"

\* Every step of the callers pays one finisher his prize, closes the books or
\* shows nothing.
ImplementsPrizes == Books!Spec
=============================================================================
