---------------------------- MODULE GameSession ----------------------------
(***************************************************************************)
(* One game as the request threads of the server share it: the copy in    *)
(* memory, the row in the database, the lock of the game, and the         *)
(* handlers that read, decide and write back                              *)
(* (src/flask_app/services/game_state_service.py,                         *)
(* src/flask_app/handlers/game_handler.py,                                *)
(* src/flask_app/routes/game_routes.py).                                  *)
(*                                                                         *)
(* The hand engine is abstracted to the line of play: the sequence of the *)
(* decisions taken so far.  Turn[n] says whose the n-th one is: a human's, *)
(* an AI's, or nobody's (a deal, which run_until does by itself while the *)
(* state is not awaiting an action).  Every load from the database makes  *)
(* a new object, so two threads may hold two copies of one game.          *)
(***************************************************************************)
EXTENDS Naturals, Sequences, SequencesExt, FiniteSets, FiniteSetsExt

CONSTANTS
    Submits,        \* threads that post a player's action (one at a time each)
    Triggers,       \* threads of the socket's progress_game event
    Forwards,       \* threads of the fast-forward route
    Gets,           \* threads of GET /api/game-state
    Retries,        \* threads of the retry route
    Deletes,        \* threads of DELETE /api/game
    Leaves,         \* threads of POST /api/cash/leave
    Moves,        \* what a human may decide
    Turn,           \* the seat of each decision: "human", "ai" or "deal"
    Starts,         \* the lines a game may have when it is looked at first
    MaxLosses,      \* bound: evictions and crashes
    Identities,     \* bound: objects, and locks, there may be at a time; two
                    \* more than the threads that run are enough
    None

Threads == Submits \cup Triggers \cup Forwards \cup Gets \cup Retries
             \cup Deletes \cup Leaves

Horizon == Len(Turn)

ASSUME GameAssumption ==
    /\ Turn \in Seq({"human", "ai", "deal"})
    /\ MaxLosses \in Nat /\ Identities \in Nat \ {0}
    /\ None \notin 1..Identities
    /\ IsFiniteSet(Threads)
    /\ "ai" \notin Moves /\ "deal" \notin Moves
    /\ Starts \subseteq UNION {[1..n -> Moves \cup {"ai", "deal"}] : n \in 0..Horizon}

Objects == 1..Identities

VARIABLES
    games,      \* the object in memory, or None
    row,        \* the line of the saved row, or None
    line,       \* the line of play of each object
    started,    \* the objects with game_started set
    leaving,    \* the objects with leave_requested set
    lockOf,     \* the game's lock in game_locks, or None
    held,       \* the locks that are held
    fresh,      \* was the game accessed within the TTL?
    sweeping,   \* is the cleanup between its checks and its pops?
    pc,         \* where each thread is
    obj,        \* the object each thread works on, or None
    lk,         \* the lock each thread asked for, or None
    draft,      \* the line each thread is about to write back
    told,       \* the human decisions the server confirmed: <<n, choice>>
    settled,    \* how often the session's money was paid out
    ended,      \* ended_at of the session's row
    cut,        \* crashes between a session's payment and its ended_at
    late,       \* AI decisions written while each leave waits for the lock
    raced,      \* did a cleanup drop a game somebody had asked for since its check?
    losses

vars == <<games, row, line, started, leaving, lockOf, held, fresh, sweeping, pc,
          obj, lk, draft, told, settled, ended, cut, late, raced, losses>>
memory == <<games, line, started, leaving, fresh>>
locking == <<lockOf, held, sweeping>>
books == <<told, settled, ended, cut, late, raced, losses>>

(* Whose the next decision of a line is; nobody's when the game is over. *)
Next_(l) == IF Len(l) < Horizon THEN Turn[Len(l) + 1] ELSE "over"

(* run_until: the deals that need no decision. *)
RunUntil(l) ==
    LET stops == {n \in Len(l)..Horizon :
                    /\ \A i \in (Len(l) + 1)..n : Turn[i] = "deal"
                    /\ n < Horizon => Turn[n + 1] # "deal"}
    IN  l \o [i \in 1..(Min(stops) - Len(l)) |-> "deal"]

(* The places inside progress_game's try block, where its lock is held. *)
LoopPlaces == {"loop", "run", "save", "human", "ask", "play", "put", "store"}
\* The threads in the middle of an iteration: the game was there at its head.
Looping == {t \in Threads : pc[t] \in LoopPlaces \ {"loop"}}

-----------------------------------------------------------------------------
Init ==
    /\ games = 1 /\ row \in Starts
    /\ line = [o \in Objects |-> row]
    /\ started = {} /\ leaving = {}
    /\ lockOf = None /\ held = {} /\ fresh = TRUE /\ sweeping = FALSE
    /\ pc = [t \in Threads |-> "idle"]
    /\ obj = [t \in Threads |-> None]
    /\ lk = [t \in Threads |-> None]
    /\ draft = [t \in Threads |-> <<>>]
    /\ told = {} /\ settled = 0 /\ ended = FALSE /\ cut = 0
    /\ late = [t \in Leaves |-> 0] /\ raced = FALSE /\ losses = 0

(* A handler ends; it holds nothing any more. *)
Done(t) ==
    /\ pc' = [pc EXCEPT ![t] = "idle"]
    /\ obj' = [obj EXCEPT ![t] = None]
    /\ lk' = [lk EXCEPT ![t] = None]
    /\ draft' = [draft EXCEPT ![t] = <<>>]

Goto(t, place) == pc' = [pc EXCEPT ![t] = place]

(* get_game: a hit is an access. *)
GetGame(t) ==
    /\ obj' = [obj EXCEPT ![t] = games]
    /\ fresh' = (fresh \/ games # None)

(* set_game: the object becomes the game, whatever was there. *)
SetGame(o) == games' = o /\ fresh' = TRUE

(* game_repo.save_game *)
SaveGame(o) == row' = line[o]

-----------------------------------------------------------------------------
(* The lock of the game. *)

Locks == 1..Identities
InUse == {lockOf} \cup held \cup {lk[t] : t \in Threads}

(* get_game_lock: the game's lock, made when it has none; it waits while *)
(* the cleanup holds _game_locks_lock.                                    *)
GetGameLock(t) ==
    /\ ~sweeping
    /\ \/ lockOf # None /\ UNCHANGED lockOf
       \/ lockOf = None /\ \E n \in Locks \ InUse :
              lockOf' = n /\ \A m \in Locks \ InUse : n <= m
    /\ lk' = [lk EXCEPT ![t] = lockOf']
    /\ UNCHANGED <<held, sweeping>>

Acquire(t) ==
    /\ lk[t] \notin held
    /\ held' = held \cup {lk[t]}
    /\ UNCHANGED <<lockOf, sweeping>>

Release(t) ==
    /\ held' = held \ {lk[t]}
    /\ UNCHANGED <<lockOf, sweeping>>

-----------------------------------------------------------------------------
(* progress_game.  Every caller enters at "lock". *)

ProgressLock(t) ==
    /\ pc[t] = "lock"
    /\ GetGameLock(t)
    /\ Goto(t, "try")
    /\ UNCHANGED <<memory, row, obj, draft, books>>

(* A caller that finds the lock held gives up: the holder is trusted to go on. *)
ProgressSkipped(t) ==
    /\ pc[t] = "try" /\ lk[t] \in held
    /\ Done(t)
    /\ UNCHANGED <<memory, row, locking, books>>

ProgressAcquired(t) ==
    /\ pc[t] = "try"
    /\ Acquire(t)
    /\ Goto(t, "loop")
    /\ UNCHANGED <<memory, row, obj, lk, draft, books>>

(* Faulty: the iteration starts whatever was asked for. *)
LoopBeginsAnyway(t) ==
    /\ pc[t] = "loop" /\ games # None
    /\ GetGame(t)
    /\ Goto(t, "run")
    /\ UNCHANGED <<games, line, started, leaving, row, locking, lk, draft, books>>

(* The head of an iteration: a deleted game and a requested leave end it. *)
LoopBegins(t) ==
    /\ pc[t] = "loop" /\ games # None /\ games \notin leaving
    /\ GetGame(t)
    /\ Goto(t, "run")
    /\ UNCHANGED <<games, line, started, leaving, row, locking, lk, draft, books>>

(* Faulty: an early return without the release. *)
LoopGivesUpHolding(t) ==
    /\ pc[t] = "loop" /\ (games = None \/ games \in leaving)
    /\ fresh' = (fresh \/ games # None)
    /\ Done(t)
    /\ UNCHANGED <<games, line, started, leaving, row, locking, books>>

LoopGivesUp(t) ==
    /\ pc[t] = "loop" /\ (games = None \/ games \in leaving)
    /\ fresh' = (fresh \/ games # None)
    /\ Release(t) /\ Done(t)
    /\ UNCHANGED <<games, line, started, leaving, row, books>>

(* The state the loop goes by is the one it saw here. *)
LoopRuns(t) ==
    /\ pc[t] = "run"
    /\ line' = [line EXCEPT ![obj[t]] = RunUntil(@)]
    /\ SetGame(obj[t])
    /\ draft' = [draft EXCEPT ![t] = line'[obj[t]]]
    /\ Goto(t, "save")
    /\ UNCHANGED <<started, leaving, row, locking, obj, lk, books>>

(* Faulty: the seat to act is not asked whether it is a human's. *)
LoopSavesForAll(t) ==
    /\ pc[t] = "save"
    /\ SaveGame(obj[t])
    /\ draft' = [draft EXCEPT ![t] = <<>>]
    /\ Goto(t, IF Next_(draft[t]) # "over" THEN "ask" ELSE "human")
    /\ UNCHANGED <<memory, locking, obj, lk, books>>

(* Save, then an AI's turn is played, a human's turn ends the loop. *)
LoopSaves(t) ==
    /\ pc[t] = "save"
    /\ SaveGame(obj[t])
    /\ draft' = [draft EXCEPT ![t] = <<>>]
    /\ Goto(t, IF Next_(draft[t]) = "ai" THEN "ask" ELSE "human")
    /\ UNCHANGED <<memory, locking, obj, lk, books>>

LoopYields(t) ==
    /\ pc[t] = "human"
    /\ Release(t) /\ Done(t)
    /\ UNCHANGED <<memory, row, books>>

(* Faulty: a game that is gone is played on. *)
AskAnyway(t) ==
    /\ pc[t] = "ask"
    /\ GetGame(t)
    /\ Goto(t, "play")
    /\ UNCHANGED <<games, line, started, leaving, row, locking, lk, draft, books>>

(* handle_ai_action fetches the game again and asks the controller, which *)
(* may take as long as a language model does.                             *)
AskController(t) ==
    /\ pc[t] = "ask"
    /\ GetGame(t)
    /\ Goto(t, IF games = None THEN "loop" ELSE "play")
    /\ UNCHANGED <<games, line, started, leaving, row, locking, lk, draft, books>>

(* The answer is played on the state of that moment. *)
PlayDecision(t) ==
    /\ pc[t] = "play"
    /\ Len(line[obj[t]]) < Horizon         \* bound
    /\ draft' = [draft EXCEPT ![t] = Append(line[obj[t]], "ai")]
    /\ Goto(t, "put")
    /\ UNCHANGED <<memory, row, locking, obj, lk, books>>

(* The leaves that wait for the lock of the game. *)
Pending == {t \in Leaves : pc[t] \in {"leavelock", "leavewait"}}

PutDecision(t) ==
    /\ pc[t] = "put"
    /\ line' = [line EXCEPT ![obj[t]] = draft[t]]
    /\ SetGame(obj[t])
    /\ late' = [l \in Leaves |-> late[l] + (IF l \in Pending THEN 1 ELSE 0)]
    /\ Goto(t, "store")
    /\ UNCHANGED <<started, leaving, row, locking, obj, lk, draft, told, settled,
                   ended, cut, raced, losses>>

StoreDecision(t) ==
    /\ pc[t] = "store"
    /\ SaveGame(obj[t])
    /\ Goto(t, "loop")
    /\ UNCHANGED <<memory, locking, obj, lk, draft, books>>

ProgressGame(t) ==
    \/ ProgressLock(t) \/ ProgressSkipped(t) \/ ProgressAcquired(t)
    \/ LoopBegins(t) \/ LoopGivesUp(t) \/ LoopRuns(t) \/ LoopSaves(t)
    \/ LoopYields(t) \/ AskController(t) \/ PlayDecision(t) \/ PutDecision(t) \/ StoreDecision(t)

-----------------------------------------------------------------------------
(* The requests. *)

(* A player's action: fetched and validated, then played, analysed and *)
(* recorded on a value read before, and written back.  No lock is held. *)
SubmitValidates(t) ==
    /\ pc[t] = "idle"
    /\ games # None /\ Next_(line[games]) = "human"
    /\ GetGame(t)
    /\ Goto(t, "act")
    /\ UNCHANGED <<games, line, started, leaving, row, locking, lk, draft, books>>

SubmitPlays(t, c) ==
    /\ pc[t] = "act"
    /\ Len(line[obj[t]]) < Horizon         \* bound: the line ends at Horizon
    /\ draft' = [draft EXCEPT ![t] = Append(line[obj[t]], c)]
    /\ Goto(t, "write")
    /\ UNCHANGED <<memory, row, locking, obj, lk, books>>

SubmitPuts(t) ==
    /\ pc[t] = "write"
    /\ line' = [line EXCEPT ![obj[t]] = draft[t]]
    /\ SetGame(obj[t])
    /\ Goto(t, "keep")
    /\ UNCHANGED <<started, leaving, row, locking, obj, lk, draft, books>>

(* Faulty: confirmed, and left to the loop to save. *)
SubmitConfirms(t) ==
    /\ pc[t] = "keep"
    /\ told' = told \cup {<<Len(draft[t]), Last(draft[t])>>}
    /\ obj' = [obj EXCEPT ![t] = None]
    /\ draft' = [draft EXCEPT ![t] = <<>>]
    /\ Goto(t, "lock")
    /\ UNCHANGED <<memory, row, locking, lk, settled, ended, cut, late, raced, losses>>

(* Saved and confirmed; the background task goes on to progress_game. *)
SubmitSaves(t) ==
    /\ pc[t] = "keep"
    /\ SaveGame(obj[t])
    /\ told' = told \cup {<<Len(draft[t]), Last(draft[t])>>}
    /\ obj' = [obj EXCEPT ![t] = None]
    /\ draft' = [draft EXCEPT ![t] = <<>>]
    /\ Goto(t, "lock")
    /\ UNCHANGED <<memory, locking, lk, settled, ended, cut, late, raced, losses>>

Submit(t) ==
    \/ SubmitValidates(t) \/ (\E c \in Moves : SubmitPlays(t, c))
    \/ SubmitPuts(t) \/ SubmitSaves(t)

Trigger(t) ==
    /\ pc[t] = "idle" /\ games # None
    /\ fresh' = TRUE
    /\ Goto(t, "lock")
    /\ UNCHANGED <<games, line, started, leaving, row, locking, obj, lk, draft, books>>

(* A socket that joins moves a game on that nobody has started. *)
Join(t) ==
    /\ pc[t] = "idle" /\ games # None /\ games \notin started
    /\ fresh' = TRUE
    /\ started' = started \cup {games}
    /\ Goto(t, "lock")
    /\ UNCHANGED <<games, line, leaving, row, locking, obj, lk, draft, books>>

(* Fast-forward writes the fetched dict back before it triggers. *)
ForwardFetches(t) ==
    /\ pc[t] = "idle" /\ games # None
    /\ GetGame(t)
    /\ Goto(t, "flag")
    /\ UNCHANGED <<games, line, started, leaving, row, locking, lk, draft, books>>

ForwardSets(t) ==
    /\ pc[t] = "flag"
    /\ SetGame(obj[t])
    /\ obj' = [obj EXCEPT ![t] = None]
    /\ Goto(t, "lock")
    /\ UNCHANGED <<line, started, leaving, row, locking, lk, draft, books>>

(* GET of a game in memory: only a game between decisions is moved on, once. *)
GetCached(t) ==
    /\ pc[t] = "idle" /\ games # None
    /\ fresh' = TRUE
    /\ Next_(line[games]) = "deal" /\ games \notin started
    /\ started' = started \cup {games}
    /\ Goto(t, "lock")
    /\ UNCHANGED <<games, line, leaving, row, locking, obj, lk, draft, books>>

(* GET of a game that is not: the lock is taken and the cache looked at again. *)
GetMisses(t) ==
    /\ pc[t] = "idle" /\ games = None /\ row # None
    /\ Goto(t, "coldlock")
    /\ UNCHANGED <<memory, row, locking, obj, lk, draft, books>>

ColdLock(t) ==
    /\ pc[t] = "coldlock"
    /\ GetGameLock(t)
    /\ Goto(t, "coldwait")
    /\ UNCHANGED <<memory, row, obj, draft, books>>

ColdAcquire(t) ==
    /\ pc[t] = "coldwait"
    /\ Acquire(t)
    /\ Goto(t, "cold")
    /\ UNCHANGED <<memory, row, obj, lk, draft, books>>

(* Loaded by another request, or no row to load. *)
ColdIsWarm(t) ==
    /\ pc[t] = "cold" /\ (games # None \/ row = None)
    /\ fresh' = (fresh \/ games # None)
    /\ Release(t) /\ Done(t)
    /\ UNCHANGED <<games, line, started, leaving, row, books>>

(* A new object with what the row says. *)
Unheld == Objects \ {obj[s] : s \in Threads}
LoadsInto(o) ==
    /\ \A p \in Unheld : o <= p
    /\ line' = [line EXCEPT ![o] = row]
    /\ started' = started \ {o}
    /\ leaving' = leaving \ {o}

ColdLoads(t) ==
    /\ pc[t] = "cold" /\ games = None /\ row # None
    /\ \E o \in Unheld : LoadsInto(o) /\ obj' = [obj EXCEPT ![t] = o]
    /\ Goto(t, "publish")
    /\ UNCHANGED <<games, fresh, row, locking, lk, draft, books>>

(* Stored and the lock let go; an AI's turn or a deal is then moved on. *)
ColdPublishes(t) ==
    /\ pc[t] = "publish"
    /\ SetGame(obj[t])
    /\ Release(t)
    /\ lk' = [lk EXCEPT ![t] = None]
    /\ obj' = [obj EXCEPT ![t] = None]
    /\ Goto(t, IF Next_(line[obj[t]]) \in {"ai", "deal"} THEN "lock" ELSE "idle")
    /\ UNCHANGED <<line, started, leaving, row, draft, books>>

Get(t) ==
    \/ GetCached(t) \/ GetMisses(t) \/ ColdLock(t) \/ ColdAcquire(t)
    \/ ColdIsWarm(t) \/ ColdLoads(t) \/ ColdPublishes(t)

(* The player's retry of an AI's turn lets go of a lock it does not own. *)
Retry(t) ==
    /\ pc[t] = "idle" /\ games # None /\ Next_(line[games]) = "ai"
    /\ fresh' = TRUE
    /\ started' = started \ {games}
    /\ held' = held \ {lockOf}
    /\ Goto(t, "lock")
    /\ UNCHANGED <<games, line, leaving, row, lockOf, sweeping, obj, lk, draft, books>>

(* service.delete_game: the game, its lock and its access time, unguarded. *)
DropFromMemory == games' = None /\ lockOf' = None

DeleteFromMemory(t) ==
    /\ pc[t] = "idle" /\ (games # None \/ row # None)
    /\ DropFromMemory
    /\ Goto(t, "unrow")
    /\ UNCHANGED <<line, started, leaving, fresh, row, held, sweeping, obj, lk,
                   draft, books>>

DeleteRow(t) ==
    /\ pc[t] = "unrow"
    /\ row' = None
    /\ Done(t)
    /\ UNCHANGED <<memory, locking, books>>

Delete(t) == DeleteFromMemory(t) \/ DeleteRow(t)

(* A cash session is left: the loop is asked to stop, the lock is waited *)
(* for, the session is settled unless its row says it ended, and the game *)
(* is taken from memory and then from the database, all under the lock.   *)
(* A game that is not in memory cannot be asked: the flag is the object's. *)
LeaveAsks(t) ==
    /\ pc[t] = "idle" /\ (games # None \/ row # None)
    /\ leaving' = IF games # None THEN leaving \cup {games} ELSE leaving
    /\ GetGame(t)
    /\ Goto(t, "leavelock")
    /\ UNCHANGED <<games, line, started, row, locking, lk, draft, books>>

LeaveLock(t) ==
    /\ pc[t] = "leavelock"
    /\ GetGameLock(t)
    /\ Goto(t, "leavewait")
    /\ UNCHANGED <<memory, row, obj, draft, books>>

LeaveAcquires(t) ==
    /\ pc[t] = "leavewait"
    /\ Acquire(t)
    /\ obj' = [obj EXCEPT ![t] = None]
    /\ late' = [late EXCEPT ![t] = 0]
    /\ Goto(t, "settle")
    /\ UNCHANGED <<memory, row, lk, draft, told, settled, ended, cut, raced, losses>>

(* Faulty: a session that ended is settled like any other. *)
LeaveReadsOn(t) ==
    /\ pc[t] = "settle" /\ games # None
    /\ fresh' = TRUE
    /\ Goto(t, "pay")
    /\ UNCHANGED <<games, line, started, leaving, row, locking, obj, lk, draft, books>>

(* A session that ended is only cleaned up. *)
LeaveIsLate(t) ==
    /\ pc[t] = "settle" /\ ended
    /\ fresh' = (fresh \/ games # None)
    /\ Goto(t, "unload")
    /\ UNCHANGED <<games, line, started, leaving, row, locking, obj, lk, draft, books>>

LeaveReads(t) ==
    /\ pc[t] = "settle" /\ ~ended /\ games # None
    /\ fresh' = TRUE
    /\ Goto(t, "pay")
    /\ UNCHANGED <<games, line, started, leaving, row, locking, obj, lk, draft, books>>

(* A game that is only a row is loaded to be settled. *)
LeaveWarms(t) ==
    /\ pc[t] = "settle" /\ ~ended /\ games = None /\ row # None
    /\ \E o \in Unheld : LoadsInto(o) /\ SetGame(o)
    /\ Goto(t, "pay")
    /\ UNCHANGED <<row, locking, obj, lk, draft, books>>

(* One that is neither closes the session without money. *)
LeaveFindsNothing(t) ==
    /\ pc[t] = "settle" /\ ~ended /\ games = None /\ row = None
    /\ ended' = TRUE
    /\ Release(t) /\ Done(t)
    /\ UNCHANGED <<memory, row, told, settled, cut, late, raced, losses>>

(* The bankrolls are paid, and ended_at is stamped by a commit of its own. *)
LeavePays(t) ==
    /\ pc[t] = "pay"
    /\ settled' = settled + 1
    /\ Goto(t, "stamp")
    /\ UNCHANGED <<memory, row, locking, obj, lk, draft, told, ended, cut, late, raced, losses>>

LeaveStamps(t) ==
    /\ pc[t] = "stamp"
    /\ ended' = TRUE
    /\ Goto(t, "unload")
    /\ UNCHANGED <<memory, row, locking, obj, lk, draft, told, settled, cut, late, raced, losses>>

LeaveUnloads(t) ==
    /\ pc[t] = "unload"
    /\ DropFromMemory
    /\ Goto(t, "leaverow")
    /\ UNCHANGED <<line, started, leaving, fresh, row, held, sweeping, obj, lk,
                   draft, books>>

LeaveDeletesRow(t) ==
    /\ pc[t] = "leaverow"
    /\ row' = None
    /\ Release(t) /\ Done(t)
    /\ UNCHANGED <<memory, books>>

Leave(t) ==
    \/ LeaveAsks(t) \/ LeaveLock(t) \/ LeaveAcquires(t)
    \/ LeaveIsLate(t) \/ LeaveReads(t) \/ LeaveWarms(t) \/ LeaveFindsNothing(t)
    \/ LeavePays(t) \/ LeaveStamps(t) \/ LeaveUnloads(t) \/ LeaveDeletesRow(t)

-----------------------------------------------------------------------------
(* The server. *)

(* Two hours pass without an access: nobody is between two lock-free steps, *)
(* but a thread may have been waiting for a language model all along.       *)
Waiting == {"idle", "play"}
TimePasses ==
    /\ fresh /\ \A t \in Threads : pc[t] \in Waiting
    /\ fresh' = FALSE
    /\ UNCHANGED <<games, line, started, leaving, row, locking, pc, obj, lk, draft,
                   books>>

(* Faulty: a stale game goes whoever holds its lock. *)
CleanupChecksAge ==
    /\ ~sweeping /\ losses < MaxLosses
    /\ games # None /\ ~fresh
    /\ sweeping' = TRUE
    /\ UNCHANGED <<memory, row, lockOf, held, pc, obj, lk, draft, books>>

(* _cleanup_stale_games checks and pops under _game_locks_lock, but get_game *)
(* and set_game do not take that lock.                                       *)
CleanupChecks ==
    /\ ~sweeping /\ losses < MaxLosses
    /\ games # None /\ ~fresh
    /\ lockOf = None \/ lockOf \notin held
    /\ sweeping' = TRUE
    /\ UNCHANGED <<memory, row, lockOf, held, pc, obj, lk, draft, books>>

CleanupPops ==
    /\ sweeping
    /\ sweeping' = FALSE
    /\ games' = None /\ lockOf' = None
    /\ losses' = losses + 1
    /\ raced' = (raced \/ fresh)
    /\ UNCHANGED <<line, started, leaving, fresh, row, held, pc, obj, lk, draft,
                   told, settled, ended, cut, late>>

(* The process dies and starts again: the rows are what is left. *)
Crash ==
    /\ losses < MaxLosses
    /\ losses' = losses + 1
    /\ games' = None /\ lockOf' = None /\ held' = {} /\ sweeping' = FALSE
    /\ started' = {} /\ leaving' = {} /\ fresh' = TRUE
    /\ line' = [o \in Objects |-> <<>>]
    /\ pc' = [t \in Threads |-> "idle"]
    /\ obj' = [t \in Threads |-> None]
    /\ lk' = [t \in Threads |-> None]
    /\ draft' = [t \in Threads |-> <<>>]
    /\ cut' = IF \E t \in Leaves : pc[t] = "stamp" THEN cut + 1 ELSE cut
    /\ late' = [t \in Leaves |-> 0]
    /\ UNCHANGED <<row, told, settled, ended, raced>>

-----------------------------------------------------------------------------
Request(t) ==
    \/ t \in Submits /\ Submit(t)
    \/ t \in Triggers /\ (Trigger(t) \/ Join(t))
    \/ t \in Forwards /\ (ForwardFetches(t) \/ ForwardSets(t))
    \/ t \in Gets /\ Get(t)
    \/ t \in Retries /\ Retry(t)
    \/ t \in Deletes /\ Delete(t)
    \/ t \in Leaves /\ Leave(t)

Cleanup == TimePasses \/ CleanupChecks \/ CleanupPops

Next ==
    \/ \E t \in Threads : ProgressGame(t) \/ Request(t)
    \/ Cleanup \/ Crash

Spec == Init /\ [][Next]_vars

(* The scheduler runs a thread that can go on, the one that cleans up included; *)
(* requests come as they like.                                                  *)
Fairness ==
    /\ \A t \in Threads : WF_vars(pc[t] # "idle" /\ (ProgressGame(t) \/ Request(t)))
    /\ WF_vars(CleanupPops)

FairSpec == Spec /\ Fairness

-----------------------------------------------------------------------------
Places == LoopPlaces \cup
    {"idle", "lock", "try", "act", "write", "keep", "flag", "coldlock", "coldwait",
     "cold", "publish", "unrow", "leavelock", "leavewait", "settle", "pay",
     "stamp", "unload", "leaverow"}

Lines == UNION {[1..n -> Moves \cup {"ai", "deal"}] : n \in 0..Horizon}

(* What the variables hold: a thread that works on the game has an object, *)
(* whatever was evicted or deleted since it asked for it.                   *)
TypeOK ==
    /\ games \in Objects \cup {None}
    /\ row \in Lines \cup {None}
    /\ line \in [Objects -> Lines]
    /\ started \subseteq Objects /\ leaving \subseteq Objects
    /\ lockOf \in Locks \cup {None} /\ held \subseteq Locks
    /\ fresh \in BOOLEAN /\ sweeping \in BOOLEAN /\ ended \in BOOLEAN
    /\ pc \in [Threads -> Places]
    /\ obj \in [Threads -> Objects \cup {None}]
    /\ lk \in [Threads -> Locks \cup {None}]
    /\ draft \in [Threads -> Lines]
    /\ \A t \in Threads :
          pc[t] \in {"run", "save", "play", "put", "store", "act", "write", "keep",
                    "flag", "publish"} => obj[t] \in Objects
    /\ told \subseteq (1..Horizon) \X Moves
    /\ settled \in Nat /\ cut \in Nat /\ late \in [Leaves -> Nat]
    /\ raced \in BOOLEAN /\ losses \in 0..MaxLosses

(* One thread at a time moves the game on: get_game_lock's "serialize *)
(* progress_game calls and prevent race conditions", whatever is evicted, *)
(* reloaded or triggered meanwhile.                                        *)
OneLoop == Cardinality(Looping) <= 1

(* A decision the server confirmed to the player stays in the game and in  *)
(* its row, through evictions, crashes and reloads, unless a cleanup raced *)
(* with it: get_game and set_game do not take the cleanup's lock, and a    *)
(* submit that fetched the game between the check and the pops may be      *)
(* confirmed and then be overwritten by the reload of the row before it.   *)
ToldStands ==
    ~raced => \A d \in told :
        /\ row # None => Len(row) >= d[1] /\ row[d[1]] = d[2]
        /\ games # None => Len(line[games]) >= d[1] /\ line[games][d[1]] = d[2]

(* Nobody plays another's turn: an AI's answer, which may come long after *)
(* it was asked for, lands on an AI's turn and a player's on the player's. *)
OwnTurns ==
    games # None =>
        \A n \in 1..Len(line[games]) :
            Turn[n] = IF line[games][n] \in Moves THEN "human" ELSE line[games][n]

(* While a leave that found the game in memory waits for its lock, and that *)
(* object is the game, the loop writes the turn it is in and no other:       *)
(* leave_requested ends it at the head of the next iteration.  A leave that  *)
(* finds no game flags nothing, and a game loaded behind it plays on.        *)
LeaveStopsTheLoop ==
    \A l \in Pending : obj[l] # None /\ obj[l] = games => late[l] <= 1

(* The money of a session is paid out once, however often it is left, and    *)
(* though a poll brings the deleted game back to life; only a crash between  *)
(* the payment and ended_at lets it be paid again, once each.                *)
SettledOnce == settled <= 1 + cut

(* After a confirmed action the AI whose turn it is plays it: the submit goes on *)
(* to progress_game, which is to drive the AI turns.                             *)
AiTurnTaken ==
    (told # {} /\ games # None /\ Next_(line[games]) = "ai")
        ~> (games = None \/ Next_(line[games]) # "ai")

(* A leave gets through once nothing new competes for the lock: every loop lets *)
(* it go, and so does whoever loads or leaves the game at the same time.         *)
LeaveEnds ==
    <>[](\A t \in Threads : pc[t] # "lock")
        => \A t \in Leaves : pc[t] # "idle" ~> pc[t] = "idle"
=============================================================================
