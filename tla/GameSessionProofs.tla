------------------------- MODULE GameSessionProofs -------------------------
(***************************************************************************)
(* Proofs about GameSession for any number of threads, any line of play    *)
(* and any number of evictions and crashes.  A retry releases a lock it    *)
(* does not own and a delete drops one that is held, so both are left out. *)
(*                                                                         *)
(* Until the session has ended the game's lock is the only one: whoever    *)
(* asked for a lock asked for it, whoever is past an acquire holds it, and *)
(* a game can only go stale, and so lose its lock to the cleanup, when no  *)
(* thread but a waiting holder is under way.                               *)
(*                                                                         *)
(* The second half is about what is played.  While the session lasts every *)
(* thread that works on the game works on the object in memory, the row is *)
(* a beginning of its line, and a decision about to be written back was    *)
(* made for the turn the line is still at.  This needs a single player's   *)
(* submit (two lose each other's decision), and lasts until a cleanup      *)
(* races with an access (between its check and its pops: what was fetched  *)
(* there is not the object a reload of the old row makes).                 *)
(***************************************************************************)
EXTENDS GameSession, SumTheorems, SequenceTheorems, FiniteSetTheorems, TLAPS

Holding == LoopPlaces \cup {"cold", "publish", "settle", "pay", "stamp", "unload", "leaverow"}
Asked == Holding \cup {"try", "coldwait", "leavewait"}

\* The types the argument needs; a thread has a lock from the moment it asks for
\* one until it is done with it.
LockTypes ==
    /\ pc \in [Threads -> Places]
    /\ lk \in [Threads -> Locks \cup {None}]
    /\ lockOf \in Locks \cup {None} /\ held \subseteq Locks
    /\ fresh \in BOOLEAN /\ sweeping \in BOOLEAN /\ ended \in BOOLEAN
    /\ settled \in Nat /\ cut \in Nat
    /\ \A t \in Threads : pc[t] \in Asked <=> lk[t] # None

\* The lock of the game while the session lasts.
OneLock ==
    /\ \A t \in Threads : pc[t] \in Asked => lk[t] = lockOf
    /\ \A t \in Threads : pc[t] \in Holding => lk[t] \in held
    /\ held \subseteq {lockOf}
    /\ \A t, u \in Threads : pc[t] \in Holding /\ pc[u] \in Holding => t = u

\* A stale game has no thread under way but one that waits for a controller.
StaleIsQuiet ==
    games # None /\ ~fresh => \A t \in Threads : pc[t] \in {"idle", "play", "put"}

\* Nobody has a lock while the cleanup is about to drop it.
SweepIsAlone ==
    sweeping => held = {} /\ \A t \in Threads : pc[t] \notin Asked

Lasting ==
    /\ OneLock /\ StaleIsQuiet /\ SweepIsAlone
    /\ settled <= 1 + cut
    /\ (\A t \in Leaves : pc[t] # "stamp") => settled <= cut
    /\ \A t \in Threads : pc[t] = "stamp" => t \in Leaves
    /\ \A t \in Threads : pc[t] \notin {"unload", "leaverow"}

Over ==
    /\ settled <= 1 + cut
    /\ Leaves # {}
    /\ \A t \in Threads : pc[t] \notin {"pay", "stamp"}

\* The inductive invariant.
SessionInv == LockTypes /\ (~ended => Lasting) /\ (ended => Over)

-----------------------------------------------------------------------------
LEMMA SessionInit == GameAssumption /\ Init => SessionInv
<1> SUFFICES ASSUME GameAssumption, Init PROVE SessionInv
  OBVIOUS
<1>1. LockTypes
  BY DEF Init, LockTypes, Places, LoopPlaces, Holding, Asked
<1>2. Lasting
  BY DEF Init, Lasting, OneLock, StaleIsQuiet, SweepIsAlone, LoopPlaces, Holding, Asked
<1> QED
  BY <1>1, <1>2 DEF Init, SessionInv

\* A thread that takes the lock it asked for, and goes on holding it.
LEMMA AcquireKeeps ==
  ASSUME GameAssumption, SessionInv, NEW t \in Threads, NEW place \in Holding \ {"pay", "stamp", "unload", "leaverow"},
         pc[t] \in {"try", "coldwait", "leavewait"},
         Acquire(t), Goto(t, place), UNCHANGED <<games, fresh, lk, settled, ended, cut>>
  PROVE  SessionInv'
<1> USE DEF LockTypes, Holding, LoopPlaces, Asked, memory, books, Goto, Acquire
<1>1. LockTypes'
  BY DEF SessionInv, Places
<1>2. CASE ended
  BY <1>1, <1>2 DEF SessionInv, Over
<1>3. CASE ~ended
  <2> USE <1>3 DEF SessionInv, Lasting, OneLock
  <2>1. lk[t] = lockOf /\ held = {} /\ \A u \in Threads : pc[u] \notin Holding
    OBVIOUS
  <2>2. held' = {lockOf} /\ \A u \in Threads : pc'[u] \in Holding => u = t
    BY <2>1
  <2>3. OneLock'
    BY <2>1, <2>2
  <2>4. StaleIsQuiet'
    BY DEF StaleIsQuiet
  <2>5. SweepIsAlone'
    BY DEF SweepIsAlone
  <2> QED
    BY <1>1, <2>3, <2>4, <2>5
<1> QED
  BY <1>2, <1>3

\* A holder that lets the lock go and is done.
LEMMA ReleaseKeeps ==
  ASSUME GameAssumption, SessionInv, NEW t \in Threads, pc[t] \in Holding \ {"play", "put", "stamp"},
         Release(t), Done(t), fresh' \in BOOLEAN, fresh => fresh',
         UNCHANGED <<games, settled, ended, cut>>
  PROVE  SessionInv'
<1> USE DEF LockTypes, Holding, LoopPlaces, Asked, Done, Release
<1>1. LockTypes'
  BY DEF SessionInv, Places
<1>2. CASE ended
  BY <1>1, <1>2 DEF SessionInv, Over
<1>3. CASE ~ended
  <2> USE <1>3 DEF SessionInv, Lasting, OneLock
  <2>1. held \subseteq {lk[t]} /\ \A u \in Threads \ {t} : pc[u] \notin Holding
    OBVIOUS
  <2>2. held' = {} /\ \A u \in Threads : pc'[u] \notin Holding
    BY <2>1
  <2>3. OneLock'
    BY <2>2
  <2>4. StaleIsQuiet'
    BY DEF StaleIsQuiet
  <2>5. SweepIsAlone'
    BY DEF SweepIsAlone
  <2> QED
    BY <1>1, <2>3, <2>4, <2>5
<1> QED
  BY <1>2, <1>3

LEMMA ProgressKeeps ==
  ASSUME GameAssumption, SessionInv, NEW t \in Threads, ProgressGame(t)
  PROVE  SessionInv'
<1> USE DEF GameAssumption, SessionInv, LockTypes, Lasting, Over, OneLock, StaleIsQuiet, SweepIsAlone,
        Places, LoopPlaces, Holding, Asked, Locks, memory, locking, books, Goto, Done
<1>1. CASE ProgressLock(t)
  BY <1>1 DEF ProgressLock, GetGameLock
<1>2. CASE ProgressSkipped(t)
  BY <1>2 DEF ProgressSkipped
<1>3. CASE ProgressAcquired(t)
  BY <1>3, AcquireKeeps, "loop" \in Holding \ {"pay", "stamp", "unload", "leaverow"} DEF ProgressAcquired
<1>4. CASE LoopBegins(t)
  BY <1>4 DEF LoopBegins, GetGame
<1>5. CASE LoopGivesUp(t)
  BY <1>5, ReleaseKeeps DEF LoopGivesUp
<1>6. CASE LoopRuns(t)
  BY <1>6 DEF LoopRuns, SetGame
<1>7. CASE LoopSaves(t)
  BY <1>7 DEF LoopSaves
<1>8. CASE LoopYields(t)
  BY <1>8, ReleaseKeeps DEF LoopYields
<1>9. CASE AskController(t)
  BY <1>9 DEF AskController, GetGame
<1>10. CASE PlayDecision(t)
  BY <1>10 DEF PlayDecision
<1>11. CASE PutDecision(t)
  BY <1>11 DEF PutDecision, SetGame
<1>12. CASE StoreDecision(t)
  BY <1>12 DEF StoreDecision
<1> QED
  BY <1>1, <1>2, <1>3, <1>4, <1>5, <1>6, <1>7, <1>8, <1>9, <1>10, <1>11, <1>12 DEF ProgressGame

LEMMA RequestKeeps ==
  ASSUME GameAssumption, SessionInv, NEW t \in Threads,
         Submit(t) \/ Trigger(t) \/ Join(t) \/ ForwardFetches(t) \/ ForwardSets(t)
  PROVE  SessionInv'
<1> USE DEF GameAssumption, SessionInv, LockTypes, Lasting, Over, OneLock, StaleIsQuiet, SweepIsAlone,
        Places, LoopPlaces, Holding, Asked, Locks, memory, locking, books, Goto, Done
<1>1. CASE SubmitValidates(t)
  <2>1. fresh' = TRUE
    BY <1>1, Zenon DEF SubmitValidates, GetGame
  <2> QED
    BY <1>1, <2>1 DEF SubmitValidates
<1>2. ASSUME NEW c \in Moves, SubmitPlays(t, c) PROVE SessionInv'
  BY <1>2 DEF SubmitPlays
<1>3. CASE SubmitPuts(t)
  BY <1>3 DEF SubmitPuts, SetGame
<1>4. CASE SubmitSaves(t)
  BY <1>4 DEF SubmitSaves
<1>5. CASE Trigger(t)
  BY <1>5 DEF Trigger
<1>6. CASE Join(t)
  BY <1>6 DEF Join
<1>7. CASE ForwardFetches(t)
  <2>1. fresh' = TRUE
    BY <1>7, Zenon DEF ForwardFetches, GetGame
  <2> QED
    BY <1>7, <2>1 DEF ForwardFetches
<1>8. CASE ForwardSets(t)
  BY <1>8 DEF ForwardSets, SetGame
<1> QED
  BY <1>1, <1>2, <1>3, <1>4, <1>5, <1>6, <1>7, <1>8 DEF Submit

LEMMA GetKeeps ==
  ASSUME GameAssumption, SessionInv, NEW t \in Threads, Get(t)
  PROVE  SessionInv'
<1> USE DEF GameAssumption, SessionInv, LockTypes, Lasting, Over, OneLock, StaleIsQuiet, SweepIsAlone,
        Places, LoopPlaces, Holding, Asked, Locks, memory, locking, books, Goto, Done
<1>1. CASE GetCached(t)
  BY <1>1 DEF GetCached
<1>2. CASE GetMisses(t)
  BY <1>2 DEF GetMisses
<1>3. CASE ColdLock(t)
  BY <1>3 DEF ColdLock, GetGameLock
<1>4. CASE ColdAcquire(t)
  BY <1>4, AcquireKeeps, "cold" \in Holding \ {"pay", "stamp", "unload", "leaverow"} DEF ColdAcquire
<1>5. CASE ColdIsWarm(t)
  BY <1>5, ReleaseKeeps DEF ColdIsWarm
<1>6. CASE ColdLoads(t)
  BY <1>6 DEF ColdLoads
<1>7. CASE ColdPublishes(t)
  <2>1. SetGame(obj[t]) /\ Release(t) /\ pc[t] = "publish"
    BY <1>7 DEF ColdPublishes
  <2>2. /\ lk' = [lk EXCEPT ![t] = None]
        /\ pc' = [pc EXCEPT ![t] = "lock"] \/ pc' = [pc EXCEPT ![t] = "idle"]
        /\ UNCHANGED <<settled, ended, cut>>
    BY <1>7 DEF ColdPublishes
  <2>3. LockTypes'
    BY <2>1, <2>2 DEF SetGame, Release
  <2>4. CASE ended
    BY <2>2, <2>3, <2>4
  <2>5. CASE ~ended
    <3>1. held \subseteq {lk[t]} /\ \A u \in Threads \ {t} : pc[u] \notin Holding
      BY <2>1, <2>5
    <3>2. held' = {} /\ \A u \in Threads : pc'[u] \notin Holding
      BY <2>1, <2>2, <3>1 DEF Release
    <3>3. OneLock'
      BY <2>1, <2>2, <2>5, <3>2 DEF Release
    <3>4. StaleIsQuiet' /\ SweepIsAlone'
      BY <2>1, <2>2, <2>5, <3>2 DEF SetGame, Release
    <3>5. \A u \in Threads : pc'[u] \in {"stamp", "unload", "leaverow"} <=> pc[u] \in {"stamp", "unload", "leaverow"}
      BY <2>1, <2>2
    <3>6. \A u \in Leaves : u \in Threads
      BY DEF Threads
    <3>7. UNCHANGED <<settled, cut>> /\ \A u \in Threads : pc'[u] = "stamp" <=> pc[u] = "stamp"
      BY <2>1, <2>2
    <3> QED
      BY <2>2, <2>3, <2>5, <3>3, <3>4, <3>5, <3>6, <3>7
  <2> QED
    BY <2>4, <2>5
<1> QED
  BY <1>1, <1>2, <1>3, <1>4, <1>5, <1>6, <1>7 DEF Get

LEMMA LeaveKeeps ==
  ASSUME GameAssumption, SessionInv, NEW t \in Leaves, t \in Threads, Leave(t)
  PROVE  SessionInv'
<1> USE DEF GameAssumption, SessionInv, LockTypes, Lasting, Over, OneLock, StaleIsQuiet, SweepIsAlone,
        Places, LoopPlaces, Holding, Asked, Locks, memory, locking, books, Goto, Done
<1>1. CASE LeaveAsks(t)
  <2>1. CASE games # None
    <3>1. fresh' = TRUE
      BY <1>1, <2>1, Zenon DEF LeaveAsks, GetGame
    <3> QED
      BY <1>1, <3>1 DEF LeaveAsks, GetGame
  <2>2. CASE games = None
    <3>1. fresh' = fresh
      BY <1>1, <2>2 DEF LeaveAsks, GetGame
    <3> QED
      BY <1>1, <2>2, <3>1 DEF LeaveAsks, GetGame
  <2> QED
    BY <2>1, <2>2
<1>2. CASE LeaveLock(t)
  BY <1>2 DEF LeaveLock, GetGameLock
<1>3. CASE LeaveAcquires(t)
  BY <1>3, AcquireKeeps, "settle" \in Holding \ {"pay", "stamp", "unload", "leaverow"} DEF LeaveAcquires
<1>4. CASE LeaveIsLate(t)
  BY <1>4 DEF LeaveIsLate
<1>5. CASE LeaveReads(t)
  BY <1>5 DEF LeaveReads
<1>6. CASE LeaveWarms(t)
  BY <1>6 DEF LeaveWarms, SetGame
<1>7. CASE LeaveFindsNothing(t)
  <2>1. LockTypes'
    BY <1>7 DEF LeaveFindsNothing, Release
  <2>2. \A u \in Threads : pc'[u] # "pay"
    BY <1>7 DEF LeaveFindsNothing
  <2> QED
    BY <1>7, <2>1, <2>2 DEF LeaveFindsNothing
<1>8. CASE LeavePays(t)
  <2>1. ~ended /\ pc[t] = "pay" /\ \A u \in Leaves : pc[u] # "stamp"
    BY <1>8 DEF LeavePays, Threads
  <2>2. settled' = settled + 1 /\ settled <= cut /\ pc'[t] = "stamp" /\ UNCHANGED <<ended, cut>>
    BY <1>8, <2>1 DEF LeavePays
  <2>3. settled' <= 1 + cut'
    BY <2>2
  <2>4. LockTypes' /\ OneLock' /\ StaleIsQuiet' /\ SweepIsAlone'
    BY <1>8, <2>1 DEF LeavePays
  <2>5. \A u \in Threads : pc'[u] \notin {"unload", "leaverow"} /\ (pc'[u] = "stamp" => u \in Leaves)
    BY <1>8, <2>1 DEF LeavePays
  <2> QED
    BY <2>1, <2>2, <2>3, <2>4, <2>5
<1>9. CASE LeaveStamps(t)
  BY <1>9 DEF LeaveStamps
<1>10. CASE LeaveUnloads(t)
  BY <1>10 DEF LeaveUnloads, DropFromMemory
<1>11. CASE LeaveDeletesRow(t)
  BY <1>11, ReleaseKeeps DEF LeaveDeletesRow
<1> QED
  BY <1>1, <1>2, <1>3, <1>4, <1>5, <1>6, <1>7, <1>8, <1>9, <1>10, <1>11 DEF Leave

LEMMA ServerKeeps ==
  ASSUME GameAssumption, SessionInv, Cleanup \/ Crash
  PROVE  SessionInv'
<1> USE DEF GameAssumption, SessionInv, LockTypes, Lasting, Over, OneLock, StaleIsQuiet, SweepIsAlone,
        Places, LoopPlaces, Holding, Asked, Locks, memory, locking, books, Goto, Done
<1>1. CASE TimePasses
  BY <1>1 DEF TimePasses, Waiting
<1>2. CASE CleanupChecks
  BY <1>2 DEF CleanupChecks
<1>3. CASE CleanupPops
  BY <1>3 DEF CleanupPops
<1>4. CASE Crash
  <2>1. LockTypes' /\ UNCHANGED <<ended, settled>> /\ \A t \in Threads : pc'[t] = "idle"
    <3>1. cut' \in Nat
      BY <1>4 DEF Crash
    <3> QED
      BY <1>4, <3>1 DEF Crash
  <2>2. CASE \E t \in Leaves : pc[t] = "stamp"
    <3>1. ~ended /\ settled <= cut + 1 /\ cut' = cut + 1
      BY <1>4, <2>2 DEF Crash, Threads
    <3>2. settled' <= cut' /\ settled' <= 1 + cut'
      BY <2>1, <3>1
    <3> QED
      BY <1>4, <2>1, <3>1, <3>2 DEF Crash
  <2>3. CASE ~\E t \in Leaves : pc[t] = "stamp"
    <3>1. cut' = cut
      BY <1>4, <2>3 DEF Crash
    <3> QED
      BY <1>4, <2>1, <2>3, <3>1 DEF Crash
  <2> QED
    BY <2>2, <2>3
<1> QED
  BY <1>1, <1>2, <1>3, <1>4 DEF Cleanup

LEMMA StutterKeeps ==
  ASSUME SessionInv, UNCHANGED vars
  PROVE  SessionInv'
BY DEF vars, SessionInv, LockTypes, Lasting, Over, OneLock, StaleIsQuiet, SweepIsAlone

LEMMA SessionStep ==
  ASSUME GameAssumption, Retries = {}, Deletes = {}, SessionInv, [Next]_vars
  PROVE  SessionInv'
<1>1. ASSUME NEW t \in Threads, ProgressGame(t) \/ Request(t) PROVE SessionInv'
  BY <1>1, ProgressKeeps, RequestKeeps, GetKeeps, LeaveKeeps DEF Request
<1>2. CASE Cleanup \/ Crash
  BY <1>2, ServerKeeps
<1>3. CASE UNCHANGED vars
  BY <1>3, StutterKeeps
<1> QED
  BY <1>1, <1>2, <1>3 DEF Next

-----------------------------------------------------------------------------
\* The lock argument holds throughout.
THEOREM GameSessionInv ==
  ASSUME GameAssumption, Retries = {}, Deletes = {}
  PROVE  Spec => []SessionInv
<1>1. Init => SessionInv
  BY SessionInit
<1>2. SessionInv /\ [Next]_vars => SessionInv'
  BY SessionStep
<1> QED
  BY <1>1, <1>2, PTL DEF Spec

\* While the session lasts one thread at a time moves the game on, for as many triggers,
\* polls, submits, fast-forwards and leaves as there may be, evicted and reloaded as
\* it may be: progress_game's lock (game_handler.py 4507-4514) and the cleanup's check
\* of it (game_state_service.py 59-66) are enough.  A session that nobody leaves lasts.
THEOREM GameOneLoop ==
  ASSUME GameAssumption, Retries = {}, Deletes = {}
  PROVE  Spec => [](ended \/ OneLoop)
<1>1. SessionInv => ended \/ OneLoop
  <2> SUFFICES ASSUME SessionInv, ~ended PROVE OneLoop
    OBVIOUS
  <2>1. \A t, u \in Looping : t = u
    BY DEF SessionInv, Lasting, OneLock, Holding, LoopPlaces, Looping
  <2>2. Looping = {} \/ \E t \in Looping : Looping = {t}
    BY <2>1
  <2>3. CASE Looping = {}
    BY <2>3, FS_EmptySet DEF OneLoop
  <2>4. ASSUME NEW t \in Looping, Looping = {t} PROVE OneLoop
    <3>1. Cardinality({t}) = 1
      BY FS_Singleton
    <3> QED
      BY <2>4, <3>1 DEF OneLoop
  <2> QED
    BY <2>2, <2>3, <2>4
<1> QED
  BY <1>1, GameSessionInv, PTL

\* Without a leave the session never ends, and the lock serves throughout.
COROLLARY GameOneLoopThroughout ==
  ASSUME GameAssumption, Retries = {}, Deletes = {}, Leaves = {}
  PROVE  Spec => []OneLoop
<1>1. SessionInv => ~ended
  BY DEF SessionInv, Over
<1> QED
  BY <1>1, GameSessionInv, GameOneLoop, PTL

\* A session that is left, any number of times and by any number of requests, with
\* polls, evictions and crashes between them, is paid out once, and once more at most
\* for each crash that comes between the payment and ended_at: the leave reads
\* ended_at and pays under the game's lock (cash_routes.py 4665-4668, 4965), but
\* stamps it in a commit after the credit (5257-5263, 5289-5295, 5336-5344).
THEOREM GameSettledOnce ==
  ASSUME GameAssumption, Retries = {}, Deletes = {}
  PROVE  Spec => []SettledOnce
<1>1. SessionInv => SettledOnce
  BY DEF SessionInv, Over, Lasting, LockTypes, SettledOnce
<1> QED
  BY <1>1, GameSessionInv, PTL

-----------------------------------------------------------------------------
\* What a line is made of.
Decisions == Moves \cup {"ai", "deal"}

\* Every decision of a line was taken by the one whose turn it was.
InTurn(l) == \A n \in 1..Len(l) : Turn[n] = IF l[n] \in Moves THEN "human" ELSE l[n]

\* Line l goes on from line k.
Begins(k, l) == Len(k) <= Len(l) /\ \A n \in 1..Len(k) : k[n] = l[n]

\* The confirmed decision d = <<n, choice>> is in the line.
Stands(d, l) == d[1] <= Len(l) /\ l[d[1]] = d[2]

\* TypeOK, made inductive: a cleanup under way is counted among the losses, a lock
\* is known from the moment it is asked for, and a player's draft ends with a move.
TypeInv ==
    /\ TypeOK
    /\ sweeping => losses < MaxLosses
    /\ \A t \in Threads : pc[t] \in Asked <=> lk[t] # None
    /\ \A t \in Threads : pc[t] \in {"write", "keep"} =>
          /\ draft[t] # <<>> /\ Last(draft[t]) \in Moves

\* There is one object: the one in memory, or the one about to be put there.
OneObject ==
    /\ \A t \in Threads :
          obj[t] \in {None, games} \/ pc[t] = "publish"
    /\ \A t \in Threads : pc[t] = "publish" => games = None /\ line[obj[t]] = row
    /\ \A t \in Threads : pc[t] = "idle" => obj[t] = None
    /\ \A t \in Threads : pc[t] = "ask" => obj[t] # None
    /\ sweeping => games # None
    /\ sweeping /\ ~fresh => \A t \in Threads : pc[t] = "idle"
    /\ \A t \in Threads : pc[t] \in {"act", "write", "keep"} => t \in Submits

\* The row is there, was played in turn, is continued by the line in memory and
\* holds every confirmed decision.
Recorded ==
    /\ row \in Lines /\ InTurn(row)
    /\ games # None => InTurn(line[games]) /\ Begins(row, line[games])
    /\ \A d \in told : Stands(d, row)

\* What a thread is about to write back continues the line as it is now: the turn
\* it saw is still the turn, though the answer took long.
Drafts ==
    \A t \in Threads :
      /\ pc[t] \in {"act", "write"} => Next_(line[games]) = "human"
      /\ pc[t] \in {"ask", "play", "put"} => Next_(line[games]) = "ai"
      /\ pc[t] = "save" /\ Next_(draft[t]) = "ai" => draft[t] = line[games]
      /\ pc[t] = "put" => draft[t] = Append(line[games], "ai")
      /\ pc[t] = "write" => \E c \in Moves : draft[t] = Append(line[games], c)
      /\ pc[t] = "keep" => Begins(draft[t], line[games])

\* The game a waiting leave found is flagged, and after the request there is only
\* the iteration under way.
LastTurn ==
    /\ \A l \in Leaves \ Pending : late[l] = 0
    /\ \A l \in Pending : obj[l] # None => games \in leaving /\ late[l] <= 1
    /\ \A l \in Pending, t \in Threads :
          obj[l] # None /\ pc[t] \in {"run", "save", "ask", "play", "put"} => late[l] = 0

PlayParts == OneObject /\ Recorded /\ Drafts /\ LastTurn

\* The inductive invariant of the play.
PlayInv == ~ended /\ ~raced => OneObject /\ Recorded /\ Drafts /\ LastTurn

-----------------------------------------------------------------------------
\* A line is a sequence of decisions no longer than the horizon.
LEMMA LineIsSeq ==
  ASSUME GameAssumption
  PROVE  /\ Horizon \in Nat
         /\ \A l : l \in Lines <=> l \in Seq(Decisions) /\ Len(l) <= Horizon
         /\ <<>> \in Lines /\ Starts \subseteq Lines
<1>1. Horizon \in Nat
  BY DEF GameAssumption, Horizon
<1>2. ASSUME NEW l \in Lines PROVE l \in Seq(Decisions) /\ Len(l) <= Horizon
  <2>1. PICK n \in 0..Horizon : l \in [1..n -> Decisions]
    BY DEF Lines, Decisions
  <2>2. l \in Seq(Decisions) /\ Len(l) = n
    BY <1>1, <2>1
  <2> QED BY <1>1, <2>1, <2>2
<1>3. ASSUME NEW l \in Seq(Decisions), Len(l) <= Horizon PROVE l \in Lines
  <2>1. l \in [1..Len(l) -> Decisions] /\ Len(l) \in 0..Horizon
    BY <1>1, <1>3, LenProperties
  <2> QED BY <2>1 DEF Lines, Decisions
<1>4. <<>> \in Lines
  <2>1. <<>> \in Seq(Decisions) /\ Len(<<>>) = 0
    BY EmptySeq
  <2>2. Len(<<>>) <= Horizon
    BY <1>1, <2>1
  <2> QED BY <1>3, <2>1, <2>2, Zenon
<1> QED BY <1>1, <1>2, <1>3, <1>4 DEF GameAssumption, Lines, Horizon

\* One decision more.
LEMMA LineGrows ==
  ASSUME GameAssumption, NEW l \in Lines, NEW c \in Decisions, Len(l) < Horizon
  PROVE  /\ Append(l, c) \in Lines /\ Append(l, c) # <<>>
         /\ Len(Append(l, c)) = Len(l) + 1 /\ Last(Append(l, c)) = c
         /\ Begins(l, Append(l, c))
<1>1. l \in Seq(Decisions) /\ Horizon \in Nat /\ Len(l) \in Nat
  BY LineIsSeq, LenProperties
<1>2. /\ Append(l, c) \in Seq(Decisions) /\ Len(Append(l, c)) = Len(l) + 1
      /\ Append(l, c)[Len(l) + 1] = c
      /\ \A n \in 1..Len(l) : Append(l, c)[n] = l[n]
  BY <1>1, AppendProperties
<1>3. Append(l, c) # <<>>
  BY <1>1, <1>2, EmptySeq
<1>4. Append(l, c) \in Lines
  <2>1. Len(Append(l, c)) <= Horizon
    BY <1>1, <1>2
  <2> QED BY <1>2, <2>1, LineIsSeq, Zenon
<1>5. Last(Append(l, c)) = c
  BY <1>2 DEF Last
<1>6. Begins(l, Append(l, c))
  BY <1>1, <1>2 DEF Begins
<1> QED BY <1>2, <1>3, <1>4, <1>5, <1>6

\* run_until stops at the first decision somebody has to take, and only deals.
LEMMA RunUntilFacts ==
  ASSUME GameAssumption, NEW l \in Lines
  PROVE  /\ RunUntil(l) \in Lines /\ Begins(l, RunUntil(l))
         /\ \A n \in (Len(l) + 1)..Len(RunUntil(l)) :
                RunUntil(l)[n] = "deal" /\ Turn[n] = "deal"
         /\ Next_(l) # "deal" => RunUntil(l) = l
<1> DEFINE stops == {n \in Len(l)..Horizon :
                       /\ \A i \in (Len(l) + 1)..n : Turn[i] = "deal"
                       /\ n < Horizon => Turn[n + 1] # "deal"}
           m == Min(stops)
           deals == [i \in 1..(m - Len(l)) |-> "deal"]
<1>1. /\ l \in Seq(Decisions) /\ Horizon \in Nat /\ Len(l) \in Nat /\ Len(l) <= Horizon
  BY LineIsSeq, LenProperties
<1>2. stops # {}
  <2> DEFINE ends == {n \in Len(l)..Horizon : n < Horizon => Turn[n + 1] # "deal"}
  <2>1. Horizon \in ends /\ ends \in SUBSET Nat
    BY <1>1
  <2>2. Min(ends) \in ends /\ \A x \in ends : Min(ends) <= x
    <3> HIDE DEF ends
    <3> QED BY <2>1, NatMin
  <2>3. ASSUME NEW i \in (Len(l) + 1)..Min(ends) PROVE Turn[i] = "deal"
    <3>1. i - 1 \in Len(l)..Horizon /\ i - 1 < Horizon /\ i - 1 < Min(ends) /\ (i - 1) + 1 = i
      BY <1>1, <2>2
    <3>2. i - 1 \notin ends
      BY <1>1, <2>2, <3>1
    <3> QED BY <3>1, <3>2
  <2>4. Min(ends) \in stops
    BY <2>2, <2>3
  <2> QED BY <2>4
<1>3. m \in stops /\ \A x \in stops : m <= x
  <2>1. stops \in SUBSET Nat
    BY <1>1
  <2> HIDE DEF stops
  <2> QED BY <1>2, <2>1, NatMin
<1>4. deals \in Seq(Decisions) /\ Len(deals) = m - Len(l)
  <2>1. m - Len(l) \in Nat /\ "deal" \in Decisions
    BY <1>1, <1>3 DEF Decisions
  <2> HIDE DEF m
  <2> QED BY <2>1
<1>5. RunUntil(l) = l \o deals
  BY DEF RunUntil
<1>6. /\ RunUntil(l) \in Seq(Decisions) /\ Len(RunUntil(l)) = m
      /\ \A i \in 1..m : RunUntil(l)[i] = IF i <= Len(l) THEN l[i] ELSE deals[i - Len(l)]
  <2>1. Len(l) + Len(deals) = m
    <3>1. m \in Nat
      BY <1>1, <1>3
    <3> HIDE DEF m, deals
    <3> QED BY <1>1, <1>4, <3>1
  <2> HIDE DEF m, deals
  <2> QED BY <1>1, <1>4, <1>5, <2>1, ConcatProperties
<1>7. \A i \in (Len(l) + 1)..m : deals[i - Len(l)] = "deal"
  BY <1>1, <1>3
<1>8. RunUntil(l) \in Lines /\ Begins(l, RunUntil(l))
  <2>1. m \in Nat /\ Len(l) <= m /\ m <= Horizon
    BY <1>1, <1>3
  <2> HIDE DEF m, deals
  <2>2. Len(RunUntil(l)) <= Horizon
    BY <1>6, <2>1
  <2>3. RunUntil(l) \in Lines
    BY <1>6, <2>2, LineIsSeq, Zenon
  <2>4. Begins(l, RunUntil(l))
    BY <1>1, <1>6, <2>1 DEF Begins
  <2> QED BY <2>3, <2>4
<1>9. ASSUME Next_(l) # "deal" PROVE RunUntil(l) = l
  <2>1. Len(l) \in stops
    BY <1>1, <1>9 DEF Next_
  <2>2. m = Len(l)
    BY <1>1, <1>3, <2>1
  <2>3. \A i \in 1..Len(l) : RunUntil(l)[i] = l[i]
    BY <1>1, <1>8 DEF Begins
  <2>4. Len(RunUntil(l)) = Len(l)
    BY <1>6, <2>2
  <2> QED BY <1>1, <1>6, <2>3, <2>4, SeqEqual
<1>10. ASSUME NEW n \in (Len(l) + 1)..Len(RunUntil(l))
       PROVE  RunUntil(l)[n] = "deal" /\ Turn[n] = "deal"
  <2>1. n \in (Len(l) + 1)..m /\ n \in 1..m /\ ~(n <= Len(l))
    BY <1>1, <1>3, <1>6
  <2> HIDE DEF deals, m
  <2>2. RunUntil(l)[n] = deals[n - Len(l)]
    BY <1>6, <2>1
  <2> QED BY <1>3, <1>7, <2>1, <2>2
<1> QED BY <1>8, <1>9, <1>10

-----------------------------------------------------------------------------
\* The types, and every step that keeps them.
LEMMA TypeStart == GameAssumption /\ Init => TypeInv
<1> SUFFICES ASSUME GameAssumption, Init PROVE TypeInv
  OBVIOUS
<1>1. <<>> \in Lines /\ row \in Lines
  BY LineIsSeq DEF Init
<1>2. 1 \in Objects /\ games \in Objects /\ losses \in 0..MaxLosses
  BY DEF Init, GameAssumption, Objects
<1>3. line \in [Objects -> Lines] /\ draft \in [Threads -> Lines]
  BY <1>1 DEF Init
<1>4. TypeOK
  BY <1>1, <1>2, <1>3 DEF Init, TypeOK, Places, LoopPlaces
<1> QED BY <1>4 DEF Init, TypeInv, Asked, Holding, LoopPlaces

LEMMA ProgressTypes ==
  ASSUME GameAssumption, TypeInv, NEW t \in Threads, ProgressGame(t)
  PROVE  TypeInv'
<1> USE DEF TypeInv, TypeOK, Asked, Holding, Places, LoopPlaces, memory, locking, books, Goto, Done,
        GetGame, SetGame, SaveGame, GetGameLock, Acquire, Release
<1>0. <<>> \in Lines /\ "ai" \in Decisions /\ Moves \subseteq Decisions
  BY LineIsSeq DEF Decisions
<1>1. CASE ProgressLock(t)
  <2>1. lockOf' \in Locks /\ lockOf' # None
    BY <1>1 DEF ProgressLock, GameAssumption, Locks
  <2> QED BY <1>1, <2>1 DEF ProgressLock
<1>2. CASE ProgressSkipped(t)
  BY <1>0, <1>2 DEF ProgressSkipped
<1>3. CASE ProgressAcquired(t)
  <2>1. lk[t] \in Locks
    BY <1>3 DEF ProgressAcquired
  <2>2. held' \subseteq Locks
    BY <1>3, <2>1 DEF ProgressAcquired
  <2>3. TypeOK'
    BY <1>3, <2>2 DEF ProgressAcquired
  <2>4. /\ sweeping' => losses' < MaxLosses
        /\ \A s \in Threads : pc'[s] \in Asked <=> lk'[s] # None
    BY <1>3 DEF ProgressAcquired
  <2>5. \A s \in Threads : pc'[s] \in {"write", "keep"} => draft'[s] # <<>> /\ Last(draft'[s]) \in Moves
    BY <1>3 DEF ProgressAcquired
  <2> QED BY <2>3, <2>4, <2>5
<1>4. CASE LoopBegins(t)
  BY <1>0, <1>4 DEF LoopBegins
<1>5. CASE LoopGivesUp(t)
  BY <1>0, <1>5 DEF LoopGivesUp
<1>6. CASE LoopRuns(t)
  <2>1. line[obj[t]] \in Lines /\ RunUntil(line[obj[t]]) \in Lines
    BY <1>6, RunUntilFacts DEF LoopRuns
  <2> QED BY <1>6, <2>1 DEF LoopRuns
<1>7. CASE LoopSaves(t)
  BY <1>0, <1>7 DEF LoopSaves
<1>8. CASE LoopYields(t)
  BY <1>0, <1>8 DEF LoopYields
<1>9. CASE AskController(t)
  BY <1>0, <1>9 DEF AskController
<1>10. CASE PlayDecision(t)
  <2>1. Append(line[obj[t]], "ai") \in Lines
    BY <1>0, <1>10, LineGrows DEF PlayDecision
  <2> QED BY <1>10, <2>1 DEF PlayDecision
<1>11. CASE PutDecision(t)
  BY <1>0, <1>11 DEF PutDecision
<1>12. CASE StoreDecision(t)
  BY <1>0, <1>12 DEF StoreDecision
<1> QED BY <1>1, <1>2, <1>3, <1>4, <1>5, <1>6, <1>7, <1>8, <1>9, <1>10, <1>11, <1>12 DEF ProgressGame

LEMMA GetTypes ==
  ASSUME GameAssumption, TypeInv, NEW t \in Threads, Get(t)
  PROVE  TypeInv'
<1> USE DEF TypeInv, TypeOK, Asked, Holding, Places, LoopPlaces, memory, locking, books, Goto, Done,
        GetGame, SetGame, SaveGame, GetGameLock, Acquire, Release
<1>0. <<>> \in Lines /\ "ai" \in Decisions /\ Moves \subseteq Decisions
  BY LineIsSeq DEF Decisions
<1>1. CASE GetCached(t)
  BY <1>0, <1>1 DEF GetCached
<1>2. CASE GetMisses(t)
  BY <1>0, <1>2 DEF GetMisses
<1>3. CASE ColdLock(t)
  <2>1. lockOf' \in Locks /\ lockOf' # None
    BY <1>3 DEF ColdLock, GameAssumption, Locks
  <2> QED BY <1>3, <2>1 DEF ColdLock
<1>4. CASE ColdAcquire(t)
  <2>1. lk[t] \in Locks
    BY <1>4 DEF ColdAcquire
  <2>2. held' \subseteq Locks
    BY <1>4, <2>1 DEF ColdAcquire
  <2>3. TypeOK'
    BY <1>4, <2>2 DEF ColdAcquire
  <2>4. /\ sweeping' => losses' < MaxLosses
        /\ \A s \in Threads : pc'[s] \in Asked <=> lk'[s] # None
    BY <1>4 DEF ColdAcquire
  <2>5. \A s \in Threads : pc'[s] \in {"write", "keep"} => draft'[s] # <<>> /\ Last(draft'[s]) \in Moves
    BY <1>4 DEF ColdAcquire
  <2> QED BY <2>3, <2>4, <2>5
<1>5. CASE ColdIsWarm(t)
  BY <1>0, <1>5 DEF ColdIsWarm
<1>6. CASE ColdLoads(t)
  BY <1>0, <1>6 DEF ColdLoads, LoadsInto, Unheld
<1>7. CASE ColdPublishes(t)
  BY <1>0, <1>7 DEF ColdPublishes
<1> QED BY <1>1, <1>2, <1>3, <1>4, <1>5, <1>6, <1>7 DEF Get

LEMMA LeaveTypes ==
  ASSUME GameAssumption, TypeInv, NEW t \in Threads, Leave(t)
  PROVE  TypeInv'
<1> USE DEF TypeInv, TypeOK, Asked, Holding, Places, LoopPlaces, memory, locking, books, Goto, Done,
        GetGame, SetGame, SaveGame, GetGameLock, Acquire, Release
<1>0. <<>> \in Lines /\ "ai" \in Decisions /\ Moves \subseteq Decisions
  BY LineIsSeq DEF Decisions
<1>1. CASE LeaveAsks(t)
  BY <1>0, <1>1 DEF LeaveAsks
<1>2. CASE LeaveLock(t)
  <2>1. lockOf' \in Locks /\ lockOf' # None
    BY <1>2 DEF LeaveLock, GameAssumption, Locks
  <2> QED BY <1>2, <2>1 DEF LeaveLock
<1>3. CASE LeaveAcquires(t)
  <2>1. lk[t] \in Locks
    BY <1>3 DEF LeaveAcquires
  <2>2. held' \subseteq Locks
    BY <1>3, <2>1 DEF LeaveAcquires
  <2>3. TypeOK'
    BY <1>3, <2>2 DEF LeaveAcquires
  <2>4. /\ sweeping' => losses' < MaxLosses
        /\ \A s \in Threads : pc'[s] \in Asked <=> lk'[s] # None
    BY <1>3 DEF LeaveAcquires
  <2>5. \A s \in Threads : pc'[s] \in {"write", "keep"} => draft'[s] # <<>> /\ Last(draft'[s]) \in Moves
    BY <1>3 DEF LeaveAcquires
  <2> QED BY <2>3, <2>4, <2>5
<1>4. CASE LeaveIsLate(t)
  BY <1>0, <1>4 DEF LeaveIsLate
<1>5. CASE LeaveReads(t)
  BY <1>0, <1>5 DEF LeaveReads
<1>6. CASE LeaveWarms(t)
  BY <1>0, <1>6 DEF LeaveWarms, LoadsInto, Unheld
<1>7. CASE LeaveFindsNothing(t)
  BY <1>0, <1>7 DEF LeaveFindsNothing
<1>8. CASE LeavePays(t)
  BY <1>0, <1>8 DEF LeavePays
<1>9. CASE LeaveStamps(t)
  BY <1>0, <1>9 DEF LeaveStamps
<1>10. CASE LeaveUnloads(t)
  BY <1>0, <1>10 DEF LeaveUnloads, DropFromMemory
<1>11. CASE LeaveDeletesRow(t)
  BY <1>0, <1>11 DEF LeaveDeletesRow
<1> QED BY <1>1, <1>2, <1>3, <1>4, <1>5, <1>6, <1>7, <1>8, <1>9, <1>10, <1>11 DEF Leave

LEMMA SubmitTypes ==
  ASSUME GameAssumption, TypeInv, NEW t \in Threads, Submit(t)
  PROVE  TypeInv'
<1> USE DEF TypeInv, TypeOK, Asked, Holding, Places, LoopPlaces, memory, locking, books, Goto, Done,
        GetGame, SetGame, SaveGame, GetGameLock, Acquire, Release
<1>0. <<>> \in Lines /\ "ai" \in Decisions /\ Moves \subseteq Decisions
  BY LineIsSeq DEF Decisions
<1>1. CASE SubmitValidates(t)
  BY <1>0, <1>1 DEF SubmitValidates
<1>2. ASSUME NEW c \in Moves, SubmitPlays(t, c) PROVE TypeInv'
  <2>1. /\ Append(line[obj[t]], c) \in Lines /\ Append(line[obj[t]], c) # <<>>
        /\ Last(Append(line[obj[t]], c)) = c
    BY <1>0, <1>2, LineGrows DEF SubmitPlays
  <2> QED BY <1>2, <2>1 DEF SubmitPlays
<1>3. CASE SubmitPuts(t)
  BY <1>0, <1>3 DEF SubmitPuts
<1>4. CASE SubmitSaves(t)
  <2>1. draft[t] \in Lines /\ draft[t] # <<>> /\ Last(draft[t]) \in Moves
    BY <1>4 DEF SubmitSaves
  <2>2. Len(draft[t]) \in 1..Horizon
    BY <2>1, LineIsSeq, EmptySeq
  <2> QED BY <1>0, <1>4, <2>1, <2>2 DEF SubmitSaves
<1> QED BY <1>1, <1>2, <1>3, <1>4 DEF Submit

LEMMA OtherTypes ==
  ASSUME GameAssumption, TypeInv, NEW t \in Threads,
         Trigger(t) \/ Join(t) \/ ForwardFetches(t) \/ ForwardSets(t) \/ Retry(t) \/ Delete(t)
  PROVE  TypeInv'
<1> USE DEF TypeInv, TypeOK, Asked, Holding, Places, LoopPlaces, memory, locking, books, Goto, Done, GetGame, SetGame
<1>1. CASE Trigger(t)
  BY <1>1 DEF Trigger
<1>2. CASE Join(t)
  BY <1>2 DEF Join
<1>3. CASE ForwardFetches(t)
  BY <1>3 DEF ForwardFetches
<1>4. CASE ForwardSets(t)
  BY <1>4 DEF ForwardSets
<1>5. CASE Retry(t)
  BY <1>5 DEF Retry
<1>6. CASE DeleteFromMemory(t)
  BY <1>6 DEF DeleteFromMemory, DropFromMemory
<1>7. CASE DeleteRow(t)
  BY <1>7, LineIsSeq DEF DeleteRow
<1> QED BY <1>1, <1>2, <1>3, <1>4, <1>5, <1>6, <1>7 DEF Delete

LEMMA ServerTypes ==
  ASSUME GameAssumption, TypeInv, Cleanup \/ Crash
  PROVE  TypeInv'
<1> USE DEF TypeInv, TypeOK, Asked, Holding, Places, LoopPlaces, memory, locking, books
<1>1. CASE TimePasses
  BY <1>1 DEF TimePasses
<1>2. CASE CleanupChecks
  BY <1>2 DEF CleanupChecks
<1>3. losses < MaxLosses => losses + 1 \in 0..MaxLosses
  BY DEF GameAssumption
<1>4. CASE CleanupPops
  BY <1>3, <1>4 DEF CleanupPops
<1>5. CASE Crash
  <2>1. cut' \in Nat /\ late' \in [Leaves -> Nat] /\ losses' \in 0..MaxLosses
    BY <1>3, <1>5 DEF Crash
  <2> QED BY <1>5, <2>1, LineIsSeq DEF Crash
<1> QED BY <1>1, <1>2, <1>4, <1>5 DEF Cleanup

LEMMA TypeStep ==
  ASSUME GameAssumption, TypeInv, [Next]_vars
  PROVE  TypeInv'
<1>1. ASSUME NEW t \in Threads, ProgressGame(t) \/ Request(t) PROVE TypeInv'
  BY <1>1, ProgressTypes, SubmitTypes, GetTypes, LeaveTypes, OtherTypes DEF Request
<1>2. CASE Cleanup \/ Crash
  BY <1>2, ServerTypes
<1>3. CASE UNCHANGED vars
  BY <1>3 DEF vars, TypeInv, TypeOK
<1> QED BY <1>1, <1>2, <1>3 DEF Next

-----------------------------------------------------------------------------
\* Every variable keeps its type, for any number of threads of every kind, retries
\* and deletes included: a thread past its fetch has an object whatever was evicted
\* or deleted since (game_state_service.py 59-66), and the bounds of the model, the
\* horizon and the losses, are met.
THEOREM GameTypes == GameAssumption => (Spec => []TypeOK)
<1>1. GameAssumption /\ Init => TypeInv
  BY TypeStart
<1>2. GameAssumption /\ TypeInv /\ [Next]_vars => TypeInv'
  BY TypeStep
<1>3. TypeInv => TypeOK
  BY DEF TypeInv
<1> QED BY <1>1, <1>2, <1>3, GameAssumption, PTL DEF Spec

-----------------------------------------------------------------------------
\* Lines that go on from one another, and what stands in them.
LEMMA BeginsOn ==
  ASSUME GameAssumption, NEW j \in Lines, NEW k \in Lines, NEW l \in Lines, Begins(j, k), Begins(k, l)
  PROVE  Begins(j, l)
<1>1. Len(j) \in Nat /\ Len(k) \in Nat /\ Len(l) \in Nat
  BY LineIsSeq, LenProperties
<1> QED BY <1>1 DEF Begins

LEMMA BeginsSelf ==
  ASSUME GameAssumption, NEW l \in Lines
  PROVE  Begins(l, l)
<1>1. Len(l) \in Nat
  BY LineIsSeq, LenProperties
<1> QED BY <1>1 DEF Begins

LEMMA StandsOn ==
  ASSUME GameAssumption, NEW k \in Lines, NEW l \in Lines, Begins(k, l),
         NEW d \in (1..Horizon) \X Moves, Stands(d, k)
  PROVE  Stands(d, l)
<1>1. Len(k) \in Nat /\ Len(l) \in Nat /\ Horizon \in Nat
  BY LineIsSeq, LenProperties
<1> QED BY <1>1 DEF Begins, Stands

\* A decision by the one whose turn it is, and the deals that follow by themselves,
\* leave the line in turn and go on from it.
LEMMA TurnsGrow ==
  ASSUME GameAssumption, NEW l \in Lines, InTurn(l)
  PROVE  /\ Next_(l) = "ai" => /\ Append(l, "ai") \in Lines /\ InTurn(Append(l, "ai"))
                               /\ Begins(l, Append(l, "ai"))
         /\ \A c \in Moves : Next_(l) = "human" => /\ Append(l, c) \in Lines /\ InTurn(Append(l, c))
                                                  /\ Begins(l, Append(l, c))
         /\ InTurn(RunUntil(l))
<1>1. l \in Seq(Decisions) /\ Len(l) \in Nat /\ Horizon \in Nat /\ Len(l) <= Horizon
  BY LineIsSeq, LenProperties
<1>2. ASSUME NEW c \in Decisions, Next_(l) = IF c \in Moves THEN "human" ELSE c, Next_(l) # "over"
      PROVE  Append(l, c) \in Lines /\ InTurn(Append(l, c)) /\ Begins(l, Append(l, c))
  <2>1. Len(l) < Horizon /\ Turn[Len(l) + 1] = Next_(l)
    BY <1>1, <1>2 DEF Next_
  <2>2. Append(l, c) \in Lines /\ Len(Append(l, c)) = Len(l) + 1 /\ Begins(l, Append(l, c))
    BY <2>1, LineGrows
  <2>3. Append(l, c)[Len(l) + 1] = c
    BY <1>1, AppendProperties
  <2>4. ASSUME NEW n \in 1..(Len(l) + 1)
        PROVE  Turn[n] = IF Append(l, c)[n] \in Moves THEN "human" ELSE Append(l, c)[n]
    <3>1. CASE n = Len(l) + 1
      BY <1>2, <2>1, <2>3, <3>1
    <3>2. CASE n # Len(l) + 1
      <4>1. n \in 1..Len(l)
        BY <1>1, <3>2
      <4> QED BY <2>2, <4>1 DEF InTurn, Begins
    <3> QED BY <3>1, <3>2
  <2> QED BY <2>2, <2>4 DEF InTurn
<1>3. "ai" \in Decisions \ Moves /\ Moves \subseteq Decisions /\ "deal" \notin Moves
  BY DEF GameAssumption, Decisions
<1>4. InTurn(RunUntil(l))
  <2> DEFINE m == RunUntil(l)
  <2>1. /\ m \in Lines /\ Begins(l, m) /\ Len(m) \in Nat
        /\ \A n \in (Len(l) + 1)..Len(m) : m[n] = "deal" /\ Turn[n] = "deal"
    BY RunUntilFacts, LineIsSeq, LenProperties
  <2> HIDE DEF m
  <2>2. ASSUME NEW n \in 1..Len(m) PROVE Turn[n] = IF m[n] \in Moves THEN "human" ELSE m[n]
    <3>1. CASE n <= Len(l)
      <4>1. n \in 1..Len(l)
        BY <1>1, <2>1, <3>1
      <4> QED BY <2>1, <4>1 DEF InTurn, Begins
    <3>2. CASE ~(n <= Len(l))
      <4>1. n \in (Len(l) + 1)..Len(m)
        BY <1>1, <2>1, <3>2
      <4> QED BY <1>3, <2>1, <4>1
    <3> QED BY <3>1, <3>2
  <2> QED BY <2>2 DEF InTurn, m
<1>5. Next_(l) = "ai" => /\ Append(l, "ai") \in Lines /\ InTurn(Append(l, "ai"))
                        /\ Begins(l, Append(l, "ai"))
  BY <1>2, <1>3
<1>6. ASSUME NEW c \in Moves, Next_(l) = "human"
      PROVE  Append(l, c) \in Lines /\ InTurn(Append(l, c)) /\ Begins(l, Append(l, c))
  BY <1>2, <1>3, <1>6
<1> QED BY <1>4, <1>5, <1>6

\* The game is saved as it is.
LEMMA SavedOn ==
  ASSUME GameAssumption, TypeOK, Recorded, games \in Objects, UNCHANGED <<games, line, told>>,
         row' = line[games]
  PROVE  Recorded'
<1>1. /\ row \in Lines /\ line[games] \in Lines /\ games # None /\ games' = games
      /\ InTurn(line[games]) /\ Begins(row, line[games])
      /\ told \subseteq (1..Horizon) \X Moves
  BY DEF TypeOK, Recorded, Objects, GameAssumption
<1>2. \A d \in told : Stands(d, line[games])
  BY <1>1, StandsOn DEF Recorded
<1>3. Begins(line[games], line[games])
  BY <1>1, BeginsSelf
<1> QED BY <1>1, <1>2, <1>3 DEF Recorded

\* The steps of the loop: only the thread that holds the game's lock is at one, so
\* the turn it looked at is the turn it plays.
LEMMA ProgressPlays ==
  ASSUME GameAssumption, TypeInv, LockTypes, Lasting, PlayParts, ~ended',
         NEW t \in Threads, ProgressGame(t)
  PROVE  PlayParts'
<1> USE DEF PlayParts, memory, locking, books, Goto, Done,
        GetGame, SetGame, SaveGame, GetGameLock, Acquire, Release
<1>0. /\ \A u \in Threads : pc[t] \in Holding /\ pc[u] \in Holding => u = t
      /\ pc \in [Threads -> Places] /\ obj \in [Threads -> Objects \cup {None}]
      /\ draft \in [Threads -> Lines] /\ line \in [Objects -> Lines] /\ None \notin Objects
      /\ games \in Objects \cup {None}
      /\ obj[t] # None /\ pc[t] # "publish" => obj[t] = games
      /\ Leaves \subseteq Threads /\ late \in [Leaves -> Nat]
      /\ sweeping => ~(pc[t] \in Asked) /\ (pc[t] # "idle" => fresh)
  BY DEF SweepIsAlone, Threads, TypeInv, TypeOK, Lasting, OneLock, OneObject, Objects, GameAssumption
<1>20. games = None => \A u \in Threads :
        /\ pc[u] \notin {"run", "save", "ask", "play", "put", "store", "act", "write", "keep", "flag"}
        /\ pc[u] # "publish" => obj[u] = None
  BY DEF TypeInv, TypeOK, OneObject, Objects, GameAssumption
<1> USE DEF Places, LoopPlaces, Holding
<1>1. CASE ProgressLock(t)
  <2>1. OneObject'
    BY <1>0, <1>1 DEF ProgressLock, OneObject, Asked
  <2>2. Recorded'
    BY <1>0, <1>1 DEF ProgressLock, Recorded
  <2>3. Drafts'
    BY <1>0, <1>1 DEF ProgressLock, Drafts
  <2>4. LastTurn'
    BY <1>0, <1>1 DEF ProgressLock, LastTurn, Pending
  <2> QED BY <2>1, <2>2, <2>3, <2>4
<1>2. CASE ProgressSkipped(t)
  <2>1. OneObject'
    BY <1>0, <1>2 DEF ProgressSkipped, OneObject, Asked
  <2>2. Recorded'
    BY <1>0, <1>2 DEF ProgressSkipped, Recorded
  <2>3. Drafts'
    BY <1>0, <1>2 DEF ProgressSkipped, Drafts
  <2>4. LastTurn'
    BY <1>0, <1>2 DEF ProgressSkipped, LastTurn, Pending
  <2> QED BY <2>1, <2>2, <2>3, <2>4
<1>3. CASE ProgressAcquired(t)
  <2>1. OneObject'
    BY <1>0, <1>3 DEF ProgressAcquired, OneObject, Asked
  <2>2. Recorded'
    BY <1>0, <1>3 DEF ProgressAcquired, Recorded
  <2>3. Drafts'
    BY <1>0, <1>3 DEF ProgressAcquired, Drafts
  <2>4. LastTurn'
    BY <1>0, <1>3 DEF ProgressAcquired, LastTurn, Pending
  <2> QED BY <2>1, <2>2, <2>3, <2>4
<1>4. CASE LoopBegins(t)
  <2>1. OneObject'
    BY <1>0, <1>4 DEF LoopBegins, OneObject, Asked
  <2>2. Recorded'
    BY <1>0, <1>4 DEF LoopBegins, Recorded
  <2>3. Drafts'
    BY <1>0, <1>4 DEF LoopBegins, Drafts
  <2>4. LastTurn'
    BY <1>0, <1>4 DEF LoopBegins, LastTurn, Pending
  <2> QED BY <2>1, <2>2, <2>3, <2>4
<1>5. CASE LoopGivesUp(t)
  <2>1. OneObject'
    BY <1>0, <1>5 DEF LoopGivesUp, OneObject, Asked
  <2>2. Recorded'
    BY <1>0, <1>5 DEF LoopGivesUp, Recorded
  <2>3. Drafts'
    BY <1>0, <1>5 DEF LoopGivesUp, Drafts
  <2>4. LastTurn'
    BY <1>0, <1>5 DEF LoopGivesUp, LastTurn, Pending
  <2> QED BY <2>1, <2>2, <2>3, <2>4
<1>6. CASE LoopRuns(t)
  <2>1. OneObject'
    <3>1. obj[t] = games /\ games' = games
      BY <1>0, <1>6 DEF LoopRuns, TypeInv, TypeOK
    <3>2. \A u \in Threads : pc[u] # "publish"
      BY <1>0, <1>6 DEF LoopRuns
    <3>3. \A u \in Threads : pc'[u] \notin {"publish", "idle", "ask", "act", "write", "keep"} \/ pc'[u] = pc[u]
      BY <1>0, <1>6 DEF LoopRuns
    <3>4. UNCHANGED <<obj, sweeping>> /\ ~sweeping
      BY <1>0, <1>6 DEF LoopRuns, Lasting, SweepIsAlone, Asked
    <3> QED BY <1>0, <3>1, <3>2, <3>3, <3>4 DEF OneObject
  <2>2. Recorded'
    <3>1. /\ games \in Objects /\ obj[t] = games /\ line[games] \in Lines
          /\ games' = games /\ line'[games] = RunUntil(line[games]) /\ UNCHANGED <<row, told>>
      BY <1>0, <1>6 DEF LoopRuns, TypeInv, TypeOK
    <3>2. row \in Lines /\ InTurn(line[games]) /\ Begins(row, line[games])
      BY <3>1, <1>0 DEF Recorded, TypeInv, TypeOK
    <3>3. InTurn(RunUntil(line[games])) /\ Begins(row, RunUntil(line[games]))
      BY <3>1, <3>2, TurnsGrow, RunUntilFacts, BeginsOn
    <3> QED BY <3>1, <3>3, Zenon DEF Recorded
  <2>3. Drafts'
    <3>1. /\ games \in Objects /\ obj[t] = games /\ line[games] \in Lines /\ pc[t] = "run"
          /\ games' = games /\ line'[games] = RunUntil(line[games])
          /\ draft' = [draft EXCEPT ![t] = line'[games]] /\ pc' = [pc EXCEPT ![t] = "save"]
      BY <1>0, <1>6 DEF LoopRuns, TypeInv, TypeOK
    <3>2. RunUntil(line[games]) \in Lines /\ Begins(line[games], RunUntil(line[games]))
      BY <3>1, RunUntilFacts
    <3>3. Next_(line[games]) # "deal" => RunUntil(line[games]) = line[games]
      BY <3>1, RunUntilFacts
    <3>4. ASSUME NEW u \in Threads, u # t
          PROVE  /\ pc'[u] = pc[u] /\ pc[u] \notin Holding /\ draft'[u] = draft[u]
                 /\ pc[u] = "keep" /\ Begins(draft[u], line[games]) => Begins(draft[u], line'[games])
      BY <1>0, <3>1, <3>2, <3>4, BeginsOn
    <3>5. pc'[t] = "save" /\ draft'[t] = line'[games]
      BY <1>0, <3>1
    <3> QED BY <3>1, <3>3, <3>4, <3>5 DEF Drafts
  <2>4. LastTurn'
    BY <1>0, <1>6 DEF LoopRuns, LastTurn, Pending, TypeInv, TypeOK
  <2> QED BY <2>1, <2>2, <2>3, <2>4
<1>7. CASE LoopSaves(t)
  <2>1. OneObject'
    <3>1. obj[t] = games /\ games \in Objects
      BY <1>0, <1>7 DEF LoopSaves, TypeInv, TypeOK
    <3>2. \A u \in Threads : pc[u] # "publish"
      BY <1>0, <1>7 DEF LoopSaves
    <3> QED BY <1>0, <1>7, <3>1, <3>2 DEF LoopSaves, OneObject
  <2>2. Recorded'
    <3>1. obj[t] = games /\ games \in Objects /\ UNCHANGED <<games, line, told>> /\ row' = line[games]
      BY <1>0, <1>7 DEF LoopSaves, TypeInv, TypeOK
    <3> QED BY <3>1, SavedOn DEF TypeInv
  <2>3. Drafts'
    BY <1>0, <1>7 DEF LoopSaves, Drafts
  <2>4. LastTurn'
    BY <1>0, <1>7 DEF LoopSaves, LastTurn, Pending
  <2> QED BY <2>1, <2>2, <2>3, <2>4
<1>8. CASE LoopYields(t)
  <2>1. OneObject'
    BY <1>0, <1>8 DEF LoopYields, OneObject, Asked
  <2>2. Recorded'
    BY <1>0, <1>8 DEF LoopYields, Recorded
  <2>3. Drafts'
    BY <1>0, <1>8 DEF LoopYields, Drafts
  <2>4. LastTurn'
    BY <1>0, <1>8 DEF LoopYields, LastTurn, Pending
  <2> QED BY <2>1, <2>2, <2>3, <2>4
<1>9. CASE AskController(t)
  <2>1. OneObject'
    BY <1>0, <1>9 DEF AskController, OneObject, Asked
  <2>2. Recorded'
    BY <1>0, <1>9 DEF AskController, Recorded
  <2>3. Drafts'
    BY <1>0, <1>9 DEF AskController, Drafts
  <2>4. LastTurn'
    BY <1>0, <1>9 DEF AskController, LastTurn, Pending
  <2> QED BY <2>1, <2>2, <2>3, <2>4
<1>10. CASE PlayDecision(t)
  <2>1. OneObject'
    BY <1>0, <1>10 DEF PlayDecision, OneObject, Asked
  <2>2. Recorded'
    BY <1>0, <1>10 DEF PlayDecision, Recorded
  <2>3. Drafts'
    <3>1. /\ obj[t] = games /\ pc[t] = "play" /\ UNCHANGED <<games, line>>
          /\ draft' = [draft EXCEPT ![t] = Append(line[games], "ai")]
          /\ pc' = [pc EXCEPT ![t] = "put"] /\ Next_(line[games]) = "ai"
      BY <1>0, <1>10 DEF PlayDecision, TypeInv, TypeOK, Drafts
    <3>2. pc'[t] = "put" /\ draft'[t] = Append(line[games], "ai")
      BY <1>0, <3>1
    <3>3. \A u \in Threads \ {t} : pc'[u] = pc[u] /\ draft'[u] = draft[u]
      BY <1>0, <3>1
    <3> QED BY <3>1, <3>2, <3>3 DEF Drafts
  <2>4. LastTurn'
    BY <1>0, <1>10 DEF PlayDecision, LastTurn, Pending
  <2> QED BY <2>1, <2>2, <2>3, <2>4
<1>11. CASE PutDecision(t)
  <2>1. OneObject'
    <3>1. obj[t] = games /\ games' = games
      BY <1>0, <1>11 DEF PutDecision, TypeInv, TypeOK
    <3>2. \A u \in Threads : pc[u] # "publish"
      BY <1>0, <1>11 DEF PutDecision
    <3>3. \A u \in Threads : pc'[u] \notin {"publish", "idle", "ask", "act", "write", "keep"} \/ pc'[u] = pc[u]
      BY <1>0, <1>11 DEF PutDecision
    <3>4. UNCHANGED <<obj, sweeping>> /\ ~sweeping
      BY <1>0, <1>11 DEF PutDecision, Lasting, SweepIsAlone, Asked
    <3> QED BY <1>0, <3>1, <3>2, <3>3, <3>4 DEF OneObject
  <2>2. Recorded'
    <3>1. /\ games \in Objects /\ obj[t] = games /\ line[games] \in Lines
          /\ games' = games /\ line'[games] = draft[t] /\ UNCHANGED <<row, told>>
          /\ draft[t] = Append(line[games], "ai") /\ Next_(line[games]) = "ai"
      BY <1>0, <1>11 DEF PutDecision, TypeInv, TypeOK, Drafts
    <3>2. row \in Lines /\ InTurn(line[games]) /\ Begins(row, line[games])
      BY <3>1, <1>0 DEF Recorded, TypeInv, TypeOK
    <3>3. InTurn(draft[t]) /\ Begins(row, draft[t])
      BY <3>1, <3>2, TurnsGrow, BeginsOn
    <3> QED BY <3>1, <3>3, Zenon DEF Recorded
  <2>3. Drafts'
    <3>1. /\ games \in Objects /\ obj[t] = games /\ line[games] \in Lines /\ pc[t] = "put"
          /\ games' = games /\ line'[games] = draft[t] /\ UNCHANGED draft
          /\ draft[t] = Append(line[games], "ai") /\ Next_(line[games]) = "ai"
          /\ pc' = [pc EXCEPT ![t] = "store"]
      BY <1>0, <1>11 DEF PutDecision, TypeInv, TypeOK, Drafts
    <3>2. draft[t] \in Lines /\ Begins(line[games], draft[t])
      BY <3>1, <1>0, TurnsGrow DEF Recorded
    <3>3. ASSUME NEW u \in Threads, u # t
          PROVE  /\ pc'[u] = pc[u] /\ pc[u] \notin Holding \cup {"act", "write"}
                 /\ pc[u] = "keep" /\ Begins(draft[u], line[games]) => Begins(draft[u], line'[games])
      BY <1>0, <3>1, <3>2, <3>3, BeginsOn DEF Drafts
    <3> QED BY <1>0, <3>1, <3>3 DEF Drafts
  <2>4. LastTurn'
    <3>1. /\ obj[t] = games /\ games' = games /\ pc[t] = "put" /\ UNCHANGED <<leaving, obj>>
          /\ late' = [l \in Leaves |-> late[l] + (IF l \in Pending THEN 1 ELSE 0)]
          /\ pc' = [pc EXCEPT ![t] = "store"]
      BY <1>0, <1>11 DEF PutDecision, TypeInv, TypeOK
    <3>2. \A u \in Threads : pc'[u] \notin {"run", "save", "ask", "play", "put"}
      BY <1>0, <3>1
    <3>3. Pending' = Pending
      BY <1>0, <3>1 DEF Pending
    <3>4. ASSUME NEW l \in Leaves
          PROVE  /\ l \notin Pending => late'[l] = 0
                 /\ l \in Pending /\ obj[l] # None => games \in leaving /\ late'[l] <= 1
      BY <1>0, <3>1 DEF LastTurn
    <3>5. /\ \A l \in Leaves \ Pending' : late'[l] = 0
          /\ \A l \in Pending' : obj'[l] # None => games' \in leaving' /\ late'[l] <= 1
      BY <3>1, <3>3, <3>4 DEF Pending
    <3> QED BY <1>0, <3>2, <3>5 DEF LastTurn
  <2> QED BY <2>1, <2>2, <2>3, <2>4
<1>12. CASE StoreDecision(t)
  <2>1. OneObject'
    BY <1>0, <1>12 DEF StoreDecision, OneObject, Asked
  <2>2. Recorded'
    <3>1. obj[t] = games /\ games \in Objects /\ UNCHANGED <<games, line, told>> /\ row' = line[games]
      BY <1>0, <1>12 DEF StoreDecision, TypeInv, TypeOK
    <3> QED BY <3>1, SavedOn DEF TypeInv
  <2>3. Drafts'
    BY <1>0, <1>12 DEF StoreDecision, Drafts
  <2>4. LastTurn'
    BY <1>0, <1>12 DEF StoreDecision, LastTurn, Pending
  <2> QED BY <2>1, <2>2, <2>3, <2>4
<1> QED BY <1>1, <1>2, <1>3, <1>4, <1>5, <1>6, <1>7, <1>8, <1>9, <1>10, <1>11, <1>12 DEF ProgressGame

\* A player's turn is not the loop's: while the submit is at it the line stands.
LEMMA SubmitPlaysOn ==
  ASSUME GameAssumption, TypeInv, LockTypes, Lasting, PlayParts, ~ended',
         \A v, w \in Submits : v = w, NEW t \in Threads, t \in Submits, Submit(t)
  PROVE  PlayParts'
<1> USE DEF PlayParts, memory, locking, books, Goto, Done,
        GetGame, SetGame, SaveGame, GetGameLock, Acquire, Release
<1>0. /\ \A u \in Threads : pc[t] \in Holding /\ pc[u] \in Holding => u = t
      /\ pc \in [Threads -> Places] /\ obj \in [Threads -> Objects \cup {None}]
      /\ draft \in [Threads -> Lines] /\ line \in [Objects -> Lines] /\ None \notin Objects
      /\ games \in Objects \cup {None}
      /\ obj[t] # None /\ pc[t] # "publish" => obj[t] = games
      /\ Leaves \subseteq Threads /\ late \in [Leaves -> Nat]
      /\ sweeping => ~(pc[t] \in Asked) /\ (pc[t] # "idle" => fresh)
  BY DEF SweepIsAlone, Threads, TypeInv, TypeOK, Lasting, OneLock, OneObject, Objects, GameAssumption
<1>20. games = None => \A u \in Threads :
        /\ pc[u] \notin {"run", "save", "ask", "play", "put", "store", "act", "write", "keep", "flag"}
        /\ pc[u] # "publish" => obj[u] = None
  BY DEF TypeInv, TypeOK, OneObject, Objects, GameAssumption
<1> USE DEF Places, LoopPlaces, Holding
<1>1. CASE SubmitValidates(t)
  <2>1. OneObject'
    BY <1>0, <1>1 DEF SubmitValidates, OneObject, Asked
  <2>2. Recorded'
    BY <1>0, <1>1 DEF SubmitValidates, Recorded
  <2>3. Drafts'
    BY <1>0, <1>1 DEF SubmitValidates, Drafts
  <2>4. LastTurn'
    BY <1>0, <1>1 DEF SubmitValidates, LastTurn, Pending
  <2> QED BY <2>1, <2>2, <2>3, <2>4
<1>2. ASSUME NEW c \in Moves, SubmitPlays(t, c) PROVE PlayParts'
  <2>1. OneObject'
    BY <1>0, <1>2 DEF SubmitPlays, OneObject, Asked
  <2>2. Recorded'
    BY <1>0, <1>2 DEF SubmitPlays, Recorded
  <2>3. Drafts'
    <3>1. /\ obj[t] = games /\ pc[t] = "act" /\ UNCHANGED <<games, line>>
          /\ draft' = [draft EXCEPT ![t] = Append(line[games], c)]
          /\ pc' = [pc EXCEPT ![t] = "write"] /\ Next_(line[games]) = "human"
      BY <1>0, <1>2 DEF SubmitPlays, TypeInv, TypeOK, Drafts
    <3>2. pc'[t] = "write" /\ draft'[t] = Append(line[games], c)
      BY <1>0, <3>1
    <3>3. \A u \in Threads \ {t} : pc'[u] = pc[u] /\ draft'[u] = draft[u]
      BY <1>0, <3>1
    <3> QED BY <3>1, <3>2, <3>3 DEF Drafts
  <2>4. LastTurn'
    BY <1>0, <1>2 DEF SubmitPlays, LastTurn, Pending
  <2> QED BY <2>1, <2>2, <2>3, <2>4
<1>3. CASE SubmitPuts(t)
  <2>1. OneObject'
    <3>1. obj[t] = games /\ games' = games /\ games \in Objects
      BY <1>0, <1>3 DEF SubmitPuts, TypeInv, TypeOK
    <3>2. \A u \in Threads : pc[u] # "publish"
      BY <3>1 DEF OneObject, Objects, GameAssumption
    <3>3. pc' = [pc EXCEPT ![t] = "keep"] /\ pc[t] = "write" /\ UNCHANGED <<obj, sweeping>> /\ fresh'
      BY <1>0, <1>3 DEF SubmitPuts
    <3> QED BY <1>0, <3>1, <3>2, <3>3 DEF OneObject
  <2>2. Recorded'
    <3>1. /\ games \in Objects /\ obj[t] = games /\ line[games] \in Lines
          /\ games' = games /\ line'[games] = draft[t] /\ UNCHANGED <<row, told>>
          /\ Next_(line[games]) = "human"
      BY <1>0, <1>3 DEF SubmitPuts, TypeInv, TypeOK, Drafts
    <3>2. PICK c \in Moves : draft[t] = Append(line[games], c)
      BY <1>3 DEF SubmitPuts, Drafts
    <3>3. row \in Lines /\ InTurn(line[games]) /\ Begins(row, line[games])
      BY <3>1, <1>0 DEF Recorded, TypeInv, TypeOK
    <3>4. InTurn(draft[t]) /\ Begins(row, draft[t])
      BY <3>1, <3>2, <3>3, TurnsGrow, BeginsOn
    <3> QED BY <3>1, <3>4, Zenon DEF Recorded
  <2>3. Drafts'
    <3>1. /\ games \in Objects /\ obj[t] = games /\ line[games] \in Lines /\ pc[t] = "write"
          /\ games' = games /\ line'[games] = draft[t] /\ UNCHANGED draft
          /\ Next_(line[games]) = "human" /\ pc' = [pc EXCEPT ![t] = "keep"]
      BY <1>0, <1>3 DEF SubmitPuts, TypeInv, TypeOK, Drafts
    <3>2. PICK c \in Moves : draft[t] = Append(line[games], c)
      BY <1>3 DEF SubmitPuts, Drafts
    <3>3. draft[t] \in Lines /\ Begins(draft[t], draft[t])
      BY <1>0, BeginsSelf
    <3>4. ASSUME NEW u \in Threads, u # t
          PROVE  /\ pc'[u] = pc[u] /\ pc[u] \notin {"ask", "play", "put", "act", "write", "keep"}
                 /\ pc[u] = "save" => Next_(draft[u]) # "ai"
      BY <1>0, <3>1, <3>4 DEF Drafts, OneObject
    <3>5. pc'[t] = "keep"
      BY <1>0, <3>1
    <3> QED BY <1>0, <3>1, <3>3, <3>4, <3>5 DEF Drafts
  <2>4. LastTurn'
    <3>1. obj[t] = games /\ games' = games /\ pc' = [pc EXCEPT ![t] = "keep"] /\ UNCHANGED <<late, leaving, obj>>
      BY <1>0, <1>3 DEF SubmitPuts, TypeInv, TypeOK
    <3>2. pc[t] = "write" /\ Pending' = Pending
      BY <1>0, <1>3, <3>1 DEF SubmitPuts, Pending
    <3>3. \A u \in Threads : pc'[u] \in {"run", "save", "ask", "play", "put"} => pc'[u] = pc[u]
      BY <1>0, <3>1
    <3> QED BY <3>1, <3>2, <3>3 DEF LastTurn
  <2> QED BY <2>1, <2>2, <2>3, <2>4
<1>4. CASE SubmitSaves(t)
  <2>1. OneObject'
    <3>1. /\ pc[t] = "keep" /\ pc' = [pc EXCEPT ![t] = "lock"] /\ obj' = [obj EXCEPT ![t] = None]
          /\ UNCHANGED <<games, line, sweeping, fresh>> /\ row' = line[games] /\ games \in Objects
      BY <1>0, <1>4 DEF SubmitSaves, TypeInv, TypeOK
    <3>2. \A u \in Threads : pc[u] # "publish"
      BY <3>1, <1>0 DEF OneObject
    <3> QED BY <1>0, <3>1, <3>2 DEF OneObject
  <2>2. Recorded'
    <3> DEFINE d == <<Len(draft[t]), Last(draft[t])>>
    <3>1. /\ obj[t] = games /\ games \in Objects /\ UNCHANGED <<games, line>>
          /\ row' = line[games] /\ told' = told \cup {d} /\ draft[t] \in Lines
          /\ Begins(draft[t], line[games]) /\ draft[t] # <<>>
      BY <1>0, <1>4 DEF SubmitSaves, TypeInv, TypeOK, Drafts
    <3>2. /\ row \in Lines /\ line[games] \in Lines /\ InTurn(line[games]) /\ Begins(row, line[games])
          /\ told \subseteq (1..Horizon) \X Moves
      BY <1>0, <3>1 DEF Recorded, TypeInv, TypeOK
    <3>3. \A e \in told : Stands(e, line[games])
      BY <3>2, StandsOn DEF Recorded
    <3>4. Stands(d, line[games])
      <4>1. Len(draft[t]) \in 1..Len(draft[t])
        BY <3>1, LineIsSeq, EmptySeq
      <4> QED BY <3>1, <4>1 DEF Begins, Stands, Last
    <3>5. Begins(line[games], line[games])
      BY <3>2, BeginsSelf
    <3> HIDE DEF d
    <3> QED BY <3>1, <3>2, <3>3, <3>4, <3>5 DEF Recorded
  <2>3. Drafts'
    BY <1>0, <1>4 DEF SubmitSaves, Drafts
  <2>4. LastTurn'
    BY <1>0, <1>4 DEF SubmitSaves, LastTurn, Pending
  <2> QED BY <2>1, <2>2, <2>3, <2>4
<1> QED BY <1>1, <1>2, <1>3, <1>4 DEF Submit

\* The triggers write back at most what is there.
LEMMA OtherPlays ==
  ASSUME GameAssumption, TypeInv, LockTypes, Lasting, PlayParts, ~ended',
         NEW t \in Threads, Trigger(t) \/ Join(t) \/ ForwardFetches(t) \/ ForwardSets(t)
  PROVE  PlayParts'
<1> USE DEF PlayParts, memory, locking, books, Goto, Done,
        GetGame, SetGame, SaveGame, GetGameLock, Acquire, Release
<1>0. /\ \A u \in Threads : pc[t] \in Holding /\ pc[u] \in Holding => u = t
      /\ pc \in [Threads -> Places] /\ obj \in [Threads -> Objects \cup {None}]
      /\ draft \in [Threads -> Lines] /\ line \in [Objects -> Lines] /\ None \notin Objects
      /\ games \in Objects \cup {None}
      /\ obj[t] # None /\ pc[t] # "publish" => obj[t] = games
      /\ Leaves \subseteq Threads /\ late \in [Leaves -> Nat]
      /\ sweeping => ~(pc[t] \in Asked) /\ (pc[t] # "idle" => fresh)
  BY DEF SweepIsAlone, Threads, TypeInv, TypeOK, Lasting, OneLock, OneObject, Objects, GameAssumption
<1>20. games = None => \A u \in Threads :
        /\ pc[u] \notin {"run", "save", "ask", "play", "put", "store", "act", "write", "keep", "flag"}
        /\ pc[u] # "publish" => obj[u] = None
  BY DEF TypeInv, TypeOK, OneObject, Objects, GameAssumption
<1> USE DEF Places, LoopPlaces, Holding
<1>1. CASE Trigger(t)
  <2>1. OneObject'
    BY <1>0, <1>1 DEF Trigger, OneObject, Asked
  <2>2. Recorded'
    BY <1>0, <1>1 DEF Trigger, Recorded
  <2>3. Drafts'
    BY <1>0, <1>1 DEF Trigger, Drafts
  <2>4. LastTurn'
    BY <1>0, <1>1 DEF Trigger, LastTurn, Pending
  <2> QED BY <2>1, <2>2, <2>3, <2>4
<1>2. CASE Join(t)
  <2>1. OneObject'
    BY <1>0, <1>2 DEF Join, OneObject, Asked
  <2>2. Recorded'
    BY <1>0, <1>2 DEF Join, Recorded
  <2>3. Drafts'
    BY <1>0, <1>2 DEF Join, Drafts
  <2>4. LastTurn'
    BY <1>0, <1>2 DEF Join, LastTurn, Pending
  <2> QED BY <2>1, <2>2, <2>3, <2>4
<1>3. CASE ForwardFetches(t)
  <2>1. OneObject'
    BY <1>0, <1>3 DEF ForwardFetches, OneObject, Asked
  <2>2. Recorded'
    BY <1>0, <1>3 DEF ForwardFetches, Recorded
  <2>3. Drafts'
    BY <1>0, <1>3 DEF ForwardFetches, Drafts
  <2>4. LastTurn'
    BY <1>0, <1>3 DEF ForwardFetches, LastTurn, Pending
  <2> QED BY <2>1, <2>2, <2>3, <2>4
<1>4. CASE ForwardSets(t)
  <2>1. OneObject'
    <3>1. /\ obj[t] = games /\ games' = games /\ pc' = [pc EXCEPT ![t] = "lock"] /\ games # None
          /\ obj' = [obj EXCEPT ![t] = None] /\ fresh' /\ UNCHANGED <<line, row, told, draft, late, leaving, sweeping>>
      BY <1>0, <1>4 DEF ForwardSets, TypeInv, TypeOK
    <3> QED BY <1>0, <3>1 DEF OneObject
  <2>2. Recorded'
    <3>1. /\ obj[t] = games /\ games' = games /\ pc' = [pc EXCEPT ![t] = "lock"] /\ games # None
          /\ obj' = [obj EXCEPT ![t] = None] /\ fresh' /\ UNCHANGED <<line, row, told, draft, late, leaving, sweeping>>
      BY <1>0, <1>4 DEF ForwardSets, TypeInv, TypeOK
    <3> QED BY <1>0, <3>1 DEF Recorded
  <2>3. Drafts'
    <3>1. /\ obj[t] = games /\ games' = games /\ pc' = [pc EXCEPT ![t] = "lock"] /\ games # None
          /\ obj' = [obj EXCEPT ![t] = None] /\ fresh' /\ UNCHANGED <<line, row, told, draft, late, leaving, sweeping>>
      BY <1>0, <1>4 DEF ForwardSets, TypeInv, TypeOK
    <3> QED BY <1>0, <3>1 DEF Drafts
  <2>4. LastTurn'
    <3>1. /\ obj[t] = games /\ games' = games /\ pc' = [pc EXCEPT ![t] = "lock"] /\ games # None
          /\ obj' = [obj EXCEPT ![t] = None] /\ fresh' /\ UNCHANGED <<line, row, told, draft, late, leaving, sweeping>>
      BY <1>0, <1>4 DEF ForwardSets, TypeInv, TypeOK
    <3>2. pc[t] = "flag" /\ t \notin Pending /\ Pending' = Pending
      BY <1>0, <1>4, <3>1 DEF ForwardSets, Pending
    <3>3. \A u \in Threads : pc'[u] \in {"run", "save", "ask", "play", "put"} => pc'[u] = pc[u]
      BY <1>0, <3>1
    <3>4. \A l \in Pending : obj'[l] = obj[l]
      BY <1>0, <3>1, <3>2 DEF Pending
    <3> QED BY <3>1, <3>2, <3>3, <3>4 DEF LastTurn
  <2> QED BY <2>1, <2>2, <2>3, <2>4
<1> QED BY <1>1, <1>2, <1>3, <1>4

\* A cold load reads the row under the lock, with no other object about.
LEMMA GetPlays ==
  ASSUME GameAssumption, TypeInv, LockTypes, Lasting, PlayParts, ~ended',
         NEW t \in Threads, Get(t)
  PROVE  PlayParts'
<1> USE DEF PlayParts, memory, locking, books, Goto, Done,
        GetGame, SetGame, SaveGame, GetGameLock, Acquire, Release
<1>0. /\ \A u \in Threads : pc[t] \in Holding /\ pc[u] \in Holding => u = t
      /\ pc \in [Threads -> Places] /\ obj \in [Threads -> Objects \cup {None}]
      /\ draft \in [Threads -> Lines] /\ line \in [Objects -> Lines] /\ None \notin Objects
      /\ games \in Objects \cup {None}
      /\ obj[t] # None /\ pc[t] # "publish" => obj[t] = games
      /\ Leaves \subseteq Threads /\ late \in [Leaves -> Nat]
      /\ sweeping => ~(pc[t] \in Asked) /\ (pc[t] # "idle" => fresh)
  BY DEF SweepIsAlone, Threads, TypeInv, TypeOK, Lasting, OneLock, OneObject, Objects, GameAssumption
<1>20. games = None => \A u \in Threads :
        /\ pc[u] \notin {"run", "save", "ask", "play", "put", "store", "act", "write", "keep", "flag"}
        /\ pc[u] # "publish" => obj[u] = None
  BY DEF TypeInv, TypeOK, OneObject, Objects, GameAssumption
<1> USE DEF Places, LoopPlaces, Holding
<1>1. CASE GetCached(t)
  <2>1. OneObject'
    BY <1>0, <1>1 DEF GetCached, OneObject, Asked
  <2>2. Recorded'
    BY <1>0, <1>1 DEF GetCached, Recorded
  <2>3. Drafts'
    BY <1>0, <1>1 DEF GetCached, Drafts
  <2>4. LastTurn'
    BY <1>0, <1>1 DEF GetCached, LastTurn, Pending
  <2> QED BY <2>1, <2>2, <2>3, <2>4
<1>2. CASE GetMisses(t)
  <2>1. OneObject'
    BY <1>0, <1>2 DEF GetMisses, OneObject, Asked
  <2>2. Recorded'
    BY <1>0, <1>2 DEF GetMisses, Recorded
  <2>3. Drafts'
    BY <1>0, <1>2 DEF GetMisses, Drafts
  <2>4. LastTurn'
    BY <1>0, <1>2 DEF GetMisses, LastTurn, Pending
  <2> QED BY <2>1, <2>2, <2>3, <2>4
<1>3. CASE ColdLock(t)
  <2>1. OneObject'
    BY <1>0, <1>3 DEF ColdLock, OneObject, Asked
  <2>2. Recorded'
    BY <1>0, <1>3 DEF ColdLock, Recorded
  <2>3. Drafts'
    BY <1>0, <1>3 DEF ColdLock, Drafts
  <2>4. LastTurn'
    BY <1>0, <1>3 DEF ColdLock, LastTurn, Pending
  <2> QED BY <2>1, <2>2, <2>3, <2>4
<1>4. CASE ColdAcquire(t)
  <2>1. OneObject'
    BY <1>0, <1>4 DEF ColdAcquire, OneObject, Asked
  <2>2. Recorded'
    BY <1>0, <1>4 DEF ColdAcquire, Recorded
  <2>3. Drafts'
    BY <1>0, <1>4 DEF ColdAcquire, Drafts
  <2>4. LastTurn'
    BY <1>0, <1>4 DEF ColdAcquire, LastTurn, Pending
  <2> QED BY <2>1, <2>2, <2>3, <2>4
<1>5. CASE ColdIsWarm(t)
  <2>1. OneObject'
    BY <1>0, <1>5 DEF ColdIsWarm, OneObject, Asked
  <2>2. Recorded'
    BY <1>0, <1>5 DEF ColdIsWarm, Recorded
  <2>3. Drafts'
    BY <1>0, <1>5 DEF ColdIsWarm, Drafts
  <2>4. LastTurn'
    BY <1>0, <1>5 DEF ColdIsWarm, LastTurn, Pending
  <2> QED BY <2>1, <2>2, <2>3, <2>4
<1>6. CASE ColdLoads(t)
  <2>1. OneObject'
    <3>1. PICK o \in Objects : LoadsInto(o) /\ obj' = [obj EXCEPT ![t] = o]
      BY <1>6 DEF ColdLoads, Unheld
    <3>2. pc[t] = "cold" /\ games = None /\ games' = None /\ pc' = [pc EXCEPT ![t] = "publish"] /\ row' = row
          /\ sweeping' = sweeping
      BY <1>6 DEF ColdLoads
    <3>3. \A u \in Threads \ {t} : pc'[u] = pc[u] /\ pc[u] # "publish" /\ obj'[u] = None
      BY <1>0, <1>20, <3>1, <3>2
    <3>4. pc'[t] = "publish" /\ line'[obj'[t]] = row
      BY <1>0, <3>1, <3>2 DEF LoadsInto
    <3> QED BY <3>2, <3>3, <3>4 DEF OneObject
  <2>2. Recorded'
    BY <1>0, <1>6 DEF ColdLoads, Recorded
  <2>3. Drafts'
    BY <1>0, <1>20, <1>6 DEF ColdLoads, Drafts
  <2>4. LastTurn'
    <3>1. UNCHANGED late /\ Pending' = Pending /\ t \notin Pending /\ \A u \in Threads \ {t} : obj'[u] = obj[u]
      BY <1>0, <1>6 DEF ColdLoads, Pending
    <3>2. \A l \in Pending : obj'[l] = None
      BY <1>0, <1>20, <1>6, <3>1 DEF ColdLoads, Pending
    <3> QED BY <3>1, <3>2 DEF LastTurn
  <2> QED BY <2>1, <2>2, <2>3, <2>4
<1>7. CASE ColdPublishes(t)
  <2>1. OneObject'
    BY <1>0, <1>7 DEF ColdPublishes, OneObject, Asked
  <2>2. Recorded'
    <3>1. /\ games' = obj[t] /\ line[obj[t]] = row /\ UNCHANGED <<line, row, told>>
      BY <1>0, <1>7 DEF ColdPublishes, OneObject
    <3>2. row \in Lines /\ InTurn(row) /\ Begins(row, row)
      BY BeginsSelf DEF Recorded
    <3> QED BY <3>1, <3>2, Zenon DEF Recorded
  <2>3. Drafts'
    <3>1. games = None /\ pc[t] = "publish"
      BY <1>7 DEF ColdPublishes, OneObject
    <3>2. pc'[t] \in {"lock", "idle"} /\ \A u \in Threads \ {t} : pc'[u] = pc[u]
      BY <1>0, <1>7 DEF ColdPublishes
    <3> QED BY <1>20, <3>1, <3>2 DEF Drafts
  <2>4. LastTurn'
    <3>1. UNCHANGED late /\ Pending' = Pending /\ t \notin Pending /\ \A u \in Threads \ {t} : obj'[u] = obj[u]
      BY <1>0, <1>7 DEF ColdPublishes, Pending
    <3>2. games = None
      BY <1>7 DEF ColdPublishes, OneObject
    <3>3. \A l \in Pending : obj'[l] = None
      BY <1>0, <1>20, <3>1, <3>2 DEF Pending
    <3> QED BY <3>1, <3>3 DEF LastTurn
  <2> QED BY <2>1, <2>2, <2>3, <2>4
<1> QED BY <1>1, <1>2, <1>3, <1>4, <1>5, <1>6, <1>7 DEF Get

\* A leave that has not paid yet changes nothing that was played.
LEMMA LeavePlays ==
  ASSUME GameAssumption, TypeInv, LockTypes, Lasting, PlayParts, ~ended',
         NEW t \in Threads, Leave(t)
  PROVE  PlayParts'
<1> USE DEF PlayParts, memory, locking, books, Goto, Done,
        GetGame, SetGame, SaveGame, GetGameLock, Acquire, Release
<1>0. /\ \A u \in Threads : pc[t] \in Holding /\ pc[u] \in Holding => u = t
      /\ pc \in [Threads -> Places] /\ obj \in [Threads -> Objects \cup {None}]
      /\ draft \in [Threads -> Lines] /\ line \in [Objects -> Lines] /\ None \notin Objects
      /\ games \in Objects \cup {None}
      /\ obj[t] # None /\ pc[t] # "publish" => obj[t] = games
      /\ Leaves \subseteq Threads /\ late \in [Leaves -> Nat]
      /\ sweeping => ~(pc[t] \in Asked) /\ (pc[t] # "idle" => fresh)
  BY DEF SweepIsAlone, Threads, TypeInv, TypeOK, Lasting, OneLock, OneObject, Objects, GameAssumption
<1>20. games = None => \A u \in Threads :
        /\ pc[u] \notin {"run", "save", "ask", "play", "put", "store", "act", "write", "keep", "flag"}
        /\ pc[u] # "publish" => obj[u] = None
  BY DEF TypeInv, TypeOK, OneObject, Objects, GameAssumption
<1> USE DEF Places, LoopPlaces, Holding
<1>1. CASE LeaveAsks(t)
  <2>1. OneObject'
    BY <1>0, <1>1 DEF LeaveAsks, OneObject, Asked
  <2>2. Recorded'
    BY <1>0, <1>1 DEF LeaveAsks, Recorded
  <2>3. Drafts'
    BY <1>0, <1>1 DEF LeaveAsks, Drafts
  <2>4. LastTurn'
    BY <1>0, <1>1 DEF LeaveAsks, LastTurn, Pending
  <2> QED BY <2>1, <2>2, <2>3, <2>4
<1>2. CASE LeaveLock(t)
  <2>1. OneObject'
    BY <1>0, <1>2 DEF LeaveLock, OneObject, Asked
  <2>2. Recorded'
    BY <1>0, <1>2 DEF LeaveLock, Recorded
  <2>3. Drafts'
    BY <1>0, <1>2 DEF LeaveLock, Drafts
  <2>4. LastTurn'
    BY <1>0, <1>2 DEF LeaveLock, LastTurn, Pending
  <2> QED BY <2>1, <2>2, <2>3, <2>4
<1>3. CASE LeaveAcquires(t)
  <2>1. OneObject'
    BY <1>0, <1>3 DEF LeaveAcquires, OneObject, Asked
  <2>2. Recorded'
    BY <1>0, <1>3 DEF LeaveAcquires, Recorded
  <2>3. Drafts'
    BY <1>0, <1>3 DEF LeaveAcquires, Drafts
  <2>4. LastTurn'
    BY <1>0, <1>3 DEF LeaveAcquires, LastTurn, Pending
  <2> QED BY <2>1, <2>2, <2>3, <2>4
<1>4. CASE LeaveIsLate(t)
  <2>1. OneObject'
    BY <1>0, <1>4 DEF LeaveIsLate, OneObject, Asked
  <2>2. Recorded'
    BY <1>0, <1>4 DEF LeaveIsLate, Recorded
  <2>3. Drafts'
    BY <1>0, <1>4 DEF LeaveIsLate, Drafts
  <2>4. LastTurn'
    BY <1>0, <1>4 DEF LeaveIsLate, LastTurn, Pending
  <2> QED BY <2>1, <2>2, <2>3, <2>4
<1>5. CASE LeaveReads(t)
  <2>1. OneObject'
    BY <1>0, <1>5 DEF LeaveReads, OneObject, Asked
  <2>2. Recorded'
    BY <1>0, <1>5 DEF LeaveReads, Recorded
  <2>3. Drafts'
    BY <1>0, <1>5 DEF LeaveReads, Drafts
  <2>4. LastTurn'
    BY <1>0, <1>5 DEF LeaveReads, LastTurn, Pending
  <2> QED BY <2>1, <2>2, <2>3, <2>4
<1>6. CASE LeaveWarms(t)
  <2>1. OneObject'
    <3>1. PICK o \in Objects : LoadsInto(o) /\ games' = o
      BY <1>6 DEF LeaveWarms, Unheld
    <3>2. pc[t] = "settle" /\ games = None /\ pc' = [pc EXCEPT ![t] = "pay"] /\ UNCHANGED <<row, obj, sweeping>>
      BY <1>6 DEF LeaveWarms
    <3>3. \A u \in Threads : pc'[u] # "publish" /\ obj[u] = None
      BY <1>0, <1>20, <3>2
    <3> QED BY <1>0, <1>20, <3>2, <3>3 DEF OneObject
  <2>2. Recorded'
    <3>1. PICK o \in Objects : LoadsInto(o) /\ games' = o
      BY <1>6 DEF LeaveWarms, Unheld
    <3>2. line'[games'] = row /\ UNCHANGED <<row, told>>
      BY <1>0, <1>6, <3>1 DEF LeaveWarms, LoadsInto
    <3>3. row \in Lines /\ InTurn(row) /\ Begins(row, row)
      BY BeginsSelf DEF Recorded
    <3> QED BY <3>2, <3>3, Zenon DEF Recorded
  <2>3. Drafts'
    BY <1>0, <1>20, <1>6 DEF LeaveWarms, Drafts
  <2>4. LastTurn'
    <3>1. UNCHANGED <<late, obj>> /\ Pending' = Pending
      BY <1>0, <1>6 DEF LeaveWarms, Pending
    <3>2. \A l \in Pending : obj'[l] = None
      BY <1>0, <1>20, <1>6, <3>1 DEF LeaveWarms, Pending
    <3> QED BY <3>1, <3>2 DEF LastTurn
  <2> QED BY <2>1, <2>2, <2>3, <2>4
<1>7. CASE LeaveFindsNothing(t)
  <2>1. OneObject'
    BY <1>0, <1>7 DEF LeaveFindsNothing, OneObject, Asked
  <2>2. Recorded'
    BY <1>0, <1>7 DEF LeaveFindsNothing, Recorded
  <2>3. Drafts'
    BY <1>0, <1>7 DEF LeaveFindsNothing, Drafts
  <2>4. LastTurn'
    BY <1>0, <1>7 DEF LeaveFindsNothing, LastTurn, Pending
  <2> QED BY <2>1, <2>2, <2>3, <2>4
<1>8. CASE LeavePays(t)
  <2>1. OneObject'
    BY <1>0, <1>8 DEF LeavePays, OneObject, Asked
  <2>2. Recorded'
    BY <1>0, <1>8 DEF LeavePays, Recorded
  <2>3. Drafts'
    BY <1>0, <1>8 DEF LeavePays, Drafts
  <2>4. LastTurn'
    BY <1>0, <1>8 DEF LeavePays, LastTurn, Pending
  <2> QED BY <2>1, <2>2, <2>3, <2>4
<1>9. CASE LeaveStamps(t)
  BY <1>9 DEF LeaveStamps
<1>10. CASE LeaveUnloads(t)
  <2>1. OneObject'
    BY <1>10 DEF LeaveUnloads, Lasting
  <2>2. Recorded'
    BY <1>10 DEF LeaveUnloads, Lasting
  <2>3. Drafts'
    BY <1>10 DEF LeaveUnloads, Lasting
  <2>4. LastTurn'
    BY <1>10 DEF LeaveUnloads, Lasting
  <2> QED BY <2>1, <2>2, <2>3, <2>4
<1>11. CASE LeaveDeletesRow(t)
  <2>1. OneObject'
    BY <1>11 DEF LeaveDeletesRow, Lasting
  <2>2. Recorded'
    BY <1>11 DEF LeaveDeletesRow, Lasting
  <2>3. Drafts'
    BY <1>11 DEF LeaveDeletesRow, Lasting
  <2>4. LastTurn'
    BY <1>11 DEF LeaveDeletesRow, Lasting
  <2> QED BY <2>1, <2>2, <2>3, <2>4
<1> QED BY <1>1, <1>2, <1>3, <1>4, <1>5, <1>6, <1>7, <1>8, <1>9, <1>10, <1>11 DEF Leave

\* No thread is the cleanup, and a session that ended stays ended.
LEMMA ThreadRacesNot ==
  ASSUME NEW t \in Threads, ProgressGame(t) \/ Request(t)
  PROVE  raced' = raced /\ (ended => ended')
<1> USE DEF books, memory, locking
<1>1. ASSUME ProgressGame(t) PROVE UNCHANGED <<raced, ended>>
  BY <1>1 DEF ProgressGame, ProgressLock, ProgressSkipped, ProgressAcquired, LoopBegins, LoopGivesUp,
     LoopRuns, LoopSaves, LoopYields, AskController, PlayDecision, PutDecision, StoreDecision
<1>2. ASSUME Submit(t) PROVE UNCHANGED <<raced, ended>>
  BY <1>2 DEF Submit, SubmitValidates, SubmitPlays, SubmitPuts, SubmitSaves
<1>3. ASSUME Get(t) PROVE UNCHANGED <<raced, ended>>
  BY <1>3 DEF Get, GetCached, GetMisses, ColdLock, ColdAcquire, ColdIsWarm, ColdLoads, ColdPublishes
<1>4. ASSUME Trigger(t) \/ Join(t) \/ ForwardFetches(t) \/ ForwardSets(t) \/ Retry(t) \/ Delete(t)
      PROVE  UNCHANGED <<raced, ended>>
  BY <1>4 DEF Trigger, Join, ForwardFetches, ForwardSets, Retry, Delete, DeleteFromMemory, DeleteRow
<1>5. ASSUME Leave(t) PROVE raced' = raced /\ (ended => ended')
  BY <1>5 DEF Leave, LeaveAsks, LeaveLock, LeaveAcquires, LeaveIsLate, LeaveReads, LeaveWarms,
     LeaveFindsNothing, LeavePays, LeaveStamps, LeaveUnloads, LeaveDeletesRow
<1> QED BY <1>1, <1>2, <1>3, <1>4, <1>5 DEF Request

\* A game that is stale and whose lock is free has no thread under way; what the
\* cleanup and a crash leave behind is the row.
LEMMA ServerPlays ==
  ASSUME GameAssumption, TypeInv, LockTypes, Lasting, PlayParts, Cleanup \/ Crash, ~raced'
  PROVE  PlayParts'
<1> USE DEF PlayParts, memory, locking, books
<1>1. CASE TimePasses
  <2>1. UNCHANGED <<games, line, leaving, row, sweeping, pc, obj, draft, told, late>>
    BY <1>1 DEF TimePasses
  <2>2. sweeping => \A t \in Threads : pc[t] = "idle"
    BY <1>1 DEF TimePasses, Waiting, Lasting, SweepIsAlone, Asked, Holding, LoopPlaces
  <2> QED BY <2>1, <2>2 DEF OneObject, Recorded, Drafts, LastTurn, Pending
<1>2. CASE CleanupChecks
  <2>1. \A t \in Threads : pc[t] = "idle"
    <3>1. \A t \in Threads : pc[t] \in {"idle", "play", "put"}
      BY <1>2 DEF CleanupChecks, Lasting, StaleIsQuiet
    <3>2. ASSUME NEW t \in Threads, pc[t] \in {"play", "put"} PROVE FALSE
      <4>1. pc[t] \in Holding /\ pc[t] \in Asked
        BY <3>2 DEF Holding, Asked, LoopPlaces
      <4>2. lk[t] = lockOf /\ lk[t] \in held /\ lk[t] # None
        BY <4>1 DEF Lasting, OneLock, LockTypes
      <4> QED BY <1>2, <4>2 DEF CleanupChecks
    <3> QED BY <3>1, <3>2
  <2>2. games # None /\ UNCHANGED <<games, line, leaving, row, pc, obj, draft, told, late>>
    BY <1>2 DEF CleanupChecks
  <2> QED BY <2>1, <2>2 DEF OneObject, Recorded, Drafts, LastTurn, Pending
<1>3. CASE CleanupPops
  <2>1. \A t \in Threads : pc[t] = "idle" /\ obj[t] = None
    BY <1>3 DEF CleanupPops, OneObject
  <2>2. games' = None /\ ~sweeping' /\ UNCHANGED <<line, leaving, row, pc, obj, draft, told, late>>
    BY <1>3 DEF CleanupPops
  <2>3. Pending = {} /\ Pending' = {}
    BY <2>1, <2>2 DEF Pending, Threads
  <2> QED BY <2>1, <2>2, <2>3 DEF OneObject, Recorded, Drafts, LastTurn
<1>4. CASE Crash
  <2>1. /\ \A t \in Threads : pc'[t] = "idle" /\ obj'[t] = None
        /\ games' = None /\ ~sweeping' /\ UNCHANGED <<row, told>>
        /\ late' = [t \in Leaves |-> 0]
    BY <1>4 DEF Crash
  <2>2. Pending' = {}
    BY <2>1 DEF Pending, Threads
  <2>3. LastTurn'
    BY <2>1, <2>2 DEF LastTurn
  <2> QED BY <2>1, <2>3 DEF OneObject, Recorded, Drafts
<1> QED BY <1>1, <1>2, <1>3, <1>4 DEF Cleanup

\* A game starts with a row that was played in turn.
LEMMA PlayStart ==
  ASSUME GameAssumption, \A l \in Starts : InTurn(l), Init
  PROVE  PlayInv
<1>1. /\ games = 1 /\ row \in Starts /\ 1 \in Objects /\ line[1] = row
      /\ told = {} /\ late = [t \in Leaves |-> 0] /\ sweeping = FALSE
      /\ \A t \in Threads : pc[t] = "idle" /\ obj[t] = None
  BY DEF Init, Objects, GameAssumption
<1>2. row \in Lines /\ InTurn(row) /\ Begins(row, row)
  BY <1>1, LineIsSeq, BeginsSelf
<1>3. OneObject
  BY <1>1 DEF OneObject
<1>4. Recorded
  BY <1>1, <1>2, Zenon DEF Recorded
<1>5. Drafts /\ LastTurn
  <2>1. Pending = {}
    BY <1>1 DEF Pending, Threads
  <2> QED BY <1>1, <2>1 DEF Drafts, LastTurn
<1> QED BY <1>3, <1>4, <1>5 DEF PlayInv

\* Every step of a session that lasts keeps the invariant of the play.
LEMMA PlayStep ==
  ASSUME GameAssumption, Retries = {}, Deletes = {}, \A v, w \in Submits : v = w,
         TypeInv, SessionInv, PlayInv, [Next]_vars
  PROVE  PlayInv'
<1> SUFFICES ASSUME ~ended', ~raced' PROVE PlayParts'
  BY DEF PlayInv, PlayParts
<1>1. ASSUME NEW t \in Threads, ProgressGame(t) \/ Request(t), vars' # vars PROVE PlayParts'
  <2>1. ~raced /\ ~ended
    BY <1>1, ThreadRacesNot
  <2>2. LockTypes /\ Lasting /\ PlayParts
    BY <1>1, <2>1 DEF SessionInv, PlayInv, PlayParts
  <2>3. CASE ProgressGame(t)
    BY <2>2, <2>3, ProgressPlays
  <2>4. CASE t \in Submits /\ Submit(t)
    BY <2>2, <2>4, SubmitPlaysOn
  <2>5. CASE Trigger(t) \/ Join(t) \/ ForwardFetches(t) \/ ForwardSets(t)
    BY <2>2, <2>5, OtherPlays
  <2>6. CASE Get(t)
    BY <2>2, <2>6, GetPlays
  <2>7. CASE Leave(t)
    BY <2>2, <2>7, LeavePlays
  <2> QED BY <1>1, <2>3, <2>4, <2>5, <2>6, <2>7 DEF Request
<1>2. CASE Cleanup \/ Crash
  <2>1. ended' = ended /\ (raced' = raced \/ raced' = (raced \/ fresh))
    BY <1>2 DEF Cleanup, TimePasses, CleanupChecks, CleanupPops, Crash, books
  <2> QED BY <1>2, <2>1, ServerPlays DEF SessionInv, PlayInv, PlayParts
<1>3. CASE UNCHANGED vars
  BY <1>3 DEF vars, PlayInv, PlayParts, OneObject, Recorded, Drafts, LastTurn, Pending
<1> QED BY <1>1, <1>2, <1>3 DEF Next

\* The invariant of the play holds while the session lasts and no cleanup raced.
THEOREM GamePlayInv ==
  ASSUME GameAssumption, Retries = {}, Deletes = {}, \A v, w \in Submits : v = w,
         \A l \in Starts : InTurn(l)
  PROVE  Spec => []PlayInv
<1>1. Init => TypeInv /\ SessionInv /\ PlayInv
  BY TypeStart, SessionInit, PlayStart
<1>2. TypeInv /\ SessionInv /\ PlayInv /\ [Next]_vars
        => (TypeInv /\ SessionInv /\ PlayInv)'
  BY TypeStep, SessionStep, PlayStep
<1> QED BY <1>1, <1>2, PTL DEF Spec

\* While the session lasts a decision the server confirmed stays in the row and in
\* memory, for any number of triggers, polls, fast-forwards and leaves that meet the
\* player's submit, through evictions, crashes and reloads: the submit saves before
\* it confirms (game_routes.py 2104-2251), and a reload under the lock brings back a
\* row that has it.  ToldStands says itself that no cleanup may have raced with an
\* access between its check and its pops (game_state_service.py 49-66).
THEOREM GameToldStands ==
  ASSUME GameAssumption, Retries = {}, Deletes = {}, \A v, w \in Submits : v = w,
         \A l \in Starts : InTurn(l)
  PROVE  Spec => [](ended \/ ToldStands)
<1>1. TypeOK /\ PlayInv => ended \/ ToldStands
  <2> SUFFICES ASSUME TypeOK, PlayInv, ~ended, ~raced, NEW d \in told
               PROVE  /\ row # None => Len(row) >= d[1] /\ row[d[1]] = d[2]
                      /\ games # None => Len(line[games]) >= d[1] /\ line[games][d[1]] = d[2]
    BY DEF ToldStands
  <2>1. d \in (1..Horizon) \X Moves /\ Recorded /\ row \in Lines /\ Stands(d, row)
    BY DEF TypeOK, PlayInv, Recorded
  <2>2. Horizon \in Nat /\ Len(row) \in Nat
    BY <2>1, LineIsSeq, LenProperties
  <2>3. CASE games = None
    BY <2>1, <2>2, <2>3 DEF Stands
  <2>4. CASE games # None
    <3>1. line[games] \in Lines /\ Begins(row, line[games])
      BY <2>1, <2>4 DEF Recorded, TypeOK
    <3>2. Stands(d, line[games]) /\ Len(line[games]) \in Nat
      BY <2>1, <3>1, StandsOn, LineIsSeq, LenProperties
    <3> QED BY <2>1, <2>2, <3>2 DEF Stands
  <2> QED BY <2>3, <2>4
<1> QED BY <1>1, GamePlayInv, GameTypes, PTL

\* While the session lasts and no cleanup has raced with an access nobody plays
\* another's turn: an AI's answer lands on the turn it was asked for however long it
\* took, for the loop holds the game's lock all along and a submit is refused while it
\* is not the player's turn (game_handler.py 4507-4514, game_routes.py 2104-2135).
THEOREM GameOwnTurns ==
  ASSUME GameAssumption, Retries = {}, Deletes = {}, \A v, w \in Submits : v = w,
         \A l \in Starts : InTurn(l)
  PROVE  Spec => [](ended \/ raced \/ OwnTurns)
<1>1. PlayInv => ended \/ raced \/ OwnTurns
  BY Zenon DEF PlayInv, Recorded, InTurn, OwnTurns
<1> QED BY <1>1, GamePlayInv, PTL

\* While the session lasts, no cleanup having raced with an access, the loop writes at
\* most the turn it is in after a leave asked for the game it found in memory, however
\* many threads compete for it: the head of every iteration looks at leave_requested
\* (game_handler.py 4524-4537), which the leave set on that object (cash_routes.py
\* 4653-4655).  Of a leave that found no game in memory it says nothing.
THEOREM GameLeaveStops ==
  ASSUME GameAssumption, Retries = {}, Deletes = {}, \A v, w \in Submits : v = w,
         \A l \in Starts : InTurn(l)
  PROVE  Spec => [](ended \/ raced \/ LeaveStopsTheLoop)
<1>1. PlayInv => ended \/ raced \/ LeaveStopsTheLoop
  BY DEF PlayInv, LastTurn, LeaveStopsTheLoop
<1> QED BY <1>1, GamePlayInv, PTL
=============================================================================
