---------------------------- MODULE PayoutProofs ----------------------------
(***************************************************************************)
(* Proofs about Payout: of a tournament whose hands are seeded, whose      *)
(* callers take the sandbox lock and whose ledger rows land, for every     *)
(* field, schedule, rake and number of callers, crashes and exceptions.    *)
(***************************************************************************)
EXTENDS Payout, SumTheorems, TLAPS

Disciplined == SandboxLocked /\ Boundaries = {} /\ MaxDrops = 0

-----------------------------------------------------------------------------
(* What an order owes.                                                     *)

\* The paid places are finitely many and each has a whole positive prize.
LEMMA PlacesFinite ==
  /\ IsFiniteSet(Places)
  /\ \A p \in Places : Prize[p] \in Nat /\ Prize[p] > 0 /\ p \in Nat /\ p >= 1
  /\ Places = 1..Len(Prize) /\ Len(Prize) \in Nat
<1>1. Places = 1..Len(Prize) /\ Len(Prize) \in Nat /\ Prize \in Seq(Nat)
  BY PrizeAssumption DEF Places
<1>2. IsFiniteSet(Places)
  BY <1>1, FS_Interval
<1> QED BY <1>1, <1>2, PrizeAssumption DEF Places

\* Those with a bankroll are finitely many.
LEMMA BankrolledFinite == IsFiniteSet(Bankrolled)
BY FieldAssumption, FS_Subset

\* A sum over those with a bankroll changes by what one of them gains.
LEMMA BankrolledChange ==
  ASSUME NEW u, NEW v, NEW d \in Bankrolled,
         \A f \in Bankrolled : u[f] \in Int /\ v[f] \in Int,
         \A f \in Bankrolled : f # d => u[f] = v[f]
  PROVE  SumFunctionOnSet(u, Bankrolled) = SumFunctionOnSet(v, Bankrolled) + (u[d] - v[d])
<1>1. \A f \in Bankrolled : v[f] \in Int /\ u[f] \in Int
  OBVIOUS
<1>2. \A f \in Bankrolled \ {d} : u[f] = v[f]
  OBVIOUS
<1> QED BY <1>1, <1>2, BankrolledFinite, SumChange

\* The player of a paid place is owed its prize.
LEMMA OwedAtPlace ==
  ASSUME NEW o \in Orders, NEW p \in Places, o[p] \in Bankrolled
  PROVE  Owed(o)[o[p]] = Prize[p]
<1>1. \A q \in Places : o[q] = o[p] => q = p
  BY DEF Orders, IsInjective
<1>2. (CHOOSE q \in Places : o[q] = o[p]) = p
  BY <1>1
<1> QED BY <1>2 DEF Owed

\* Who finished out of the money is owed nothing.
LEMMA OwedElsewhere ==
  ASSUME NEW o \in Orders, NEW f \in Bankrolled, \A p \in Places : o[p] # f
  PROVE  Owed(o)[f] = 0
BY DEF Owed

\* A debt is a whole number of chips.
LEMMA OwedType ==
  ASSUME NEW o \in Orders
  PROVE  Owed(o) \in [Bankrolled -> Nat]
<1>1. ASSUME NEW f \in Bankrolled PROVE Owed(o)[f] \in Nat
  <2>1. CASE \E p \in Places : o[p] = f
    BY <2>1, OwedAtPlace, PlacesFinite
  <2>2. CASE ~ \E p \in Places : o[p] = f
    BY <2>2, OwedElsewhere
  <2> QED BY <2>1, <2>2
<1> QED BY <1>1 DEF Owed

\* The debts do not exceed the prizes: no place is owed to two players.
LEMMA OwedWithinPrizes ==
  ASSUME NEW o \in Orders
  PROVE  SumFunction(Owed(o)) <= SumFunction(Prize)
<1> DEFINE Part(T) == [f \in Bankrolled |-> IF \E p \in T : o[p] = f
                                            THEN Prize[CHOOSE p \in Places : o[p] = f] ELSE 0]
           Good(T) == SumFunctionOnSet(Part(T), Bankrolled) <= SumFunctionOnSet(Prize, T)
           Bad == {T \in SUBSET Places : ~Good(T)}
<1>1. ASSUME NEW T \in SUBSET Places, NEW f \in Bankrolled
      PROVE  Part(T)[f] \in Nat
  <2>1. CASE \E p \in T : o[p] = f
    <3>1. PICK p \in T : o[p] = f
      BY <2>1
    <3>2. Owed(o)[f] = Prize[p] /\ Prize[p] \in Nat
      BY <3>1, OwedAtPlace, PlacesFinite
    <3> QED BY <2>1, <3>1, <3>2 DEF Owed
  <2> QED BY <2>1
<1>2. Bad = {}
  <2>1. SUFFICES ASSUME Bad # {} PROVE FALSE
    OBVIOUS
  <2>2. PICK T \in Bad : \A y \in Bad : y \subseteq T => y = T
    <3>1. Bad \subseteq SUBSET Places
      OBVIOUS
    <3>2. IsFiniteSet(Places)
      BY PlacesFinite
    <3> HIDE DEF Bad, Good, Part
    <3> QED BY ONLY <2>1, <3>1, <3>2, MinimalSubset
  <2>3. T \subseteq Places /\ IsFiniteSet(T)
    BY PlacesFinite, FS_Subset
  <2>4. T # {}
    <3>1. SUFFICES ASSUME T = {} PROVE FALSE
      OBVIOUS
    <3>2. SumFunctionOnSet(Prize, T) = 0
      BY <3>1, SumUnfold, FS_EmptySet
    <3>3. \A f \in Bankrolled : Part(T)[f] = 0
      BY <3>1
    <3>4. SumFunctionOnSet(Part(T), Bankrolled) = 0 * Cardinality(Bankrolled)
      <4> DEFINE z == Part(T)
      <4>1. \A f \in Bankrolled : z[f] = 0
        BY <3>3
      <4> HIDE DEF z
      <4>2. SumFunctionOnSet(z, Bankrolled) = 0 * Cardinality(Bankrolled)
        BY <4>1, SumConst, BankrolledFinite
      <4> QED BY <4>2 DEF z
    <3>5. SumFunctionOnSet(Part(T), Bankrolled) = 0
      <4>1. Cardinality(Bankrolled) \in Nat
        BY BankrolledFinite, FS_CardinalityType
      <4> HIDE DEF Part
      <4> QED BY <3>4, <4>1
    <3> QED BY <3>2, <3>5
  <2>5. PICK q \in T : TRUE
    BY <2>4
  <2> DEFINE R == T \ {q}
  <2>6. R \in SUBSET Places /\ Good(R)
    <3>1. R \in SUBSET Places /\ R \subseteq T /\ R # T
      BY <2>3, <2>5
    <3>2. R \notin Bad
      BY <2>2, <3>1
    <3> QED BY <3>1, <3>2
  <2>7. SumFunctionOnSet(Prize, T) = Prize[q] + SumFunctionOnSet(Prize, R)
    <3>1. \A x \in T : Prize[x] \in Int
      BY <2>3, PlacesFinite
    <3> QED BY <2>3, <2>5, <3>1, SumRemove
  <2>8. /\ SumFunctionOnSet(Prize, R) \in Nat
        /\ SumFunctionOnSet(Part(R), Bankrolled) \in Nat
        /\ SumFunctionOnSet(Part(T), Bankrolled) \in Nat
        /\ Prize[q] \in Nat
    <3>1. IsFiniteSet(R) /\ \A x \in R : Prize[x] \in Nat
      BY <2>3, <2>6, PlacesFinite, FS_Subset
    <3>2. \A f \in Bankrolled : Part(R)[f] \in Nat /\ Part(T)[f] \in Nat
      BY <1>1, <2>3, <2>6
    <3>3. Prize[q] \in Nat
      BY <2>3, <2>5, PlacesFinite
    <3> HIDE DEF Part, R
    <3> QED BY <3>1, <3>2, <3>3, SumNat, BankrolledFinite
  <2>9. SumFunctionOnSet(Part(T), Bankrolled) <= Prize[q] + SumFunctionOnSet(Part(R), Bankrolled)
    <3>0. \A p \in Places : o[p] = o[q] => p = q
      BY <2>3, <2>5 DEF Orders, IsInjective
    <3>1. \A f \in Bankrolled : f # o[q] => Part(T)[f] = Part(R)[f]
      BY <2>5
    <3>2. \A f \in Bankrolled : Part(R)[f] \in Int /\ Part(T)[f] \in Int
      BY <1>1, <2>3, <2>6
    <3>3. CASE o[q] \in Bankrolled
      <4>1. Part(R)[o[q]] = 0
        BY <2>3, <3>0, <3>3
      <4>2. Part(T)[o[q]] = Prize[q]
        <5>1. (CHOOSE p \in Places : o[p] = o[q]) = q
          BY <2>3, <2>5, <3>0
        <5> QED BY <2>5, <3>3, <5>1
      <4>3. \A f \in Bankrolled \ {o[q]} : Part(T)[f] = Part(R)[f]
        BY <3>1
      <4> HIDE DEF Part
      <4>4. SumFunctionOnSet(Part(T), Bankrolled)
              = SumFunctionOnSet(Part(R), Bankrolled) + (Part(T)[o[q]] - Part(R)[o[q]])
        <5> DEFINE u == Part(T)
                   v == Part(R)
                   d == o[q]
        <5>1. /\ \A f \in Bankrolled : u[f] \in Int /\ v[f] \in Int
              /\ d \in Bankrolled
              /\ \A f \in Bankrolled : f # d => u[f] = v[f]
          BY <3>2, <3>3, <4>3
        <5> HIDE DEF u, v, d
        <5>2. SumFunctionOnSet(u, Bankrolled) = SumFunctionOnSet(v, Bankrolled) + (u[d] - v[d])
          BY ONLY <5>1, BankrolledChange
        <5> QED BY <5>2 DEF u, v, d
      <4> HIDE DEF R
      <4> QED BY <4>1, <4>2, <4>4, <2>8
    <3>4. CASE o[q] \notin Bankrolled
      <4>1. \A f \in Bankrolled : Part(R)[f] \in Int /\ Part(T)[f] = Part(R)[f]
        BY <3>1, <3>2, <3>4
      <4> HIDE DEF Part
      <4>2. SumFunctionOnSet(Part(T), Bankrolled) = SumFunctionOnSet(Part(R), Bankrolled)
        BY <4>1, SumCong, BankrolledFinite
      <4> HIDE DEF R
      <4> QED BY <4>2, <2>8
    <3> QED BY <3>3, <3>4
  <2>10. Good(T)
    <3>1. SumFunctionOnSet(Part(R), Bankrolled) <= SumFunctionOnSet(Prize, R)
      BY <2>6
    <3> HIDE DEF Part, R
    <3> QED BY <2>7, <2>8, <2>9, <3>1
  <2> QED BY <2>10
<1>3. Good(Places)
  <2>1. Places \in SUBSET Places /\ Places \notin Bad
    BY <1>2
  <2>2. \A T \in SUBSET Places : T \notin Bad => Good(T)
    OBVIOUS
  <2> HIDE DEF Good, Bad
  <2> QED BY <2>1, <2>2
<1>4. Part(Places) = Owed(o)
  BY DEF Owed
<1>5. DOMAIN Prize = Places /\ DOMAIN Owed(o) = Bankrolled
  BY DEF Places, Owed
<1> HIDE DEF Part
<1> QED BY <1>3, <1>4, <1>5 DEF SumFunction
-----------------------------------------------------------------------------
(* The inductive invariant.  A payout can be left and taken up again at    *)
(* any point because each of its writes is all or nothing and the sandbox  *)
(* lock keeps every other caller out while one is between two of them.     *)

\* Everybody has his prize and the house its rake.
Done == paid = Owed(fate) /\ raked = Rake

\* The books, whoever is at work: bankrolls and ledger agree, each debt is paid
\* in full or not at all, nothing moves before the claim, the escrow is swept
\* last and the row is stamped after that.
Ledger ==
    /\ credited = paid
    /\ \A f \in Bankrolled : paid[f] \in {0, Owed(fate)[f]}
    /\ raked \in {0, Rake}
    /\ status = "pending" => (\A f \in Bankrolled : paid[f] = 0) /\ raked = 0 /\ swept = 0
    /\ swept > 0 => Done /\ Escrow = 0
    /\ status = "complete" => Done /\ Escrow = 0

\* The rows a payer has read: the payout reads none.
Read(c, f) == IF c \in Watchdogs THEN seen[c][f] ELSE 0

\* A payer has paid the places it has passed, and of the others knows what is
\* paid.
Halfway(c) ==
    /\ at[c] >= 1
    /\ \A p \in Places : fate[p] \in Bankrolled =>
          paid[fate[p]] = IF p < at[c] THEN Prize[p] ELSE Read(c, fate[p])
    /\ c \notin Watchdogs => raked = 0 /\ swept = 0

Inside(c) == pc[c] \in {"claim", "pay", "sweep", "stamp"}

\* What a caller may rely on where it stands.
Stands(c) ==
    /\ pc[c] # "idle" => session = fate
    /\ pc[c] \in {"save", "load", "claim"} => c \notin Watchdogs
    /\ Inside(c) => holder = c
    /\ pc[c] = "claim" => status = "pending"
    /\ pc[c] \in {"pay", "sweep", "stamp"} => status = "in_progress"
    /\ pc[c] = "pay" => Halfway(c)
    /\ pc[c] \in {"sweep", "stamp"} => Done
    /\ pc[c] = "stamp" => Escrow = 0

\* The order is the one the seeds decide, in memory and in the row.
Fated == session \in {NotOver, fate} /\ row \in {NotOver, fate}

IInv == TypeOK /\ Fated /\ Ledger /\ \A c \in Callers : Stands(c)

-----------------------------------------------------------------------------
(* Quiet steps: those that leave the books and the order alone.            *)

LEMMA LedgerKept ==
  ASSUME IInv, UNCHANGED <<status, fate, books>>
  PROVE  Ledger' /\ Escrow' = Escrow /\ Done' = Done
BY DEF IInv, Ledger, Escrow, Done, books

\* Nobody else is inside while a caller has or may have the lock.
LEMMA Alone ==
  ASSUME IInv, NEW c \in Callers, NEW d \in Callers, d # c, holder \in {c, NoCaller}
  PROVE  ~Inside(d)
BY CallersAssumption DEF IInv, Stands

\* A caller that takes no part in a quiet step stands where it stood.
LEMMA Bystander ==
  ASSUME IInv, NEW d \in Callers,
         UNCHANGED <<status, fate, books>>, session' \in {session, fate},
         pc'[d] = pc[d], at'[d] = at[d], d \in Watchdogs => seen'[d] = seen[d],
         Inside(d) => holder' = holder
  PROVE  Stands(d)'
<1>1. Stands(d)
  BY DEF IInv
<1>2. Escrow' = Escrow /\ Done' = Done
  BY LedgerKept
<1>3. Halfway(d) => Halfway(d)'
  BY DEF Halfway, Read, books
<1>4. Inside(d)' = Inside(d)
  BY DEF Inside
<1>5. UNCHANGED status /\ UNCHANGED fate
  OBVIOUS
<1> HIDE DEF Halfway, Done, Escrow, Inside
<1> QED BY <1>1, <1>2, <1>3, <1>4, <1>5 DEF Stands

\* Where a caller goes when a payout lets it go.
LEMMA Leaves ==
  ASSUME TypeOK, NEW c \in Callers, Leave(c)
  PROVE  /\ pc' \in [Callers -> Spots]
         /\ pc'[c] \in {"idle", "settle", "persist"}
         /\ \A d \in Callers : d # c => pc'[d] = pc[d]
         /\ holder' = holder \/ (holder = c /\ holder' = NoCaller)
         /\ holder' \in Callers \cup {NoCaller}
BY DEF TypeOK, Leave, Unlock, GoTo, Spots

\* A caller outside may stand anywhere once the session is over.
LEMMA Outside ==
  ASSUME NEW c \in Callers, pc[c] \in {"idle", "save", "load", "settle", "persist"},
         pc[c] # "idle" => session = fate,
         pc[c] \in {"save", "load"} => c \notin Watchdogs
  PROVE  Stands(c)
BY DEF Stands, Inside

LEMMA OutsideNext ==
  (\A c \in Callers :
      /\ pc[c] \in {"idle", "save", "load", "settle", "persist"}
      /\ pc[c] # "idle" => session = fate
      /\ pc[c] \in {"save", "load"} => c \notin Watchdogs
      => Stands(c))'
<1>1. \A c \in Callers :
         /\ pc[c] \in {"idle", "save", "load", "settle", "persist"}
         /\ pc[c] # "idle" => session = fate
         /\ pc[c] \in {"save", "load"} => c \notin Watchdogs
         => Stands(c)
  BY Outside
<1> QED BY <1>1, PTL

LEMMA RequestKeeps ==
  ASSUME IInv, NEW r \in Routes, Request(r)
  PROVE  IInv'
<1> USE DEF Callers
<1>1. session' = fate /\ UNCHANGED <<status, fate, books, holder, row, at, seen>>
  BY DEF IInv, Fated, Request, Played
<1>2. pc'[r] = "save" /\ \A d \in Callers : d # r => pc'[d] = pc[d]
  BY DEF Request, GoTo, IInv, TypeOK
<1>3. TypeOK'
  BY <1>1 DEF Request, GoTo, IInv, TypeOK, Spots, books, bounds
<1>4. Fated'
  BY <1>1 DEF IInv, Fated
<1>5. Ledger'
  BY <1>1, LedgerKept
<1>6. ASSUME NEW d \in Callers PROVE Stands(d)'
  <2>1. CASE d = r
    BY <1>1, <1>2, <2>1, CallersAssumption, OutsideNext
  <2>2. CASE d # r
    BY <1>1, <1>2, <2>2, Bystander
  <2> QED BY <2>1, <2>2
<1> QED BY <1>3, <1>4, <1>5, <1>6 DEF IInv

LEMMA SaveFirstKeeps ==
  ASSUME IInv, NEW r \in Callers, SaveFirst(r)
  PROVE  IInv'
<1>1. session = fate
  BY DEF IInv, Stands, SaveFirst
<1>2. session' = fate /\ row' = fate /\ UNCHANGED <<status, fate, books, session, holder, at, seen>>
  BY <1>1 DEF SaveFirst
<1>3. pc'[r] = "load" /\ \A d \in Callers : d # r => pc'[d] = pc[d]
  BY DEF SaveFirst, GoTo, IInv, TypeOK
<1>4. TypeOK'
  BY <1>1, <1>2 DEF SaveFirst, GoTo, IInv, TypeOK, Spots, books, bounds
<1>5. Fated'
  BY <1>2 DEF IInv, Fated
<1>6. Ledger'
  BY <1>2, LedgerKept
<1>7. ASSUME NEW d \in Callers PROVE Stands(d)'
  <2>1. CASE d = r
    <3>1. r \notin Watchdogs
      BY DEF SaveFirst, IInv, Stands
    <3> QED BY <1>2, <1>3, <2>1, <3>1, OutsideNext
  <2>2. CASE d # r
    BY <1>2, <1>3, <2>2, Bystander
  <2> QED BY <2>1, <2>2
<1> QED BY <1>4, <1>5, <1>6, <1>7 DEF IInv

LEMMA TickKeeps ==
  ASSUME Disciplined, IInv, NEW t \in Tickers, Tick(t)
  PROVE  IInv'
<1> USE DEF Callers
<1>1. session' = fate /\ UNCHANGED <<status, fate, books, row, at, seen>>
  BY DEF Tick
<1>2. pc'[t] = "load" /\ \A d \in Callers : d # t => pc'[d] = pc[d]
  BY DEF Tick, GoTo, IInv, TypeOK
<1>3. holder \in {t, NoCaller} /\ holder' = t
  BY DEF Disciplined, Tick, Lock, Free
<1>4. TypeOK'
  BY <1>1, <1>3 DEF Tick, GoTo, IInv, TypeOK, Spots, books, bounds
<1>5. Fated'
  BY <1>1 DEF IInv, Fated
<1>6. Ledger'
  BY <1>1, LedgerKept
<1>7. ASSUME NEW d \in Callers PROVE Stands(d)'
  <2>1. CASE d = t
    BY <1>1, <1>2, <2>1, CallersAssumption, OutsideNext
  <2>2. CASE d # t
    BY <1>1, <1>2, <1>3, <2>2, Alone, Bystander
  <2> QED BY <2>1, <2>2
<1> QED BY <1>4, <1>5, <1>6, <1>7 DEF IInv

LEMMA SettleKeeps ==
  ASSUME IInv, NEW t \in Callers, Settle(t)
  PROVE  IInv'
<1>1. session' = session /\ UNCHANGED <<status, fate, books, row, holder, at, seen>>
  BY DEF Settle
<1>2. pc'[t] = "persist" /\ \A d \in Callers : d # t => pc'[d] = pc[d]
  BY DEF Settle, GoTo, IInv, TypeOK
<1>3. session' = fate
  BY <1>1 DEF Settle, IInv, Stands
<1>4. TypeOK'
  BY <1>1 DEF Settle, GoTo, IInv, TypeOK, Spots, books, bounds
<1>5. Fated'
  BY <1>1 DEF IInv, Fated
<1>6. Ledger'
  BY <1>1, LedgerKept
<1>7. ASSUME NEW d \in Callers PROVE Stands(d)'
  <2>1. CASE d = t
    BY <1>1, <1>2, <1>3, <2>1, OutsideNext
  <2>2. CASE d # t
    BY <1>1, <1>2, <2>2, Bystander
  <2> QED BY <2>1, <2>2
<1> QED BY <1>4, <1>5, <1>6, <1>7 DEF IInv

LEMMA PersistKeeps ==
  ASSUME IInv, NEW c \in Callers, Persist(c)
  PROVE  IInv'
<1>1. session = fate
  BY DEF IInv, Stands, Persist
<1>2. session' = fate /\ row' = fate /\ UNCHANGED <<status, fate, books, session, at, seen>>
  BY <1>1 DEF Persist
<1>3. pc'[c] = "idle" /\ \A d \in Callers : d # c => pc'[d] = pc[d]
  BY DEF Persist, GoTo, IInv, TypeOK
<1>4. holder' = holder \/ (holder = c /\ holder' = NoCaller)
  BY DEF Persist, Unlock
<1>5. TypeOK'
  BY <1>1, <1>2, <1>4 DEF Persist, GoTo, IInv, TypeOK, Spots, books, bounds
<1>6. Fated'
  BY <1>2 DEF IInv, Fated
<1>7. Ledger'
  BY <1>2, LedgerKept
<1>8. ASSUME NEW d \in Callers PROVE Stands(d)'
  <2>1. CASE d = c
    BY <1>2, <1>3, <2>1, OutsideNext
  <2>2. CASE d # c
    <3>1. Inside(d) => holder' = holder
      BY <1>4, <2>2 DEF IInv, Stands
    <3> QED BY <1>2, <1>3, <2>2, <3>1, Bystander
  <2> QED BY <2>1, <2>2
<1> QED BY <1>5, <1>6, <1>7, <1>8 DEF IInv

LEMMA CrashKeeps ==
  ASSUME IInv, Crash
  PROVE  IInv'
<1>1. session' = row /\ UNCHANGED <<status, fate, books, row>>
  BY DEF Crash
<1>2. TypeOK'
  <2>1. crashes' \in 0..MaxCrashes
    BY CallersAssumption DEF Crash, IInv, TypeOK
  <2>2. pc' \in [Callers -> Spots] /\ at' \in [Callers -> Nat]
        /\ seen' \in [Watchdogs -> [Bankrolled -> Nat]]
    BY DEF Crash, Spots
  <2> QED BY <1>1, <2>1, <2>2 DEF Crash, IInv, TypeOK, books, bounds
<1>3. Fated'
  BY <1>1 DEF IInv, Fated
<1>4. Ledger'
  BY <1>1, LedgerKept
<1>5. ASSUME NEW d \in Callers PROVE Stands(d)'
  <2>1. pc'[d] = "idle"
    BY DEF Crash
  <2> QED BY <2>1, OutsideNext
<1> QED BY <1>2, <1>3, <1>4, <1>5 DEF IInv

LEMMA LoadKeeps ==
  ASSUME Disciplined, IInv, NEW c \in Callers, Load(c)
  PROVE  IInv'
<1>1. session' = session /\ UNCHANGED <<status, fate, books, row, at, seen>>
  BY DEF Load
<1>2. session' = fate /\ holder \in {c, NoCaller}
  BY <1>1 DEF Load, IInv, Stands, Free, Disciplined
<1>3. /\ \A d \in Callers : d # c => pc'[d] = pc[d]
      /\ \/ status = "pending" /\ pc'[c] = "claim" /\ holder' = c
         \/ pc'[c] \in {"idle", "settle", "persist"}
      /\ pc' \in [Callers -> Spots]
      /\ holder' \in Callers \cup {NoCaller}
  <2>1. CASE status = "pending"
    BY <2>1 DEF Load, Lock, GoTo, IInv, TypeOK, Disciplined, Spots
  <2>2. CASE status # "pending"
    BY <2>2, Leaves DEF Load, IInv
  <2> QED BY <2>1, <2>2
<1>4. TypeOK'
  BY <1>1, <1>3 DEF Load, IInv, TypeOK, books, bounds
<1>5. Fated'
  BY <1>1 DEF IInv, Fated
<1>6. Ledger'
  BY <1>1, LedgerKept
<1>7. ASSUME NEW d \in Callers PROVE Stands(d)'
  <2>1. CASE d = c
    <3>1. CASE status = "pending" /\ pc'[c] = "claim" /\ holder' = c
      <4>1. c \notin Watchdogs
        BY DEF Load, IInv, Stands
      <4> QED BY <1>1, <1>2, <2>1, <3>1, <4>1 DEF Stands
    <3>2. CASE pc'[c] \in {"idle", "settle", "persist"}
      BY <1>1, <1>2, <2>1, <3>2, OutsideNext
    <3> QED BY <1>3, <3>1, <3>2
  <2>2. CASE d # c
    BY <1>1, <1>2, <1>3, <2>2, Alone, Bystander
  <2> QED BY <2>1, <2>2
<1> QED BY <1>4, <1>5, <1>6, <1>7 DEF IInv

\* A caller that goes away leaves everything as it is (LoadFails, Raise).
LEMMA LeaveKeeps ==
  ASSUME IInv, NEW c \in Callers, pc[c] # "idle", Leave(c), raises' \in 0..MaxRaises,
         UNCHANGED <<status, row, released, books, fate, session, at, seen, crashes, drops>>
  PROVE  IInv'
<1>1. session' = fate
  BY DEF IInv, Stands
<1>2. /\ \A d \in Callers : d # c => pc'[d] = pc[d]
      /\ pc'[c] \in {"idle", "settle", "persist"}
      /\ pc' \in [Callers -> Spots]
      /\ holder' \in Callers \cup {NoCaller}
      /\ holder' = holder \/ (holder = c /\ holder' = NoCaller)
  BY Leaves DEF IInv
<1>3. TypeOK'
  BY <1>2 DEF IInv, TypeOK, books, bounds
<1>4. Fated'
  BY DEF IInv, Fated
<1>5. Ledger'
  BY LedgerKept
<1>6. ASSUME NEW d \in Callers PROVE Stands(d)'
  <2>1. CASE d = c
    BY <1>1, <1>2, <2>1, OutsideNext
  <2>2. CASE d # c
    <3>1. Inside(d) => holder' = holder
      BY <1>2, <2>2 DEF IInv, Stands
    <3> QED BY <1>2, <2>2, <3>1, Bystander
  <2> QED BY <2>1, <2>2
<1> QED BY <1>3, <1>4, <1>5, <1>6 DEF IInv

LEMMA ResumeKeeps ==
  ASSUME Disciplined, IInv, NEW w \in Watchdogs, Resume(w)
  PROVE  IInv'
<1> USE DEF Callers
<1>1. session' = session /\ UNCHANGED <<status, fate, books, row>>
  BY DEF Resume
<1>2. session' = fate /\ status = "in_progress"
  BY <1>1 DEF Resume, IInv, Fated
<1>3. /\ pc'[w] = "pay" /\ at'[w] = 1 /\ seen'[w] = paid
      /\ \A d \in Callers : d # w => pc'[d] = pc[d] /\ at'[d] = at[d]
      /\ \A d \in Watchdogs : d # w => seen'[d] = seen[d]
  BY DEF Resume, GoTo, IInv, TypeOK
<1>4. holder \in {w, NoCaller} /\ holder' = w
  BY DEF Disciplined, Resume, Lock, Free
<1>5. TypeOK'
  BY <1>1, <1>4 DEF Resume, GoTo, IInv, TypeOK, Spots, books, bounds
<1>6. Fated'
  BY <1>1 DEF IInv, Fated
<1>7. Ledger'
  BY <1>1, LedgerKept
<1>8. ASSUME NEW d \in Callers PROVE Stands(d)'
  <2>1. CASE d = w
    <3>1. paid' = paid /\ fate' = fate /\ status' = status
      BY <1>1 DEF books
    <3>2. Halfway(w)'
      BY <1>3, <3>1, PlacesFinite DEF Halfway, Read
    <3> QED BY <1>2, <1>3, <1>4, <2>1, <3>1, <3>2 DEF Stands, Inside
  <2>2. CASE d # w
    BY <1>1, <1>3, <1>4, <2>2, Alone, Bystander
  <2> QED BY <2>1, <2>2
<1> QED BY <1>5, <1>6, <1>7, <1>8 DEF IInv

-----------------------------------------------------------------------------
(* The steps of the one that is inside.                                    *)

\* The escrow never owes: every debt is within the prizes that funded it.
LEMMA Solvent ==
  ASSUME IInv
  PROVE  /\ Funded \in Nat /\ SumFunction(paid) \in Nat /\ Escrow \in Nat
         /\ raked \in Nat /\ swept \in Nat /\ swept + Escrow <= Funded
<1>1. /\ IsFiniteSet(Bankrolled) /\ IsFiniteSet(Places)
      /\ \A p \in Places : Prize[p] \in Nat
      /\ fate \in Orders /\ paid \in [Bankrolled -> Nat] /\ Rake \in Nat
      /\ DOMAIN Prize = Places
  BY BankrolledFinite, PlacesFinite, PrizeAssumption DEF IInv, TypeOK, Places
<1>2. SumFunction(Prize) \in Nat
  BY <1>1, SumNat DEF SumFunction
<1>3. SumFunction(paid) \in Nat
  <2>1. DOMAIN paid = Bankrolled /\ \A f \in Bankrolled : paid[f] \in Nat
    BY <1>1
  <2> QED BY <1>1, <2>1, SumNat DEF SumFunction
<1>4. SumFunction(paid) <= SumFunction(Owed(fate))
  <2>1. /\ DOMAIN paid = Bankrolled /\ DOMAIN Owed(fate) = Bankrolled
        /\ \A f \in Bankrolled : paid[f] \in Int /\ Owed(fate)[f] \in Int /\ paid[f] <= Owed(fate)[f]
    BY <1>1, OwedType DEF IInv, Ledger
  <2> DEFINE u == Owed(fate)
  <2> HIDE DEF u
  <2>2. SumFunctionOnSet(paid, Bankrolled) <= SumFunctionOnSet(u, Bankrolled)
    BY <1>1, <2>1, SumLe DEF u
  <2> QED BY <2>1, <2>2 DEF SumFunction, u
<1>5. SumFunction(Owed(fate)) <= SumFunction(Prize)
  BY <1>1, OwedWithinPrizes
<1>6. SumFunction(Owed(fate)) \in Int
  <2>1. DOMAIN Owed(fate) = Bankrolled /\ \A f \in Bankrolled : Owed(fate)[f] \in Int
    BY <1>1, OwedType
  <2> QED BY <1>1, <2>1, SumInt DEF SumFunction
<1>7. raked \in {0, Rake} /\ swept \in 0..Funded /\ (swept > 0 => Escrow = 0)
  BY DEF IInv, Ledger, TypeOK
<1> QED BY <1>1, <1>2, <1>3, <1>4, <1>5, <1>6, <1>7 DEF Escrow, Funded

\* Everybody else waits outside.
LEMMA Waiting ==
  ASSUME IInv, NEW c \in Callers, NEW d \in Callers, d # c, Inside(c),
         pc'[d] = pc[d], session' = session, fate' = fate
  PROVE  Stands(d)'
<1>1. ~Inside(d)
  BY Alone DEF IInv, Stands
<1>2. pc[d] \in {"idle", "save", "load", "settle", "persist"}
  BY <1>1 DEF Inside, IInv, TypeOK, Spots
<1>3. (pc[d] # "idle" => session = fate) /\ (pc[d] \in {"save", "load"} => d \notin Watchdogs)
  BY DEF IInv, Stands
<1> QED BY <1>2, <1>3, OutsideNext

LEMMA ClaimKeeps ==
  ASSUME IInv, NEW c \in Callers, Claim(c)
  PROVE  IInv'
<1>1. status = "pending" /\ session = fate /\ Inside(c) /\ holder = c
  BY DEF Claim, IInv, Stands, Inside
<1>2. /\ status' = "in_progress" /\ pc'[c] = "pay" /\ at'[c] = 1
      /\ \A d \in Callers : d # c => pc'[d] = pc[d]
      /\ UNCHANGED <<row, released, books, fate, session, seen, bounds, holder>>
  BY <1>1 DEF Claim, GoTo, IInv, TypeOK
<1>3. TypeOK'
  BY <1>1, <1>2 DEF Claim, GoTo, IInv, TypeOK, Spots, books, bounds
<1>4. Fated'
  BY <1>2 DEF IInv, Fated
<1>5. Ledger'
  BY <1>1, <1>2 DEF IInv, Ledger, books, Escrow, Done
<1>6. ASSUME NEW d \in Callers PROVE Stands(d)'
  <2>1. CASE d = c
    <3>1. c \notin Watchdogs
      BY DEF Claim, IInv, Stands
    <3>2. paid' = paid /\ fate' = fate /\ raked' = raked /\ swept' = swept
      BY <1>2 DEF books
    <3>3. (\A f \in Bankrolled : paid[f] = 0) /\ raked = 0 /\ swept = 0
      BY <1>1 DEF IInv, Ledger
    <3>4. Halfway(c)'
      BY <1>2, <3>1, <3>2, <3>3, PlacesFinite DEF Halfway, Read
    <3> QED BY <1>1, <1>2, <2>1, <3>1, <3>4 DEF Stands, Inside
  <2>2. CASE d # c
    BY <1>1, <1>2, <2>2, Waiting
  <2> QED BY <2>1, <2>2
<1> QED BY <1>3, <1>4, <1>5, <1>6 DEF IInv

LEMMA StampKeeps ==
  ASSUME IInv, NEW c \in Callers, Stamp(c)
  PROVE  IInv'
<1>1. /\ session = fate /\ Inside(c) /\ holder = c
      /\ status = "in_progress" /\ Done /\ Escrow = 0
  BY DEF Stamp, IInv, Stands, Inside
<1>2. /\ status' = "complete" /\ released' \in BOOLEAN
      /\ UNCHANGED <<row, books, fate, session, at, seen, bounds>>
  BY <1>1 DEF Stamp, IInv, TypeOK
<1>3. /\ pc' \in [Callers -> Spots]
      /\ pc'[c] \in {"idle", "settle", "persist"}
      /\ \A d \in Callers : d # c => pc'[d] = pc[d]
      /\ holder' \in Callers \cup {NoCaller}
  BY Leaves DEF Stamp, IInv
<1>4. TypeOK'
  BY <1>2, <1>3 DEF IInv, TypeOK, books, bounds
<1>5. Fated'
  BY <1>2 DEF IInv, Fated
<1>6. Escrow' = Escrow /\ Done' = Done
  BY <1>2 DEF books, Escrow, Done
<1>7. Ledger'
  <2>1. UNCHANGED <<paid, raked, swept, credited, fate>>
    BY <1>2 DEF books
  <2> HIDE DEF Escrow, Done
  <2> QED BY <1>1, <1>2, <1>6, <2>1 DEF IInv, Ledger
<1>8. ASSUME NEW d \in Callers PROVE Stands(d)'
  <2>1. CASE d = c
    BY <1>1, <1>2, <1>3, <2>1, OutsideNext
  <2>2. CASE d # c
    BY <1>1, <1>2, <1>3, <2>2, Waiting
  <2> QED BY <2>1, <2>2
<1> QED BY <1>4, <1>5, <1>7, <1>8 DEF IInv

LEMMA SweepKeeps ==
  ASSUME Disciplined, IInv, NEW c \in Callers, Sweep(c)
  PROVE  IInv'
<1>1. session = fate /\ Inside(c) /\ holder = c /\ status = "in_progress" /\ Done
  BY DEF Sweep, IInv, Stands, Inside
<1>2. /\ pc' = [pc EXCEPT ![c] = "stamp"]
      /\ UNCHANGED <<status, row, released, paid, raked, credited, fate, session, holder, at, seen,
                     crashes, raises>>
  BY DEF Sweep, GoTo
<1>3. swept' = swept + Escrow /\ drops' = drops
  <2>1. CASE Escrow > 0
    BY <2>1, Solvent DEF Sweep, Write, Disciplined, IInv, TypeOK
  <2>2. CASE ~(Escrow > 0)
    <3>1. Escrow = 0 /\ swept \in Nat
      BY <2>2, Solvent
    <3>2. swept' = swept /\ drops' = drops
      BY <2>2 DEF Sweep
    <3> QED BY <3>1, <3>2
  <2> QED BY <2>1, <2>2
<1>4. Escrow' = 0 /\ Done'
  <2>1. Done' = Done
    BY <1>2 DEF Done
  <2> QED BY <1>1, <1>2, <1>3, <2>1, Solvent DEF Escrow
<1>5. TypeOK'
  <2>1. swept' \in 0..Funded
    BY <1>3, Solvent
  <2>2. pc' \in [Callers -> Spots]
    BY <1>2 DEF IInv, TypeOK, Spots
  <2> QED BY <1>2, <1>3, <2>1, <2>2 DEF IInv, TypeOK
<1>6. Fated'
  BY <1>2 DEF IInv, Fated
<1>7. Ledger'
  <2> HIDE DEF Escrow, Done
  <2> QED BY <1>1, <1>2, <1>4 DEF IInv, Ledger
<1>8. ASSUME NEW d \in Callers PROVE Stands(d)'
  <2>1. CASE d = c
    <3>1. pc'[c] = "stamp"
      BY <1>2 DEF IInv, TypeOK
    <3> QED BY <1>1, <1>2, <1>4, <2>1, <3>1 DEF Stands, Inside
  <2>2. CASE d # c
    <3>1. pc'[d] = pc[d]
      BY <1>2, <2>2 DEF IInv, TypeOK
    <3> QED BY <1>1, <1>2, <2>2, <3>1, Waiting
  <2> QED BY <2>1, <2>2
<1> QED BY <1>5, <1>6, <1>7, <1>8 DEF IInv

LEMMA TakeRakeKeeps ==
  ASSUME Disciplined, IInv, NEW c \in Callers, TakeRake(c)
  PROVE  IInv'
<1>1. /\ session = fate /\ Inside(c) /\ holder = c /\ status = "in_progress"
      /\ Halfway(c) /\ at[c] \notin Places /\ at[c] \in Nat
  BY DEF TakeRake, IInv, TypeOK, Stands, Inside
<1>2. /\ pc' = [pc EXCEPT ![c] = "sweep"]
      /\ UNCHANGED <<status, row, released, paid, swept, credited, fate, session, holder, at, seen,
                     crashes, raises>>
  BY DEF TakeRake, GoTo
<1>3. raked' = Rake /\ drops' = drops /\ Rake \in Nat
  <2>1. Rake \in Nat /\ raked \in {0, Rake}
    BY PrizeAssumption DEF IInv, Ledger
  <2>2. RakeDue(c) = Rake - raked
    BY <1>1, <2>1 DEF RakeDue, Halfway
  <2>3. CASE RakeDue(c) > 0
    BY <2>1, <2>2, <2>3 DEF TakeRake, Write, Disciplined, IInv, TypeOK
  <2>4. CASE ~(RakeDue(c) > 0)
    BY <2>1, <2>2, <2>4 DEF TakeRake
  <2> QED BY <2>1, <2>3, <2>4
<1>4. paid = Owed(fate)
  <2>1. fate \in Orders /\ paid \in [Bankrolled -> Nat]
    BY DEF IInv, TypeOK
  <2>2. ASSUME NEW f \in Bankrolled PROVE paid[f] = Owed(fate)[f]
    <3>1. CASE \E p \in Places : fate[p] = f
      <4>1. PICK p \in Places : fate[p] = f
        BY <3>1
      <4>2. p < at[c]
        BY <1>1, PlacesFinite DEF Halfway
      <4>3. paid[f] = Prize[p]
        BY <1>1, <4>1, <4>2 DEF Halfway
      <4> QED BY <2>1, <4>1, <4>3, OwedAtPlace
    <3>2. CASE ~ \E p \in Places : fate[p] = f
      <4>1. Owed(fate)[f] = 0
        BY <2>1, <3>2, OwedElsewhere
      <4> QED BY <4>1 DEF IInv, Ledger
    <3> QED BY <3>1, <3>2
  <2>3. Owed(fate) \in [Bankrolled -> Nat]
    BY <2>1, OwedType
  <2> QED BY <2>1, <2>2, <2>3
<1>5. Done'
  BY <1>2, <1>3, <1>4 DEF Done
<1>6. swept > 0 => Escrow' = Escrow /\ Escrow = 0
  BY <1>2, <1>3 DEF IInv, Ledger, Done, Escrow
<1>7. TypeOK'
  <2>1. pc' \in [Callers -> Spots]
    BY <1>2 DEF IInv, TypeOK, Spots
  <2> QED BY <1>2, <1>3, <2>1 DEF IInv, TypeOK
<1>8. Fated'
  BY <1>2 DEF IInv, Fated
<1>9. Ledger'
  <2> HIDE DEF Escrow, Done
  <2> QED BY <1>1, <1>2, <1>3, <1>5, <1>6 DEF IInv, Ledger
<1>10. ASSUME NEW d \in Callers PROVE Stands(d)'
  <2>1. CASE d = c
    <3>1. pc'[c] = "sweep"
      BY <1>2 DEF IInv, TypeOK
    <3> QED BY <1>1, <1>2, <1>5, <2>1, <3>1 DEF Stands, Inside
  <2>2. CASE d # c
    <3>1. pc'[d] = pc[d]
      BY <1>2, <2>2 DEF IInv, TypeOK
    <3> QED BY <1>1, <1>2, <2>2, <3>1, Waiting
  <2> QED BY <2>1, <2>2
<1> QED BY <1>7, <1>8, <1>9, <1>10 DEF IInv

\* One place is paid: it has been paid already, or its player gets the whole
\* prize, having had nothing.
LEMMA OnePlace ==
  ASSUME Disciplined, IInv, NEW c \in Callers, PayPlace(c)
  PROVE  /\ session = fate /\ Inside(c) /\ holder = c /\ status = "in_progress" /\ Halfway(c)
         /\ at[c] \in Places /\ drops' = drops /\ at' = [at EXCEPT ![c] = @ + 1]
         /\ UNCHANGED <<status, row, released, raked, swept, fate, session, holder, pc, seen,
                        crashes, raises>>
         /\ \/ /\ UNCHANGED <<paid, credited>>
               /\ fate[at[c]] \in Bankrolled => paid[fate[at[c]]] = Prize[at[c]]
            \/ /\ fate[at[c]] \in Bankrolled
               /\ paid[fate[at[c]]] = 0 /\ swept = 0
               /\ paid' = [paid EXCEPT ![fate[at[c]]] = Prize[at[c]]]
               /\ credited' = paid'
<1> DEFINE p == at[c]
           f == fate[p]
<1>1. /\ session = fate /\ Inside(c) /\ holder = c /\ status = "in_progress" /\ Halfway(c)
      /\ p \in Places /\ at' = [at EXCEPT ![c] = @ + 1]
      /\ UNCHANGED <<status, row, released, raked, swept, fate, session, holder, pc, seen,
                     crashes, raises>>
  BY DEF PayPlace, IInv, Stands, Inside
<1>2. Prize[p] \in Nat /\ Prize[p] > 0 /\ ~(p < p)
  BY <1>1, PlacesFinite
<1>3. CASE f \in Bankrolled
  <2>1. paid[f] = Read(c, f)
    BY <1>1, <1>2, <1>3 DEF Halfway
  <2>2. paid[f] \in {0, Prize[p]} /\ Owed(fate)[f] = Prize[p]
    BY <1>1, <1>3, OwedAtPlace DEF IInv, TypeOK, Ledger
  <2>3. Due(c, p) = Prize[p] - paid[f]
    BY <1>1, <1>2, <2>1, <2>2 DEF Due, Read
  <2>4. CASE Due(c, p) > 0
    <3>1. paid[f] = 0 /\ Due(c, p) = Prize[p]
      BY <1>2, <2>2, <2>3, <2>4
    <3>2. paid # Owed(fate)
      BY <1>2, <2>2, <3>1
    <3>3. swept = 0
      BY <3>2 DEF IInv, TypeOK, Ledger, Done
    <3>4. /\ drops' = drops
          /\ paid' = [paid EXCEPT ![f] = @ + Due(c, p)]
          /\ credited' = [credited EXCEPT ![f] = @ + Due(c, p)]
      BY <1>1, <1>3, <2>4 DEF PayPlace, Write, Disciplined, IInv, TypeOK
    <3>5. paid[f] + Due(c, p) = Prize[p] /\ credited = paid
      BY <1>2, <3>1 DEF IInv, Ledger
    <3>6. paid' = [paid EXCEPT ![f] = Prize[p]] /\ credited' = paid'
      BY <3>4, <3>5
    <3> QED BY <1>1, <1>3, <3>1, <3>3, <3>4, <3>6
  <2>5. CASE ~(Due(c, p) > 0)
    <3>1. paid[f] = Prize[p]
      BY <1>2, <2>2, <2>3, <2>5
    <3>2. UNCHANGED <<paid, credited, drops>>
      BY <1>1, <2>5 DEF PayPlace
    <3> QED BY <1>1, <3>1, <3>2
  <2> QED BY <2>4, <2>5
<1>4. CASE f \notin Bankrolled
  <2>1. UNCHANGED <<paid, credited, drops>>
    BY <1>1, <1>4 DEF PayPlace
  <2> QED BY <1>1, <1>4, <2>1
<1> QED BY <1>3, <1>4

LEMMA PayPlaceKeeps ==
  ASSUME Disciplined, IInv, NEW c \in Callers, PayPlace(c)
  PROVE  IInv'
<1> DEFINE p == at[c]
           f == fate[p]
<1>1. /\ session = fate /\ Inside(c) /\ holder = c /\ status = "in_progress" /\ Halfway(c)
      /\ p \in Places /\ drops' = drops /\ at' = [at EXCEPT ![c] = @ + 1]
      /\ UNCHANGED <<status, row, released, raked, swept, fate, session, holder, pc, seen,
                     crashes, raises>>
  BY OnePlace
<1>2. \/ /\ UNCHANGED <<paid, credited>>
         /\ f \in Bankrolled => paid[f] = Prize[p]
      \/ /\ f \in Bankrolled
         /\ paid[f] = 0 /\ swept = 0
         /\ paid' = [paid EXCEPT ![f] = Prize[p]]
         /\ credited' = paid'
  BY OnePlace
<1>3. /\ fate \in Orders /\ paid \in [Bankrolled -> Nat] /\ credited = paid
      /\ at \in [Callers -> Nat]
      /\ p \in Nat /\ Prize[p] \in Nat /\ \A q \in Places : q \in Nat
  BY <1>1, PlacesFinite DEF IInv, TypeOK, Ledger
<1>4. credited' = paid' /\ paid' \in [Bankrolled -> Nat]
  BY <1>2, <1>3
<1>5. f \in Bankrolled => paid'[f] = Prize[p] /\ Owed(fate)[f] = Prize[p]
  BY <1>1, <1>2, <1>3, OwedAtPlace
<1>6. \A g \in Bankrolled : g # f => paid'[g] = paid[g]
  BY <1>2, <1>3
<1>7. TypeOK'
  <2>1. at' \in [Callers -> Nat]
    BY <1>1, <1>3
  <2> QED BY <1>1, <1>4, <2>1 DEF IInv, TypeOK
<1>8. Fated'
  BY <1>1 DEF IInv, Fated
<1>9. Ledger'
  <2>1. \A g \in Bankrolled : paid'[g] \in {0, Owed(fate)[g]}
    BY <1>5, <1>6 DEF IInv, Ledger
  <2>2. raked' \in {0, Rake}
    BY <1>1 DEF IInv, Ledger
  <2>3. swept > 0 => Done' /\ Escrow' = 0
    <3>1. CASE paid' = paid
      BY <1>1, <3>1 DEF IInv, Ledger, Done, Escrow
    <3>2. CASE swept = 0
      BY <3>2
    <3> QED BY <1>2, <3>1, <3>2
  <2> HIDE DEF Done, Escrow
  <2> QED BY <1>1, <1>4, <2>1, <2>2, <2>3 DEF Ledger
<1>10. Halfway(c)'
  <2>1. at'[c] = p + 1 /\ at'[c] >= 1
    BY <1>1, <1>3
  <2>2. ASSUME NEW q \in Places, fate[q] \in Bankrolled
        PROVE  paid'[fate[q]] = IF q < at'[c] THEN Prize[q] ELSE Read(c, fate[q])
    <3>1. CASE q = p
      BY <1>3, <1>5, <2>1, <2>2, <3>1
    <3>2. CASE q # p
      <4>1. fate[q] # f
        BY <1>1, <1>3, <3>2 DEF Orders, IsInjective
      <4>2. paid'[fate[q]] = IF q < p THEN Prize[q] ELSE Read(c, fate[q])
        BY <1>1, <1>6, <2>2, <4>1 DEF Halfway
      <4>3. q < at'[c] <=> q < p
        BY <1>3, <2>1, <3>2
      <4> QED BY <4>2, <4>3
    <3> QED BY <3>1, <3>2
  <2>3. c \notin Watchdogs => raked' = 0 /\ swept' = 0
    BY <1>1 DEF Halfway
  <2>4. fate' = fate /\ seen' = seen
    BY <1>1
  <2>5. \A q \in Places : fate[q] \in Bankrolled =>
          paid'[fate[q]] = IF q < at'[c] THEN Prize[q]
                           ELSE IF c \in Watchdogs THEN seen[c][fate[q]] ELSE 0
    BY <2>2 DEF Read
  <2> HIDE DEF p, f
  <2> QED BY <2>1, <2>3, <2>4, <2>5 DEF Halfway, Read
<1>11. ASSUME NEW d \in Callers PROVE Stands(d)'
  <2>1. CASE d = c
    <3>1. pc'[c] = "pay"
      BY <1>1 DEF PayPlace
    <3> QED BY <1>1, <1>10, <2>1, <3>1 DEF Stands, Inside
  <2>2. CASE d # c
    BY <1>1, <2>2, Waiting
  <2> QED BY <2>1, <2>2
<1> QED BY <1>7, <1>8, <1>9, <1>11 DEF IInv

-----------------------------------------------------------------------------
(* The specification.                                                      *)

LEMMA InitHolds ==
  ASSUME Init
  PROVE  IInv
<1>1. Funded \in Nat
  <2>1. DOMAIN Prize = Places /\ \A p \in Places : Prize[p] \in Nat
    BY PlacesFinite DEF Places
  <2>2. SumFunction(Prize) \in Nat
    BY <2>1, PlacesFinite, SumNat DEF SumFunction
  <2> QED BY <2>2, PrizeAssumption DEF Funded
<1>2. TypeOK
  <2>1. crashes \in 0..MaxCrashes /\ raises \in 0..MaxRaises /\ drops \in 0..MaxDrops
    BY CallersAssumption DEF Init
  <2>2. raked \in Nat /\ swept \in 0..Funded
    BY <1>1 DEF Init
  <2>3. pc \in [Callers -> Spots] /\ at \in [Callers -> Nat]
        /\ seen \in [Watchdogs -> [Bankrolled -> Nat]]
    BY DEF Init, Spots
  <2> QED BY <2>1, <2>2, <2>3 DEF Init, TypeOK
<1>3. Fated
  BY DEF Init, Fated
<1>4. Ledger
  BY DEF Init, Ledger
<1>5. ASSUME NEW c \in Callers PROVE Stands(c)
  BY Outside DEF Init
<1> QED BY <1>2, <1>3, <1>4, <1>5 DEF IInv

\* What a step of a disciplined system is.
LEMMA StepCases ==
  ASSUME Disciplined, Next
  PROVE  \/ \E r \in Routes : Request(r)
         \/ \E t \in Tickers : Tick(t)
         \/ \E w \in Watchdogs : Resume(w)
         \/ \E c \in Callers : Load(c) \/ Claim(c) \/ PayPlace(c) \/ TakeRake(c) \/ Sweep(c) \/ Stamp(c)
         \/ \E c \in Callers : SaveFirst(c) \/ Settle(c) \/ Persist(c) \/ LoadFails(c) \/ Raise(c)
         \/ Crash
BY DEF Disciplined, Next, Continues, Pays

LEMMA StepKeeps ==
  ASSUME Disciplined, IInv, [Next]_vars
  PROVE  IInv'
<1>1. CASE UNCHANGED vars
  <2>1. UNCHANGED <<status, fate, books, session, row, released, holder, pc, at, seen, bounds>>
    BY <1>1 DEF vars
  <2>2. Ledger'
    BY <2>1, LedgerKept
  <2>3. TypeOK' /\ Fated'
    BY <2>1 DEF IInv, TypeOK, Fated, books, bounds
  <2>4. ASSUME NEW d \in Callers PROVE Stands(d)'
    BY <2>1, Bystander
  <2> QED BY <2>2, <2>3, <2>4 DEF IInv
<1>2. CASE Next
  <2>1. CASE \E r \in Routes : Request(r)
    BY <2>1, RequestKeeps
  <2>2. CASE \E t \in Tickers : Tick(t)
    BY <2>2, TickKeeps
  <2>3. CASE \E w \in Watchdogs : Resume(w)
    BY <2>3, ResumeKeeps
  <2>4. CASE \E c \in Callers : Load(c) \/ Claim(c) \/ PayPlace(c) \/ TakeRake(c) \/ Sweep(c) \/ Stamp(c)
    BY <2>4, LoadKeeps, ClaimKeeps, PayPlaceKeeps, TakeRakeKeeps, SweepKeeps, StampKeeps
  <2>5. ASSUME NEW c \in Callers, LoadFails(c) \/ Raise(c)
        PROVE  IInv'
    <3>1. pc[c] # "idle" /\ Leave(c)
      BY <2>5 DEF LoadFails, Raise
    <3>2. UNCHANGED <<status, row, released, books, fate, session, at, seen, crashes, drops>>
      BY <2>5 DEF LoadFails, Raise
    <3>3. raises' \in 0..MaxRaises
      BY <2>5, CallersAssumption DEF LoadFails, Raise, IInv, TypeOK
    <3> QED BY <3>1, <3>2, <3>3, LeaveKeeps
  <2>6. CASE \E c \in Callers : SaveFirst(c) \/ Settle(c) \/ Persist(c) \/ LoadFails(c) \/ Raise(c)
    BY <2>5, <2>6, SaveFirstKeeps, SettleKeeps, PersistKeeps
  <2>7. CASE Crash
    BY <2>7, CrashKeeps
  <2> QED BY <1>2, <2>1, <2>2, <2>3, <2>4, <2>6, <2>7, StepCases
<1> QED BY <1>1, <1>2

LEMMA Inductive == Disciplined /\ Spec => []IInv
<1> SUFFICES ASSUME Disciplined PROVE Spec => []IInv
  OBVIOUS
<1>1. Init => IInv
  BY InitHolds
<1>2. IInv /\ [Next]_vars => IInv'
  BY StepKeeps
<1> QED BY <1>1, <1>2, PTL DEF Spec

\* The types of the variables, of every disciplined system: the sandbox lock is
\* taken, the hands are seeded and the ledger's rows land.
THEOREM TypeCorrect == Disciplined /\ Spec => []TypeOK
<1>1. IInv => TypeOK
  BY DEF IInv
<1> QED BY <1>1, Inductive, PTL

\* A final order that somebody knows is the one the seeds decide.
LEMMA OrderFated ==
  ASSUME IInv
  PROVE  Order = fate /\ fate \in Orders /\ Owed(fate) \in [Bankrolled -> Nat]
BY OwedType DEF IInv, TypeOK, Fated, Order

\* A payout cut short at any point has paid each finisher nothing or all.
THEOREM AllOrNothing == Disciplined /\ Spec => []NoneOrAll
<1>1. IInv => NoneOrAll
  BY OrderFated DEF IInv, Ledger, NoneOrAll
<1> QED BY <1>1, Inductive, PTL

\* Nobody is ever credited more than his prize.
THEOREM NoDoublePay == Disciplined /\ Spec => []NeverDoublePays
<1>1. IInv => NeverDoublePays
  BY OrderFated DEF IInv, Ledger, NeverDoublePays
<1> QED BY <1>1, Inductive, PTL

\* The escrow never pays what it does not hold.
THEOREM NoOverdraft == Disciplined /\ Spec => []NeverOverdrawn
<1>1. IInv => NeverOverdrawn
  BY Solvent DEF NeverOverdrawn
<1> QED BY <1>1, Inductive, PTL

\* A complete payout has settled every debt and emptied the escrow.
THEOREM CompleteIsSettled == Disciplined /\ Spec => []SettledExactly
<1>1. IInv => SettledExactly
  BY OrderFated DEF IInv, Ledger, Done, SettledExactly
<1> QED BY <1>1, Inductive, PTL

\* After the stamp no step touches the books.
THEOREM ClosedForGood == Disciplined /\ Spec => BooksStayClosed
<1> SUFFICES ASSUME Disciplined PROVE Spec => BooksStayClosed
  OBVIOUS
<1>1. ASSUME IInv, [Next]_vars, status = "complete" PROVE UNCHANGED books
  <2>1. ASSUME NEW c \in Callers PROVE pc[c] \notin {"pay", "sweep", "stamp"}
    BY <1>1 DEF IInv, Stands
  <2>2. CASE UNCHANGED vars
    BY <2>2 DEF vars
  <2>3. CASE Next
    <3>1. ~ \E c \in Callers : PayPlace(c) \/ TakeRake(c) \/ Sweep(c)
      BY <2>1 DEF PayPlace, TakeRake, Sweep
    <3> QED BY <1>1, <2>3, <3>1, StepCases DEF Request, Tick, Resume, Load, Claim, Stamp, SaveFirst,
                                            Settle, Persist, LoadFails, Raise, Crash
  <2> QED BY <1>1, <2>2, <2>3
<1>2. IInv /\ [Next]_vars => [status = "complete" => UNCHANGED books]_vars
  BY <1>1
<1>3. Spec => []IInv
  BY Inductive
<1> QED BY <1>2, <1>3, PTL DEF Spec, BooksStayClosed

\* The payout implements the abstract books: every step pays one finisher his
\* whole prize, closes books that are settled, or shows nothing.
THEOREM Implements == Disciplined /\ Spec => ImplementsPrizes
<1> SUFFICES ASSUME Disciplined PROVE Spec => ImplementsPrizes
  OBVIOUS
<1>1. Init => Books!Init
  BY DEF Init, Books!Init
<1>2. ASSUME IInv, [Next]_vars PROVE [Books!Next]_(Books!vars)
  <2>1. ASSUME UNCHANGED <<fate, credited, status>> PROVE UNCHANGED Books!vars
    BY <2>1 DEF Books!vars
  <2>2. CASE UNCHANGED vars
    BY <2>1, <2>2 DEF vars, books
  <2>3. ASSUME NEW c \in Callers, PayPlace(c) PROVE [Books!Next]_(Books!vars)
    <3> DEFINE f == fate[at[c]]
    <3>1. /\ at[c] \in Places /\ fate' = fate /\ status' = status
          /\ \/ UNCHANGED credited
             \/ /\ f \in Bankrolled /\ paid[f] = 0
                /\ paid' = [paid EXCEPT ![f] = Prize[at[c]]]
                /\ credited' = paid'
      BY <1>2, <2>3, OnePlace
    <3>2. CASE UNCHANGED credited
      BY <2>1, <3>1, <3>2
    <3>3. CASE /\ f \in Bankrolled /\ paid[f] = 0
               /\ paid' = [paid EXCEPT ![f] = Prize[at[c]]]
               /\ credited' = paid'
      <4>1. Owed(fate)[f] = Prize[at[c]] /\ credited = paid /\ Owed(fate)' = Owed(fate)
        BY <1>2, <3>1, <3>3, OwedAtPlace DEF IInv, TypeOK, Ledger, Owed
      <4>2. Books!PayOff(f)
        BY <3>1, <3>3, <4>1 DEF Books!PayOff
      <4> QED BY <3>3, <4>2 DEF Books!Next
    <3> QED BY <3>1, <3>2, <3>3
  <2>4. ASSUME NEW c \in Callers, Stamp(c) PROVE [Books!Next]_(Books!vars)
    <3>1. credited = Owed(fate) /\ UNCHANGED <<fate, credited>>
      BY <1>2, <2>4 DEF Stamp, IInv, Ledger, Stands, Done, books
    <3>2. CASE status' = status
      BY <2>1, <3>1, <3>2
    <3>3. CASE status' = "complete"
      BY <3>1, <3>3 DEF Books!Next, Books!Close, Owed
    <3> QED BY <2>4, <3>2, <3>3 DEF Stamp
  <2>5. ASSUME NEW c \in Callers, Claim(c) PROVE [Books!Next]_(Books!vars)
    <3>1. UNCHANGED <<fate, credited>> /\ status # "complete" /\ status' # "complete"
      BY <1>2, <2>5 DEF Claim, IInv, Stands, books
    <3> QED BY <3>1 DEF Books!vars, Owed
  <2>6. CASE \E c \in Callers : TakeRake(c) \/ Sweep(c)
    BY <2>1, <2>6 DEF TakeRake, Sweep
  <2>7. CASE UNCHANGED <<fate, books, status>>
    BY <2>1, <2>7 DEF books
  <2>8. CASE Next
    <3>1. \/ \E c \in Callers : Load(c) \/ SaveFirst(c) \/ Settle(c) \/ Persist(c) \/ LoadFails(c) \/ Raise(c)
          \/ \E r \in Routes : Request(r)
          \/ \E t \in Tickers : Tick(t)
          \/ \E w \in Watchdogs : Resume(w)
          \/ Crash
          => UNCHANGED <<fate, books, status>>
      BY DEF Load, SaveFirst, Settle, Persist, LoadFails, Raise, Request, Tick, Resume, Crash
    <3> QED BY <2>3, <2>4, <2>5, <2>6, <2>7, <2>8, <3>1, StepCases
  <2> QED BY <1>2, <2>2, <2>8
<1>3. Spec => []IInv
  BY Inductive
<1> QED BY <1>1, <1>2, <1>3, PTL DEF Spec, ImplementsPrizes, Books!Spec

-----------------------------------------------------------------------------
(* The schedule.                                                           *)

\* More units of m are at least one unit more.
LEMMA UnitMore ==
  ASSUME NEW x \in Int, NEW y \in Int, NEW m \in Nat, x > y
  PROVE  x * m >= y * m + m
<1>1. PICK z \in Nat : x = y + 1 + z
  <2>1. x - y - 1 \in Nat /\ x = y + 1 + (x - y - 1)
    OBVIOUS
  <2> QED BY <2>1
<1>2. x * m = y * m + m + z * m /\ z * m \in Nat /\ y * m \in Int
  BY <1>1
<1> QED BY <1>2

\* The greater and the lesser of two.
LEMMA TwoMax ==
  ASSUME NEW a \in Int, NEW b \in Int
  PROVE  /\ Max({a, b}) \in {a, b} /\ Max({a, b}) >= a /\ Max({a, b}) >= b
         /\ Min({a, b}) \in {a, b} /\ Min({a, b}) <= a /\ Min({a, b}) <= b
<1>1. \E x \in {a, b} : \A y \in {a, b} : x >= y
  <2>1. CASE a >= b
    BY <2>1
  <2>2. CASE b >= a
    BY <2>2
  <2> QED BY <2>1, <2>2
<1>2. \E x \in {a, b} : \A y \in {a, b} : x <= y
  <2>1. CASE a <= b
    BY <2>1
  <2>2. CASE b <= a
    BY <2>2
  <2> QED BY <2>1, <2>2
<1> QED BY <1>1, <1>2 DEF Max, Min

\* Quotient and remainder.
LEMMA Divides ==
  ASSUME NEW a \in Nat, NEW b \in Nat \ {0}
  PROVE  /\ a \div b \in Nat /\ a % b \in 0..(b - 1)
         /\ a = ((a \div b) * b) + (a % b)
OBVIOUS

\* Three tenths of the field are places, give or take half a place.
LEMMA PaidThreeTenths ==
  ASSUME NEW n \in Nat \ {0}
  PROVE  /\ PaidPlaces(n) \in 1..n
         /\ PaidPlaces(n) > 1 => 10 * PaidPlaces(n) \in (3 * n - 5)..(3 * n + 5)
<1> DEFINE t == RoundTenths(3 * n)
<1>1. t \in Nat /\ 10 * t \in (3 * n - 5)..(3 * n + 5)
  <2> DEFINE q == (3 * n) \div 10
             r == (3 * n) % 10
  <2>1. q \in Nat /\ r \in 0..9 /\ 3 * n = q * 10 + r
    BY Divides
  <2>2. t = IF r > 5 \/ (r = 5 /\ q % 2 = 1) THEN q + 1 ELSE q
    BY DEF RoundTenths
  <2> HIDE DEF q, r, t
  <2>3. (t = q + 1 /\ r >= 5) \/ (t = q /\ r <= 5)
    BY <2>1, <2>2
  <2> QED BY <2>1, <2>3
<1> HIDE DEF t
<1>2. PICK m \in Int : m = Max({1, t}) /\ m \in {1, t} /\ m >= 1 /\ m >= t
  <2>1. 1 \in Int /\ t \in Int
    BY <1>1
  <2>2. Max({1, t}) \in {1, t} /\ Max({1, t}) >= 1 /\ Max({1, t}) >= t
    BY ONLY <2>1, TwoMax
  <2> QED BY <2>1, <2>2
<1>3. m \in {1, t} /\ m >= 1 /\ m >= t
  BY <1>2
<1>4. PICK p \in Int : p = Min({n, m}) /\ p \in {n, m} /\ p <= n /\ p <= m
  <2>1. n \in Int /\ m \in Int
    OBVIOUS
  <2>2. Min({n, m}) \in {n, m} /\ Min({n, m}) <= n /\ Min({n, m}) <= m
    BY ONLY <2>1, TwoMax
  <2> QED BY <2>1, <2>2
<1>5. p \in {n, m} /\ p <= n /\ p <= m
  BY <1>4
<1>6. PaidPlaces(n) = p
  BY <1>2, <1>4 DEF PaidPlaces, t
<1>7. p \in 1..n
  BY <1>3, <1>5
<1>8. p > 1 => 10 * p \in (3 * n - 5)..(3 * n + 5)
  BY <1>1, <1>3, <1>5
<1> QED BY <1>6, <1>7, <1>8

\* The shares: the winner's is positive, and nobody's is greater.
LEMMA WeightsFall ==
  ASSUME NEW places \in Nat \ {0}
  PROVE  /\ Weights(places) \in [1..places -> Nat]
         /\ Weights(places)[1] > 0
         /\ \A i \in 1..places : Weights(places)[i] <= Weights(places)[1]
<1> DEFINE front == Len(Curve)
           rest == Max({0, 100 - Total(Curve)})
<1>1. /\ front \in Nat /\ front > 0 /\ DOMAIN Curve = 1..front /\ Curve[1] \in Nat /\ Curve[1] > 0
      /\ \A i \in 1..front : Curve[i] \in Nat /\ Curve[i] <= Curve[1]
  BY CurveAssumption
<1>2. Total(Curve) \in Int
  <2>1. IsFiniteSet(DOMAIN Curve)
    BY <1>1, FS_Interval
  <2>2. SumFunctionOnSet(Curve, DOMAIN Curve) \in Nat
    BY <1>1, <2>1, SumNat
  <2> QED BY <2>2 DEF Total, SumFunction
<1>3. rest \in Nat /\ rest <= Curve[1]
  <2>1. PICK left \in Int : left = 100 - Total(Curve)
    BY <1>2
  <2>2. 0 \in Int /\ left \in Int
    OBVIOUS
  <2>3. Max({0, left}) \in {0, left} /\ Max({0, left}) >= 0
    BY ONLY <2>2, TwoMax
  <2>4. left <= Curve[1]
    BY <2>1, CurveAssumption
  <2> QED BY <1>1, <2>1, <2>3, <2>4
<1>4. \A i \in 1..places : Weights(places)[i] = IF places <= front THEN Curve[i]
            ELSE IF i <= front THEN Curve[i] * (places - front)
            ELSE rest
  BY DEF Weights
<1>5. Weights(places) = [i \in 1..places |-> Weights(places)[i]]
  BY DEF Weights
<1> HIDE DEF front, rest
<1>6. CASE places <= front
  BY <1>1, <1>4, <1>5, <1>6
<1>7. CASE places > front
  <2>1. PICK k \in Nat \ {0} : k = places - front
    BY <1>1, <1>7
  <2>2. \A a, b \in Nat : a <= b => a * k <= b * k /\ a * k \in Nat
    <3> SUFFICES ASSUME NEW a \in Nat, NEW b \in Nat, a <= b PROVE a * k <= b * k /\ a * k \in Nat
      OBVIOUS
    <3>1. CASE a = b
      BY <3>1
    <3>2. CASE b > a
      <4>1. b * k >= a * k + k
        BY <3>2, UnitMore
      <4>2. a * k \in Nat /\ b * k \in Nat
        OBVIOUS
      <4> QED BY <4>1, <4>2
    <3> QED BY <3>1, <3>2
  <2>3. Curve[1] <= Curve[1] * k /\ Curve[1] * k > 0
    <3>1. PICK j \in Nat : k = j + 1
      <4>1. k - 1 \in Nat /\ k = (k - 1) + 1
        OBVIOUS
      <4> QED BY <4>1
    <3>2. Curve[1] * k = Curve[1] * j + Curve[1] /\ Curve[1] * j \in Nat
      BY <1>1, <3>1
    <3> QED BY <1>1, <3>2
  <2>4. \A i \in 1..places : Weights(places)[i] = IF i <= front THEN Curve[i] * k ELSE rest
    BY <1>4, <1>7, <2>1, <1>1
  <2>5. Weights(places)[1] = Curve[1] * k
    BY <1>1, <2>4
  <2>6. \A i \in 1..places : i <= front => Curve[i] * k \in Nat /\ Curve[i] * k <= Curve[1] * k
    BY <1>1, <2>2
  <2>7. \A i \in 1..places : Weights(places)[i] \in Nat /\ Weights(places)[i] <= Weights(places)[1]
    BY <1>1, <1>3, <2>3, <2>4, <2>5, <2>6
  <2> QED BY <1>5, <2>3, <2>5, <2>7
<1> QED BY <1>1, <1>6, <1>7

\* The quotients: each is the whole part of a share, and together they are within the pool.
LEMMA QuotientsFit ==
  ASSUME NEW places \in Nat \ {0}, NEW w \in [1..places -> Nat], w[1] > 0,
         \A i \in 1..places : w[i] <= w[1], NEW pool \in Nat
  PROVE  /\ Total(w) \in Nat \ {0} /\ Quotient(w, pool) \in [1..places -> Nat]
         /\ \A i \in 1..places : /\ Quotient(w, pool)[i] * Total(w) <= w[i] * pool
                                 /\ w[i] * pool < Quotient(w, pool)[i] * Total(w) + Total(w)
                                 /\ Quotient(w, pool)[i] <= Quotient(w, pool)[1]
                                 /\ i \in MayFallShort(w, pool) =>
                                      w[i] * pool = Quotient(w, pool)[i] * Total(w) /\ Quotient(w, pool)[i] > 0
         /\ Total(Quotient(w, pool)) <= pool /\ Total(Quotient(w, pool)) \in Nat
<1> DEFINE S == 1..places
           W == Total(w)
           q == Quotient(w, pool)
<1>1. IsFiniteSet(S) /\ 1 \in S /\ DOMAIN w = S
  BY FS_Interval
<1>2. W \in Nat \ {0}
  <2>1. W = SumFunctionOnSet(w, S)
    BY <1>1 DEF Total, SumFunction
  <2>2. \A x \in S : w[x] \in Nat
    OBVIOUS
  <2>3. SumFunctionOnSet(w, S) \in Nat /\ w[1] <= SumFunctionOnSet(w, S)
    BY <1>1, <2>2, SumNat, SumMember
  <2> QED BY <1>1, <2>1, <2>2, <2>3
<1>3. \A i \in S : w[i] * pool \in Nat
  OBVIOUS
<1>4. \A i \in S : q[i] = (w[i] * pool) \div W
  BY <1>1 DEF Quotient
<1>5. \A i \in S : /\ q[i] \in Nat /\ (w[i] * pool) % W \in 0..(W - 1)
                   /\ w[i] * pool = q[i] * W + ((w[i] * pool) % W)
  <2> SUFFICES ASSUME NEW i \in S
               PROVE  /\ q[i] \in Nat /\ (w[i] * pool) % W \in 0..(W - 1)
                      /\ w[i] * pool = q[i] * W + ((w[i] * pool) % W)
    OBVIOUS
  <2>1. PICK share \in Nat : share = w[i] * pool
    BY <1>3
  <2>2. PICK d \in Nat \ {0} : d = W
    BY <1>2
  <2>3. share \div d \in Nat /\ share % d \in 0..(d - 1) /\ share = (share \div d) * d + (share % d)
    BY Divides
  <2>4. q[i] = share \div d /\ (w[i] * pool) % W = share % d
    BY <1>4, <2>1, <2>2
  <2> QED BY ONLY <2>1, <2>2, <2>3, <2>4
<1>6. q \in [S -> Nat]
  <2>1. q = [i \in S |-> (w[i] * pool) \div W]
    BY <1>1 DEF Quotient
  <2> QED BY <1>4, <1>5, <2>1
<1>7. \A i \in S : i \in MayFallShort(w, pool) => (w[i] * pool) % W = 0 /\ q[i] > 0
  BY DEF MayFallShort
<1> HIDE DEF W, q, S
<1>8. \A i \in S : q[i] * W \in Nat
  BY <1>2, <1>5
<1>9. \A i \in S : /\ q[i] * W <= w[i] * pool /\ w[i] * pool < q[i] * W + W
                   /\ i \in MayFallShort(w, pool) => w[i] * pool = q[i] * W /\ q[i] > 0
  <2> SUFFICES ASSUME NEW i \in S
               PROVE  /\ q[i] * W <= w[i] * pool /\ w[i] * pool < q[i] * W + W
                      /\ i \in MayFallShort(w, pool) => w[i] * pool = q[i] * W /\ q[i] > 0
    OBVIOUS
  <2>1. PICK share \in Nat, part \in Nat, d \in Nat \ {0} : share = w[i] * pool /\ part = q[i] * W /\ d = W
    BY <1>2, <1>3, <1>8
  <2>2. PICK m \in 0..(d - 1) : m = (w[i] * pool) % W
    BY <1>5, <2>1
  <2>3. share = part + m
    BY <1>5, <2>1, <2>2
  <2>4. part <= share /\ share < part + d /\ (m = 0 => share = part)
    BY <2>3
  <2> QED BY <1>7, <2>1, <2>2, <2>4
<1>10. \A i \in S : q[i] <= q[1]
  <2> SUFFICES ASSUME NEW i \in S, q[i] > q[1] PROVE FALSE
    BY <1>1, <1>5
  <2>1. q[i] * W >= q[1] * W + W
    <3>1. q[i] \in Int /\ q[1] \in Int /\ W \in Nat /\ q[i] > q[1]
      <4>1. q[1] \in Nat
        BY <1>1, <1>5
      <4>2. q[i] \in Nat
        BY <1>5
      <4> QED BY <1>2, <4>1, <4>2
    <3> QED BY ONLY <3>1, UnitMore
  <2>2. w[i] * pool <= w[1] * pool
    <3>1. w[i] \in Nat /\ w[1] \in Nat /\ w[i] <= w[1]
      BY <1>1 DEF S
    <3>2. CASE w[i] = w[1]
      BY <1>1, <1>3, <3>2
    <3>3. CASE w[1] > w[i]
      <4>1. w[1] * pool >= w[i] * pool + pool
        <5>1. w[1] \in Int /\ w[i] \in Int /\ pool \in Nat /\ w[1] > w[i]
          BY <3>1, <3>3
        <5> QED BY ONLY <5>1, UnitMore
      <4> QED BY <1>1, <1>3, <4>1
    <3> QED BY <3>1, <3>2, <3>3
  <2>3. PICK x \in Nat, y \in Nat, d \in Nat \ {0} : x = q[i] * W /\ y = q[1] * W /\ d = W
    BY <1>1, <1>2, <1>8
  <2>4. PICK u \in Nat, v \in Nat : u = w[i] * pool /\ v = w[1] * pool
    BY <1>1, <1>3
  <2>5. x <= u /\ v < y + d /\ x >= y + d /\ u <= v
    BY <1>1, <1>9, <2>1, <2>2, <2>3, <2>4
  <2> QED BY <2>5
<1>11. Total(q) <= pool /\ Total(q) \in Nat
  <2> DEFINE f == [i \in S |-> W * q[i]]
             g == [i \in S |-> pool * w[i]]
  <2>1. Total(q) = SumFunctionOnSet(q, S) /\ W = SumFunctionOnSet(w, S)
    BY <1>1, <1>6 DEF Total, SumFunction, W
  <2>2. \A i \in S : q[i] \in Nat /\ w[i] \in Nat /\ q[i] \in Int /\ w[i] \in Int
    BY <1>5 DEF S
  <2>3. SumFunctionOnSet(q, S) \in Nat
    BY <1>1, <2>2, SumNat
  <2>4. SumFunctionOnSet(f, S) = W * SumFunctionOnSet(q, S)
    BY <1>1, <1>2, <2>2, SumScale
  <2>5. SumFunctionOnSet(g, S) = pool * SumFunctionOnSet(w, S)
    BY <1>1, <2>2, SumScale
  <2>6. \A i \in S : f[i] \in Int /\ g[i] \in Int /\ f[i] <= g[i]
    <3> SUFFICES ASSUME NEW i \in S PROVE f[i] \in Int /\ g[i] \in Int /\ f[i] <= g[i]
      OBVIOUS
    <3>1. f[i] = q[i] * W /\ g[i] = w[i] * pool
      BY <1>2, <2>2
    <3> QED BY <1>3, <1>8, <1>9, <3>1
  <2>7. SumFunctionOnSet(f, S) <= SumFunctionOnSet(g, S)
    <3> HIDE DEF f, g
    <3> QED BY <1>1, <2>6, SumLe
  <2>8. PICK t \in Nat : t = SumFunctionOnSet(q, S)
    BY <2>3
  <2>9. W * t <= pool * W
    BY <2>1, <2>4, <2>5, <2>7, <2>8
  <2>10. t <= pool
    <3> SUFFICES ASSUME t > pool PROVE FALSE
      BY <2>8
    <3>1. t * W >= pool * W + W
      BY <1>2, UnitMore
    <3>2. t * W = W * t /\ t * W \in Nat /\ pool * W \in Nat
      BY <1>2
    <3> QED BY <1>2, <2>9, <3>1, <3>2
  <2> QED BY <2>1, <2>8, <2>10
<1> QED BY <1>2, <1>6, <1>9, <1>10, <1>11 DEF S, W, q

\* A sum over places changes by what the first of them gains.
LEMMA FirstChanges ==
  ASSUME NEW n \in Nat \ {0}, NEW f, NEW g,
         \A x \in 1..n : f[x] \in Int /\ g[x] \in Int,
         \A x \in (1..n) \ {1} : g[x] = f[x]
  PROVE  SumFunctionOnSet(g, 1..n) = SumFunctionOnSet(f, 1..n) + (g[1] - f[1])
<1>1. PICK S : S = 1..n
  OBVIOUS
<1>2. PICK o \in S : o = 1
  BY <1>1
<1>3. IsFiniteSet(S)
  BY <1>1, FS_Interval
<1>4. /\ \A x \in S : f[x] \in Int /\ g[x] \in Int
      /\ \A x \in S \ {o} : g[x] = f[x]
  BY <1>1, <1>2
<1>5. SumFunctionOnSet(g, S) = SumFunctionOnSet(f, S) + (g[o] - f[o])
  BY ONLY <1>3, <1>4, o \in S, SumChange
<1> QED BY <1>1, <1>2, <1>5

\* What truncation and the residual make of the quotients, as long as they fit the pool.
LEMMA ResidualFits ==
  ASSUME NEW places \in Nat \ {0}, NEW pool \in Nat,
         NEW q \in [1..places -> Nat], \A i \in 1..places : q[i] <= q[1], Total(q) <= pool,
         NEW a \in [1..places -> Nat], \A i \in 1..places : a[i] <= q[i]
  PROVE  /\ WithResidual(a, pool) \in [1..places -> Nat] /\ Total(WithResidual(a, pool)) = pool
         /\ q[1] <= WithResidual(a, pool)[1]
<1>0. PICK s : s = WithResidual(a, pool)
  OBVIOUS
<1> DEFINE S == 1..places
           b == [a EXCEPT ![1] = q[1]]
<1>1. IsFiniteSet(S) /\ 1 \in S
  BY FS_Interval
<1>2. a \in [S -> Nat] /\ \A i \in S : a[i] <= q[i] /\ q[i] \in Nat /\ a[i] \in Nat
  OBVIOUS
<1>3. Total(a) = SumFunctionOnSet(a, S) /\ Total(q) = SumFunctionOnSet(q, S)
  BY <1>2 DEF Total, SumFunction
<1>4. /\ b[1] = q[1] /\ \A i \in S \ {1} : b[i] = a[i]
  BY <1>1, <1>2
<1> HIDE DEF b
<1>5. SumFunctionOnSet(a, S) \in Nat /\ SumFunctionOnSet(q, S) \in Nat
  BY <1>1, <1>2, SumNat
<1>6. SumFunctionOnSet(b, S) = SumFunctionOnSet(a, S) + (q[1] - a[1])
  <2>1. \A i \in S : a[i] \in Int /\ b[i] \in Int
    BY <1>1, <1>2, <1>4
  <2>2. \A i \in S \ {1} : b[i] = a[i]
    BY <1>4
  <2>3. SumFunctionOnSet(b, S) = SumFunctionOnSet(a, S) + (b[1] - a[1])
    BY <1>1, <2>1, <2>2, FirstChanges
  <2> QED BY <1>4, <2>3
<1>7. SumFunctionOnSet(b, S) <= SumFunctionOnSet(q, S)
  <2>1. \A i \in S : b[i] \in Int /\ q[i] \in Int /\ b[i] <= q[i]
    BY <1>1, <1>2, <1>4
  <2> QED BY <1>1, <2>1, SumLe
<1>8. PICK t \in Nat : t = Total(a)
  BY <1>3, <1>5
<1>9. pool - t >= q[1] - a[1] /\ pool - t \in Nat
  BY <1>1, <1>2, <1>3, <1>5, <1>6, <1>7, <1>8
<1>10. s = [a EXCEPT ![1] = a[1] + (pool - t)]
  BY <1>0, <1>1, <1>2, <1>8 DEF WithResidual
<1>11. /\ s[1] = a[1] + (pool - t) /\ \A i \in S \ {1} : s[i] = a[i]
       /\ DOMAIN s = S
  BY <1>1, <1>2, <1>10
<1>12. s \in [S -> Nat] /\ \A i \in S : s[i] \in Nat
  <2>1. a[1] + (pool - t) \in Nat
    BY <1>1, <1>2, <1>9
  <2> QED BY <1>1, <1>2, <1>10, <2>1
<1>13. Total(s) = pool
  <2>1. \A i \in S : a[i] \in Int /\ s[i] \in Int
    BY <1>2, <1>12
  <2>2. SumFunctionOnSet(s, S) = SumFunctionOnSet(a, S) + (s[1] - a[1])
    <3>1. \A i \in S \ {1} : s[i] = a[i]
      BY <1>11
    <3> QED BY <1>1, <2>1, <3>1, FirstChanges
  <2>3. Total(s) = SumFunctionOnSet(s, S)
    BY <1>11 DEF Total, SumFunction
  <2> QED BY <1>1, <1>2, <1>3, <1>8, <1>11, <2>2, <2>3
<1>14. q[1] <= s[1]
  BY <1>1, <1>2, <1>9, <1>11, <1>8
<1> QED BY <1>0, <1>12, <1>13, <1>14

\* For any field and pool, and any curve that gives the winner most.
LEMMA PrizesAreFair == UnfairDraws = {}
<1> SUFFICES ASSUME NEW n \in 1..MaxField, NEW pool \in 1..MaxPool, NEW s \in Schedules(n, pool)
             PROVE  IsFair(s, n, pool)
  BY DEF UnfairDraws
<1>1. n \in Nat \ {0} /\ pool \in Nat
  BY CurveAssumption
<1>2. PICK places \in Nat \ {0} : places = PaidPlaces(n)
  BY <1>1, PaidThreeTenths
<1>3. places \in 1..n /\ (places > 1 => 10 * places \in (3 * n - 5)..(3 * n + 5))
  BY <1>1, <1>2, PaidThreeTenths
<1> DEFINE w == Weights(places)
           q == Quotient(w, pool)
<1>4. w \in [1..places -> Nat] /\ w[1] > 0 /\ \A i \in 1..places : w[i] <= w[1]
  BY WeightsFall
<1>5. PICK short \in SUBSET MayFallShort(w, pool) : s = WithResidual(Truncated(w, pool, short), pool)
  BY <1>2 DEF Schedules
<1>6. short \in SUBSET (1..places)
  BY <1>4, <1>5 DEF MayFallShort
<1>7. Truncated(w, pool, short) = [i \in 1..places |-> q[i] - IF i \in short THEN 1 ELSE 0]
  BY <1>4 DEF Truncated
<1> HIDE DEF w
<1>w. /\ Total(w) \in Nat \ {0} /\ q \in [1..places -> Nat]
      /\ \A i \in 1..places : /\ q[i] * Total(w) <= w[i] * pool
                              /\ w[i] * pool < q[i] * Total(w) + Total(w)
                              /\ q[i] <= q[1]
                              /\ i \in MayFallShort(w, pool) => w[i] * pool = q[i] * Total(w) /\ q[i] > 0
      /\ Total(q) <= pool
  BY <1>1, <1>4, QuotientsFit
<1> HIDE DEF q
<1>8. /\ Total(w) \in Nat \ {0} /\ q \in [1..places -> Nat] /\ Total(q) <= pool
      /\ \A i \in 1..places : q[i] <= q[1]
  BY <1>w, Zenon
<1>s. \A i \in 1..places : q[i] * Total(w) <= w[i] * pool /\ w[i] * pool < q[i] * Total(w) + Total(w)
  BY <1>w, Zenon
<1>f. \A i \in short : w[i] * pool = q[i] * Total(w) /\ q[i] > 0
  <2>1. \A i \in short : i \in MayFallShort(w, pool) /\ i \in 1..places
    BY <1>5, <1>6
  <2> QED BY <1>w, <2>1, Zenon
<1>9. /\ s \in [1..places -> Nat] /\ Total(s) = pool
      /\ \A i \in 1..places : s[i] <= s[1]
      /\ \A i \in (1..places) \ {1} : s[i] = q[i] - IF i \in short THEN 1 ELSE 0
  <2>1. PICK a : a = Truncated(w, pool, short)
    OBVIOUS
  <2>2. \A i \in 1..places : a[i] = q[i] - IF i \in short THEN 1 ELSE 0
    BY <1>7, <2>1
  <2>3. \A i \in 1..places : a[i] \in Nat /\ a[i] <= q[i]
    <3> SUFFICES ASSUME NEW i \in 1..places PROVE a[i] \in Nat /\ a[i] <= q[i]
      OBVIOUS
    <3>1. q[i] \in Nat /\ (i \in short => q[i] > 0)
      BY <1>8, <1>f
    <3> QED BY <2>2, <3>1
  <2>4. a \in [1..places -> Nat]
    <3>1. a = [i \in 1..places |-> a[i]]
      BY <1>7, <2>1
    <3> QED BY <2>3, <3>1
  <2>5. /\ places \in Nat \ {0} /\ pool \in Nat /\ q \in [1..places -> Nat]
        /\ \A i \in 1..places : q[i] <= q[1]
        /\ Total(q) <= pool /\ s = WithResidual(a, pool)
    BY <1>1, <1>5, <1>8, <2>1
  <2>6. \A i \in 1..places : a[i] <= q[i]
    BY <2>3
  <2>7. s \in [1..places -> Nat] /\ Total(s) = pool /\ q[1] <= s[1]
    BY ONLY <2>4, <2>5, <2>6, ResidualFits
  <2>8. \A i \in (1..places) \ {1} : s[i] = a[i]
    BY <2>4, <2>5 DEF WithResidual
  <2>9. \A i \in 1..places : s[i] <= s[1]
    <3> SUFFICES ASSUME NEW i \in (1..places) \ {1} PROVE s[i] <= s[1]
      BY <2>7
    <3>1. s[i] = a[i] /\ a[i] <= q[i] /\ q[i] <= q[1]
      BY <2>3, <2>5, <2>8
    <3>2. a[i] \in Nat /\ q[i] \in Nat /\ q[1] \in Nat /\ s[1] \in Nat
      BY <2>3, <2>5, <2>7
    <3> QED BY <2>7, <3>1, <3>2
  <2> QED BY <2>2, <2>7, <2>8, <2>9
<1>10. Len(s) = places /\ DOMAIN s = 1..places
  BY <1>9
<1>11. \A i \in (1..places) \ {1} : w[i] * pool - s[i] * Total(w) \in 0..Total(w)
  <2> SUFFICES ASSUME NEW i \in (1..places) \ {1} PROVE w[i] * pool - s[i] * Total(w) \in 0..Total(w)
    OBVIOUS
  <2>1. PICK W \in Nat \ {0} : W = Total(w)
    BY <1>8
  <2>2. PICK x \in Nat, share \in Nat : x = q[i] /\ share = w[i] * pool
    <3>1. q[i] \in Nat /\ w[i] \in Nat
      BY <1>4, <1>8
    <3> QED BY <1>1, <3>1
  <2>3. x * W <= share /\ share < x * W + W /\ x * W \in Nat
    <3>1. q[i] * Total(w) <= w[i] * pool /\ w[i] * pool < q[i] * Total(w) + Total(w)
      BY <1>s
    <3>2. x * W \in Nat
      OBVIOUS
    <3> QED BY <2>1, <2>2, <3>1, <3>2
  <2>4. CASE i \notin short
    <3>1. s[i] = q[i] - 0
      BY <1>9, <2>4
    <3>2. s[i] = x
      BY <2>2, <3>1
    <3>3. PICK y \in Nat : y = x * W
      BY <2>3
    <3>4. share - y \in 0..W
      BY <2>3, <3>3
    <3> QED BY <2>1, <2>2, <3>2, <3>3, <3>4
  <2>5. CASE i \in short
    <3>1. share = x * W /\ s[i] = x - 1
      BY <1>f, <1>9, <2>1, <2>2, <2>5
    <3>2. (x - 1) * W = x * W - W
      BY <2>1, <2>2
    <3>3. share - (x - 1) * W = W
      BY <2>3, <3>1, <3>2
    <3> QED BY <2>1, <2>2, <3>1, <3>3
  <2> QED BY <2>4, <2>5
<1>12. \A i \in 1..places : 0 <= s[i] /\ s[i] <= s[1]
  BY <1>9
<1> QED BY <1>2, <1>3, <1>9, <1>10, <1>11, <1>12 DEF w, IsFair

\* ScheduleIsFair for every curve that gives the winner most, every field and every
\* pool: compute_payout_schedule gives out the pool to the chip and in order.
THEOREM FairSchedule == Spec => []ScheduleIsFair
<1>1. ScheduleIsFair
  BY PrizesAreFair DEF ScheduleIsFair
<1> QED BY <1>1, PTL
=============================================================================
