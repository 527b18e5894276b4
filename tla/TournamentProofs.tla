-------------------------- MODULE TournamentProofs --------------------------
(***************************************************************************)
(* Proofs about Tournament, and about LiveTable, which extends it, for     *)
(* every field, table size, order of entries and starting stack.  First    *)
(* the operators of Seating; then SeatingInv, which says who sits where in *)
(* every stage of a round and that the tables left open hold everybody,    *)
(* and ChipsInv; then PlaceInv, about those who are out; that Tournament   *)
(* implements Standings; and for LiveTable LiveInv, about the session, its *)
(* row and whatever is reported to it, that the saved session implements   *)
(* Standings, and AgreeInv, about the live game and the two rows.          *)
(***************************************************************************)
EXTENDS LiveTable, SumTheorems

LEMMA SeatFacts ==
  /\ Seats \subseteq Nat /\ IsFiniteSet(Seats) /\ Cardinality(Seats) = TableSize
  /\ TableSize \in Nat /\ TableSize >= 2
<1>1. TableSize \in Nat /\ TableSize >= 2
  BY TableSizeAssumption
<1>2. IsFiniteSet(0..(TableSize - 1)) /\ Cardinality(0..(TableSize - 1)) = TableSize
  BY <1>1, FS_Interval
<1> QED BY <1>1, <1>2 DEF Seats

LEMMA OccupiedFacts ==
  ASSUME NEW t \in Table
  PROVE  /\ Occupied(t) \subseteq Seats /\ IsFiniteSet(Occupied(t))
         /\ Size(t) \in Nat /\ Size(t) <= TableSize
         /\ Size(t) = 0 <=> Occupied(t) = {}
         /\ Size(t) = TableSize => Occupied(t) = Seats
<1>1. Occupied(t) \subseteq Seats
  BY DEF Occupied
<1>2. IsFiniteSet(Occupied(t)) /\ Cardinality(Occupied(t)) <= Cardinality(Seats)
      /\ (Cardinality(Seats) = Cardinality(Occupied(t)) => Seats = Occupied(t))
  BY <1>1, SeatFacts, FS_Subset
<1> QED BY <1>1, <1>2, SeatFacts, FS_CardinalityType, FS_EmptySet DEF Size

LEMMA NextOccupiedFacts ==
  ASSUME NEW t \in Table, Occupied(t) # {}, NEW b \in Seats
  PROVE  NextOccupied(t, b) \in Occupied(t)
<1> DEFINE laps == {Ahead(b, i) : i \in Occupied(t)}
<1>1. \A i \in Seats : Ahead(b, i) \in Nat
  BY SeatFacts, TableSizeAssumption DEF Ahead, Seats
<1>2. laps \in SUBSET Nat /\ laps # {}
  BY <1>1, OccupiedFacts
<1>3. Min(laps) \in laps /\ \A x \in laps : Min(laps) <= x
  <2> HIDE DEF laps
  <2> QED BY <1>2, NatMin
<1>4. \E i \in Occupied(t) : \A j \in Occupied(t) : Ahead(b, i) <= Ahead(b, j)
  BY <1>3
<1> QED BY <1>4 DEF NextOccupied

\* The player gets an open seat, or none if there is none.
LEMMA AddFacts ==
  ASSUME NEW t \in Table, NEW p \in Players
  PROVE  /\ Occupied(t) = Seats => Add(t, p) = t
         /\ Occupied(t) # Seats =>
              \E s \in Seats : /\ t.seats[s] = NoOne
                               /\ Add(t, p) = [t EXCEPT !.seats[s] = p]
         /\ Add(t, p) \in Table
<1>1. CASE Occupied(t) = Seats
  BY <1>1 DEF Add
<1>2. CASE Occupied(t) # Seats
  <2>1. Seats \ Occupied(t) \in SUBSET Nat /\ Seats \ Occupied(t) # {}
    BY <1>2, OccupiedFacts, SeatFacts
  <2>2. OpenSeat(t) \in Seats \ Occupied(t)
    BY <2>1, NatMin DEF OpenSeat
  <2>3. Add(t, p) = [t EXCEPT !.seats[OpenSeat(t)] = p]
    BY <1>2 DEF Add
  <2>4. t.seats[OpenSeat(t)] = NoOne
    BY <2>2 DEF Occupied
  <2>5. Add(t, p) \in Table
    BY <2>2, <2>3 DEF Table
  <2> QED BY <1>2, <2>2, <2>3, <2>4, <2>5
<1> QED BY <1>1, <1>2

LEMMA WithoutFacts ==
  ASSUME NEW t \in Table, NEW S
  PROVE  /\ Without(t, S) \in Table
         /\ \A a \in Seats : Without(t, S).seats[a] = IF t.seats[a] \in S THEN NoOne ELSE t.seats[a]
BY DEF Without, Table

\* Two orders in which the rules pick a table both have a first.
LEMMA LeastSize ==
  ASSUME NEW D \in SUBSET Nat, D # {}, IsFiniteSet(D), NEW f \in [D -> Nat]
  PROVE  /\ \E i \in D : \A j \in D : f[i] < f[j] \/ (f[i] = f[j] /\ i <= j)
         /\ \E i \in D : \A j \in D : f[i] < f[j] \/ (f[i] = f[j] /\ i >= j)
<1> DEFINE V == {f[i] : i \in D}
           M == {i \in D : f[i] = Min(V)}
<1>1. V \in SUBSET Nat /\ V # {}
  OBVIOUS
<1>2. Min(V) \in V /\ \A x \in V : Min(V) <= x
  <2> HIDE DEF V
  <2> QED BY <1>1, NatMin
<1>3. M \in SUBSET Nat /\ M # {} /\ IsFiniteSet(M)
  BY <1>2, FS_Subset
<1>4. /\ Min(M) \in M /\ \A x \in M : Min(M) <= x
      /\ Max(M) \in M /\ \A x \in M : Max(M) >= x
  <2> HIDE DEF M
  <2> QED BY <1>3, NatMin, NatMax
<1>5. \A j \in D : f[j] \in Nat /\ (Min(V) < f[j] \/ j \in M)
  <2>1. TAKE j \in D
  <2>2. f[j] \in V /\ f[j] \in Nat
    OBVIOUS
  <2>3. Min(V) \in Nat
    BY <1>1, <1>2
  <2>4. Min(V) <= f[j]
    BY <1>2, <2>2
  <2> HIDE DEF V
  <2> QED BY <2>2, <2>3, <2>4
<1> QED BY <1>2, <1>4, <1>5

LEMMA GreatestSize ==
  ASSUME NEW D \in SUBSET Nat, D # {}, IsFiniteSet(D), NEW f \in [D -> Nat]
  PROVE  /\ \E i \in D : \A j \in D : f[i] > f[j] \/ (f[i] = f[j] /\ i <= j)
         /\ \E i \in D : \A j \in D : f[i] > f[j] \/ (f[i] = f[j] /\ i >= j)
<1> DEFINE V == {f[i] : i \in D}
           M == {i \in D : f[i] = Max(V)}
<1>1. V \in SUBSET Nat /\ V # {} /\ IsFiniteSet(V)
  <2>1. f \in Surjection(D, V)
    BY DEF Surjection
  <2>2. IsFiniteSet(V)
    BY <2>1, FS_Surjection
  <2> QED BY <2>2
<1>2. Max(V) \in V /\ \A x \in V : Max(V) >= x
  <2> HIDE DEF V
  <2> QED BY <1>1, NatMax
<1>3. M \in SUBSET Nat /\ M # {} /\ IsFiniteSet(M)
  BY <1>2, FS_Subset
<1>4. /\ Min(M) \in M /\ \A x \in M : Min(M) <= x
      /\ Max(M) \in M /\ \A x \in M : Max(M) >= x
  <2> HIDE DEF M
  <2> QED BY <1>3, NatMin, NatMax
<1>5. \A j \in D : f[j] \in Nat /\ (Max(V) > f[j] \/ j \in M)
  <2>1. TAKE j \in D
  <2>2. f[j] \in V /\ f[j] \in Nat
    OBVIOUS
  <2>3. Max(V) \in Nat
    BY <1>1, <1>2
  <2>4. Max(V) >= f[j]
    BY <1>2, <2>2
  <2> HIDE DEF V
  <2> QED BY <2>2, <2>3, <2>4
<1> QED BY <1>2, <1>4, <1>5

-----------------------------------------------------------------------------
(* Tables ts, as a whole. *)

Tables(ts) ==
    /\ DOMAIN ts \in SUBSET Nat /\ IsFiniteSet(DOMAIN ts)
    /\ \A i \in DOMAIN ts : ts[i] \in Table

\* The four rules by which a table is picked each pick one that is open.
LEMMA PickedFacts ==
  ASSUME NEW ts, Tables(ts), DOMAIN ts # {}
  PROVE  /\ BreakTable(ts) \in DOMAIN ts
         /\ FinalTable(ts) \in DOMAIN ts
         /\ Smallest(ts) \in DOMAIN ts
         /\ \A j \in DOMAIN ts : Size(ts[Smallest(ts)]) <= Size(ts[j])
         /\ Biggest(ts) \in DOMAIN ts
         /\ \A j \in DOMAIN ts : Size(ts[Biggest(ts)]) >= Size(ts[j])
<1> DEFINE f == [i \in DOMAIN ts |-> Size(ts[i])]
<1>1. f \in [DOMAIN ts -> Nat] /\ \A i \in DOMAIN ts : Size(ts[i]) \in Nat
  BY OccupiedFacts DEF Tables
<1>2. /\ \E i \in DOMAIN ts : \A j \in DOMAIN ts : f[i] < f[j] \/ (f[i] = f[j] /\ i <= j)
      /\ \E i \in DOMAIN ts : \A j \in DOMAIN ts : f[i] < f[j] \/ (f[i] = f[j] /\ i >= j)
  <2> HIDE DEF f
  <2> QED BY <1>1, LeastSize DEF Tables
<1>3. /\ \E i \in DOMAIN ts : \A j \in DOMAIN ts : f[i] > f[j] \/ (f[i] = f[j] /\ i <= j)
      /\ \E i \in DOMAIN ts : \A j \in DOMAIN ts : f[i] > f[j] \/ (f[i] = f[j] /\ i >= j)
  <2> HIDE DEF f
  <2> QED BY <1>1, GreatestSize DEF Tables
<1>4. BreakTable(ts) \in DOMAIN ts
  BY <1>2 DEF BreakTable
<1>5. FinalTable(ts) \in DOMAIN ts
  BY <1>3 DEF FinalTable
<1>6. /\ Smallest(ts) \in DOMAIN ts
      /\ \A j \in DOMAIN ts : \/ Size(ts[Smallest(ts)]) < Size(ts[j])
                              \/ Size(ts[Smallest(ts)]) = Size(ts[j])
  BY <1>2 DEF Smallest
<1>7. /\ Biggest(ts) \in DOMAIN ts
      /\ \A j \in DOMAIN ts : \/ Size(ts[Biggest(ts)]) > Size(ts[j])
                              \/ Size(ts[Biggest(ts)]) = Size(ts[j])
  BY <1>3 DEF Biggest
<1> QED BY <1>1, <1>4, <1>5, <1>6, <1>7

LEMMA TotalFacts ==
  ASSUME NEW ts, Tables(ts)
  PROVE  /\ Total(ts) \in Nat
         /\ DOMAIN ts = {} => Total(ts) = 0
         /\ \A c \in DOMAIN ts :
               Total(ts) = Size(ts[c]) + Total(Restrict(ts, DOMAIN ts \ {c}))
         /\ (\A i \in DOMAIN ts : Size(ts[i]) = TableSize)
               => Total(ts) = TableSize * Cardinality(DOMAIN ts)
<1> DEFINE D == DOMAIN ts
           f == [i \in D |-> Size(ts[i])]
<1>1. IsFiniteSet(D) /\ \A i \in D : f[i] \in Nat
  BY OccupiedFacts DEF Tables
<1>2. Total(ts) = SumFunctionOnSet(f, D)
  BY DEF Total, SumFunction
<1>3. SumFunctionOnSet(f, D) \in Nat
  <2> HIDE DEF f, D
  <2> QED BY <1>1, SumNat
<1>4. D = {} => SumFunctionOnSet(f, D) = 0
  <2> HIDE DEF f, D
  <2> QED BY <1>1, SumUnfold
<1>5. ASSUME NEW c \in D
      PROVE  Total(ts) = Size(ts[c]) + Total(Restrict(ts, D \ {c}))
  <2> DEFINE r == Restrict(ts, D \ {c})
             g == [i \in D \ {c} |-> Size(r[i])]
  <2>1. DOMAIN r = D \ {c} /\ \A i \in D \ {c} : r[i] = ts[i]
    BY DEF Restrict
  <2>2. Total(r) = SumFunctionOnSet(g, D \ {c})
    BY <2>1 DEF Total, SumFunction
  <2>3. IsFiniteSet(D \ {c})
    BY <1>1, FS_RemoveElement
  <2>4. \A i \in D \ {c} : f[i] \in Int /\ g[i] = f[i]
    BY <1>1, <2>1
  <2>5. SumFunctionOnSet(g, D \ {c}) = SumFunctionOnSet(f, D \ {c})
    <3> HIDE DEF f, g, D
    <3> QED BY <2>3, <2>4, SumCong
  <2>6. \A i \in D : f[i] \in Int
    BY <1>1
  <2>7. SumFunctionOnSet(f, D) = f[c] + SumFunctionOnSet(f, D \ {c})
    <3> HIDE DEF f, D
    <3> QED BY <1>1, <1>5, <2>6, SumRemove
  <2>8. f[c] = Size(ts[c])
    BY <1>5
  <2> QED BY <1>2, <2>2, <2>5, <2>7, <2>8
<1>6. ASSUME \A i \in D : Size(ts[i]) = TableSize
      PROVE  Total(ts) = TableSize * Cardinality(D)
  <2>1. \A i \in D : f[i] = TableSize
    BY <1>6
  <2>2. TableSize \in Int
    BY SeatFacts
  <2>3. SumFunctionOnSet(f, D) = TableSize * Cardinality(D)
    <3> HIDE DEF f, D
    <3> QED BY <1>1, <2>1, <2>2, SumConst
  <2> QED BY <1>2, <2>3
<1> QED BY <1>2, <1>3, <1>4, <1>5, <1>6

\* Sets no two of which meet hold as many elements as their sizes add up to.
LEMMA DisjointUnion ==
  ASSUME NEW D, IsFiniteSet(D), NEW X,
         \A i \in D : IsFiniteSet(X[i]),
         \A i, j \in D : i # j => X[i] \cap X[j] = {}
  PROVE  /\ IsFiniteSet(UNION {X[i] : i \in D})
         /\ Cardinality(UNION {X[i] : i \in D})
              = SumFunctionOnSet([i \in D |-> Cardinality(X[i])], D)
<1> DEFINE f == [i \in D |-> Cardinality(X[i])]
           U(s) == UNION {X[i] : i \in s}
           Good(s) == IsFiniteSet(U(s)) /\ Cardinality(U(s)) = SumFunctionOnSet(f, s)
           Bad == {s \in SUBSET D : ~Good(s)}
<1>1. Bad = {}
  <2>1. SUFFICES ASSUME Bad # {} PROVE FALSE
    OBVIOUS
  <2>2. PICK s \in Bad : \A y \in Bad : y \subseteq s => y = s
    <3>1. Bad \subseteq SUBSET D
      OBVIOUS
    <3> HIDE DEF Bad
    <3> QED BY ONLY IsFiniteSet(D), <2>1, <3>1, MinimalSubset
  <2>3. IsFiniteSet(s) /\ s \subseteq D
    BY <2>2, FS_Subset
  <2>4. CASE s = {}
    <3>1. U(s) = {}
      BY <2>4
    <3>2. SumFunctionOnSet(f, s) = 0
      <4> HIDE DEF f
      <4> QED BY <2>3, <2>4, SumUnfold
    <3> QED BY <2>2, <3>1, <3>2, FS_EmptySet
  <2>5. CASE s # {}
    <3>1. PICK a \in s : TRUE
      BY <2>5
    <3> DEFINE r == s \ {a}
    <3>2. r \in SUBSET D /\ r \subseteq s /\ r # s
      BY <2>3, <3>1
    <3>3. Good(r)
      <4>1. r \notin Bad
        BY <2>2, <3>2
      <4> HIDE DEF Good, r
      <4> QED BY <3>2, <4>1
    <3>4. U(s) = U(r) \cup X[a]
      BY <3>1
    <3>5. U(r) \cap X[a] = {}
      BY <2>3, <3>1
    <3>6. IsFiniteSet(X[a]) /\ Cardinality(X[a]) \in Nat /\ f[a] = Cardinality(X[a])
      BY <2>3, <3>1, FS_CardinalityType
    <3>7. \A i \in s : f[i] \in Int
      BY <2>3, FS_CardinalityType
    <3>8. SumFunctionOnSet(f, s) = f[a] + SumFunctionOnSet(f, r)
      <4> HIDE DEF f
      <4> QED BY <2>3, <3>1, <3>7, SumRemove
    <3>9. IsFiniteSet(U(r)) /\ Cardinality(U(r)) = SumFunctionOnSet(f, r)
      BY <3>3
    <3>10. /\ IsFiniteSet(U(s))
           /\ Cardinality(U(s)) = Cardinality(U(r)) + Cardinality(X[a]) - Cardinality({})
      <4> HIDE DEF U, r
      <4> QED BY <3>4, <3>5, <3>6, <3>9, FS_Union
    <3>11. Cardinality(U(r)) \in Nat /\ Cardinality({}) = 0
      <4> HIDE DEF U
      <4> QED BY <3>9, FS_CardinalityType, FS_EmptySet
    <3>12. Good(s)
      <4> HIDE DEF U, f, r
      <4> QED BY <3>6, <3>8, <3>9, <3>10, <3>11
    <3> QED BY <2>2, <3>12
  <2> QED BY <2>4, <2>5
<1>2. Good(D)
  BY <1>1
<1> QED BY <1>2

-----------------------------------------------------------------------------
(* Who sits where. *)

OnlyThese(ts, F) ==
    \A i \in DOMAIN ts : \A a \in Seats : ts[i].seats[a] \in F \cup {NoOne}

OneSeat(ts) ==
    \A i, j \in DOMAIN ts : \A a, b \in Seats :
        ts[i].seats[a] = ts[j].seats[b] /\ ts[i].seats[a] # NoOne => i = j /\ a = b

NoneMissing(ts, F) ==
    \A p \in F : \E i \in DOMAIN ts : \E a \in Seats : ts[i].seats[a] = p

Seated(ts, F) == Tables(ts) /\ OnlyThese(ts, F) /\ OneSeat(ts) /\ NoneMissing(ts, F)

\* What Seated says in terms of the properties.
LEMMA SeatedFacts ==
  ASSUME NEW F \in SUBSET Players, NEW ts, Seated(ts, F)
  PROVE  /\ UNION {PlayersAt(ts[i]) : i \in DOMAIN ts} = F
         /\ Total(ts) = Cardinality(F)
<1> DEFINE D == DOMAIN ts
           X == [i \in D |-> PlayersAt(ts[i])]
<1>1. NoOne \notin F
  BY NoOneAssumption
<1>2. ASSUME NEW i \in D
      PROVE  /\ IsFiniteSet(PlayersAt(ts[i])) /\ Cardinality(PlayersAt(ts[i])) = Size(ts[i])
             /\ PlayersAt(ts[i]) = {ts[i].seats[a] : a \in Occupied(ts[i])}
  <2> DEFINE o == Occupied(ts[i])
             f == [a \in o |-> ts[i].seats[a]]
  <2>1. ts[i] \in Table /\ IsFiniteSet(o) /\ o \subseteq Seats
    BY <1>2, OccupiedFacts DEF Seated, Tables
  <2>2. \A a, b \in o : f[a] = f[b] => a = b
    BY <1>2, <2>1 DEF Seated, OneSeat, Occupied
  <2>3. f \in Bijection(o, PlayersAt(ts[i]))
    <3>1. f \in [o -> PlayersAt(ts[i])] /\ \A q \in PlayersAt(ts[i]) : \E a \in o : f[a] = q
      BY DEF PlayersAt
    <3> HIDE DEF f, o
    <3> QED BY <2>2, <3>1 DEF Bijection, Injection, Surjection, IsInjective
  <2>4. ExistsBijection(o, PlayersAt(ts[i]))
    BY <2>3 DEF ExistsBijection
  <2> QED BY <2>1, <2>4, FS_Bijection DEF Size, PlayersAt
<1>3. UNION {PlayersAt(ts[i]) : i \in D} = F
  <2>1. ASSUME NEW i \in D PROVE PlayersAt(ts[i]) \subseteq F
    BY <2>1 DEF Seated, OnlyThese, PlayersAt, Occupied
  <2>2. ASSUME NEW p \in F PROVE \E i \in D : p \in PlayersAt(ts[i])
    <3>1. PICK i \in D, a \in Seats : ts[i].seats[a] = p
      BY <2>2 DEF Seated, NoneMissing
    <3>2. a \in Occupied(ts[i])
      BY <1>1, <2>2, <3>1 DEF Occupied
    <3> QED BY <3>1, <3>2 DEF PlayersAt
  <2> QED BY <2>1, <2>2
<1>4. \A i, j \in D : i # j => X[i] \cap X[j] = {}
  <2>1. SUFFICES ASSUME NEW i \in D, NEW j \in D, NEW p \in X[i] \cap X[j] PROVE i = j
    OBVIOUS
  <2>2. PICK a \in Occupied(ts[i]) : ts[i].seats[a] = p
    BY DEF PlayersAt
  <2>3. PICK b \in Occupied(ts[j]) : ts[j].seats[b] = p
    BY DEF PlayersAt
  <2> QED BY <2>2, <2>3 DEF Seated, OneSeat, Occupied
<1>5. IsFiniteSet(D) /\ \A i \in D : IsFiniteSet(X[i])
  BY <1>2 DEF Seated, Tables
<1>6. Cardinality(UNION {X[i] : i \in D}) = SumFunctionOnSet([i \in D |-> Cardinality(X[i])], D)
  <2> HIDE DEF X, D
  <2> QED BY <1>4, <1>5, DisjointUnion
<1>7. [i \in D |-> Cardinality(X[i])] = [i \in D |-> Size(ts[i])]
  BY <1>2
<1>8. UNION {X[i] : i \in D} = F
  BY <1>3
<1>9. Total(ts) = SumFunctionOnSet([i \in D |-> Size(ts[i])], D)
  BY DEF Total, SumFunction
<1> QED BY <1>3, <1>6, <1>7, <1>8, <1>9

\* Tables at which nobody sits can go.
LEMMA SeatedWithout ==
  ASSUME NEW F \in SUBSET Players, NEW ts, Seated(ts, F), NEW E \in SUBSET DOMAIN ts,
         \A i \in DOMAIN ts \ E : Occupied(ts[i]) = {}
  PROVE  Seated(Restrict(ts, E), F) /\ DOMAIN Restrict(ts, E) = E
<1> DEFINE rs == Restrict(ts, E)
<1>1. DOMAIN rs = E /\ \A i \in E : rs[i] = ts[i]
  BY DEF Restrict
<1> HIDE DEF rs
<1>2. Tables(rs)
  BY <1>1, FS_Subset DEF Seated, Tables
<1>3. OnlyThese(rs, F) /\ OneSeat(rs)
  BY <1>1 DEF Seated, OnlyThese, OneSeat
<1>4. ASSUME NEW p \in F PROVE \E i \in E : \E a \in Seats : rs[i].seats[a] = p
  <2>1. PICK i \in DOMAIN ts, a \in Seats : ts[i].seats[a] = p
    BY <1>4 DEF Seated, NoneMissing
  <2>2. a \in Occupied(ts[i])
    BY <1>4, <2>1, NoOneAssumption DEF Occupied
  <2>3. i \in E
    BY <2>2
  <2> QED BY <1>1, <2>1, <2>3
<1>5. NoneMissing(rs, F)
  BY <1>1, <1>4 DEF NoneMissing
<1>6. Seated(rs, F) /\ DOMAIN rs = E
  BY <1>1, <1>2, <1>3, <1>5 DEF Seated
<1> QED BY <1>6 DEF rs

\* The player in seat a of one table moves to another that has an open seat.
Moved(ts, src, a, dst) ==
    [i \in DOMAIN ts |-> IF i = src THEN Without(ts[i], {ts[src].seats[a]})
                         ELSE IF i = dst THEN Add(ts[i], ts[src].seats[a]) ELSE ts[i]]

LEMMA MovedFacts ==
  ASSUME NEW F \in SUBSET Players, NEW ts, Seated(ts, F),
         NEW src \in DOMAIN ts, NEW dst \in DOMAIN ts, src # dst,
         NEW a \in Occupied(ts[src]), Occupied(ts[dst]) # Seats
  PROVE  /\ Seated(Moved(ts, src, a, dst), F)
         /\ DOMAIN Moved(ts, src, a, dst) = DOMAIN ts
         /\ Occupied(Moved(ts, src, a, dst)[src]) = Occupied(ts[src]) \ {a}
         /\ \A i \in DOMAIN ts \ {src} :
               Occupied(ts[i]) \subseteq Occupied(Moved(ts, src, a, dst)[i])
<1> DEFINE p == ts[src].seats[a]
           ms == Moved(ts, src, a, dst)
<1>1. \A i \in DOMAIN ts : ts[i] \in Table
  BY DEF Seated, Tables
<1>2. a \in Seats /\ p \in F /\ p # NoOne /\ p \in Players
  <2>1. a \in Seats /\ p # NoOne
    BY DEF Occupied
  <2> QED BY <2>1 DEF Seated, OnlyThese
<1>3. PICK s \in Seats : ts[dst].seats[s] = NoOne /\ Add(ts[dst], p) = [ts[dst] EXCEPT !.seats[s] = p]
  BY <1>1, <1>2, AddFacts
<1>4. DOMAIN ms = DOMAIN ts /\ \A i \in DOMAIN ts : ms[i] \in Table
  BY <1>1, <1>2, AddFacts, WithoutFacts DEF Moved
<1>5. \A i \in DOMAIN ts : \A b \in Seats :
        ms[i].seats[b] = IF i = src THEN IF ts[i].seats[b] = p THEN NoOne ELSE ts[i].seats[b]
                         ELSE IF i = dst /\ b = s THEN p ELSE ts[i].seats[b]
  <2> SUFFICES ASSUME NEW i \in DOMAIN ts, NEW b \in Seats
               PROVE  ms[i].seats[b] =
                        IF i = src THEN IF ts[i].seats[b] = p THEN NoOne ELSE ts[i].seats[b]
                        ELSE IF i = dst /\ b = s THEN p ELSE ts[i].seats[b]
    OBVIOUS
  <2>2. CASE i = src
    <3>1. ms[i] = Without(ts[i], {p})
      BY <2>2 DEF Moved
    <3> QED BY <1>1, <2>2, <3>1, WithoutFacts
  <2>3. CASE i = dst
    <3>1. ms[i] = [ts[i] EXCEPT !.seats[s] = p]
      BY <1>3, <2>3 DEF Moved
    <3> QED BY <1>1, <2>3, <3>1 DEF Table
  <2>4. CASE i # src /\ i # dst
    BY <2>4 DEF Moved
  <2> QED BY <2>2, <2>3, <2>4
<1>6. \A i \in DOMAIN ts : \A b \in Seats : ts[i].seats[b] = p => i = src /\ b = a
  BY <1>2 DEF Seated, OneSeat
<1> HIDE DEF p, ms
<1>7. Tables(ms)
  BY <1>4 DEF Seated, Tables
<1>8. OnlyThese(ms, F)
  BY <1>2, <1>4, <1>5 DEF Seated, OnlyThese
<1>9. OneSeat(ms)
  <2>1. SUFFICES ASSUME NEW i \in DOMAIN ts, NEW j \in DOMAIN ts,
                        NEW b \in Seats, NEW c \in Seats,
                        ms[i].seats[b] = ms[j].seats[c], ms[i].seats[b] # NoOne
                 PROVE  i = j /\ b = c
    BY <1>4 DEF OneSeat
  <2>2. CASE ms[i].seats[b] = p
    <3>1. i = dst /\ b = s
      BY <1>2, <1>5, <1>6, <2>2
    <3>2. ms[j].seats[c] = p
      BY <2>1, <2>2
    <3>3. j = dst /\ c = s
      BY <1>2, <1>5, <1>6, <3>2
    <3> QED BY <3>1, <3>3
  <2>3. CASE ms[i].seats[b] # p
    <3>1. ms[i].seats[b] = ts[i].seats[b] /\ ms[j].seats[c] = ts[j].seats[c]
      BY <1>5, <2>1, <2>3
    <3>2. ts[i].seats[b] = ts[j].seats[c] /\ ts[i].seats[b] # NoOne
      BY <2>1, <3>1
    <3>3. OneSeat(ts)
      BY DEF Seated
    <3> QED BY <3>2, <3>3 DEF OneSeat
  <2> QED BY <2>2, <2>3
<1>10. NoneMissing(ms, F)
  <2>1. SUFFICES ASSUME NEW q \in F
                 PROVE  \E i \in DOMAIN ts : \E b \in Seats : ms[i].seats[b] = q
    BY <1>4 DEF NoneMissing
  <2>2. CASE q = p
    <3>1. ms[dst].seats[s] = q
      BY <1>5, <2>2
    <3> QED BY <3>1
  <2>3. CASE q # p
    <3>1. PICK i \in DOMAIN ts, b \in Seats : ts[i].seats[b] = q
      BY DEF Seated, NoneMissing
    <3>2. ~(i = dst /\ b = s)
      BY <1>3, <3>1, NoOneAssumption
    <3>3. ms[i].seats[b] = q
      BY <1>5, <2>3, <3>1, <3>2
    <3> QED BY <3>3
  <2> QED BY <2>2, <2>3
<1>11. Occupied(ms[src]) = Occupied(ts[src]) \ {a}
  BY <1>2, <1>5, <1>6 DEF Occupied, p
<1>12. \A i \in DOMAIN ts \ {src} : Occupied(ts[i]) \subseteq Occupied(ms[i])
  BY <1>2, <1>5 DEF Occupied
<1>13. Seated(ms, F)
  BY <1>7, <1>8, <1>9, <1>10 DEF Seated
<1> QED BY <1>4, <1>11, <1>12, <1>13 DEF ms

-----------------------------------------------------------------------------
(* The tables that hold a number of players. *)

LEMMA NeededFacts ==
  ASSUME NEW n \in Nat
  PROVE  /\ TablesNeeded(n) \in Nat
         /\ n <= TableSize * TablesNeeded(n)
         /\ n >= 1 => TablesNeeded(n) >= 1
<1> DEFINE m == n + TableSize - 1
           q == m \div TableSize
<1>1. TableSize \in Nat /\ TableSize >= 2 /\ m \in Nat /\ m >= n /\ n + TableSize = m + 1
  BY SeatFacts
<1>2. q \in Int /\ TableSize * q <= m /\ m < TableSize * (q + 1)
  <2> HIDE DEF m
  <2> QED BY <1>1
<1>3. TableSize * (q + 1) = TableSize * q + TableSize /\ TableSize * q \in Int
  <2> HIDE DEF q
  <2> QED BY <1>1, <1>2
<1>4. n <= TableSize * q
  <2> HIDE DEF q, m
  <2> QED BY <1>1, <1>2, <1>3
<1>5. q >= 0 /\ (n >= 1 => q >= 1)
  <2> HIDE DEF q, m
  <2> QED BY <1>1, <1>2, <1>3, <1>4
<1> QED BY <1>2, <1>4, <1>5 DEF TablesNeeded

LEMMA EntryFits ==
  ASSUME NEW e \in Nat, NEW n \in Nat, NEW N \in Nat, n >= 1, e < N, N <= TableSize * n
  PROVE  /\ e % n \in 0..(n - 1) /\ e \div n \in Seats
         /\ e = n * (e \div n) + (e % n)
<1> DEFINE q == e \div n
           r == e % n
<1>1. r \in 0..(n - 1) /\ q \in Int /\ e = n * q + r
  OBVIOUS
<1> HIDE DEF q, r
<1>2. n * q \in Int /\ TableSize \in Nat /\ n * TableSize \in Int /\ n * TableSize = TableSize * n
  BY <1>1, SeatFacts
<1>3. q >= 0
  <2>1. ASSUME q <= -1 PROVE FALSE
    <3>1. n * q <= n * (-1)
      BY <1>1, <2>1
    <3>2. n * (-1) = -n
      OBVIOUS
    <3> QED BY <1>1, <1>2, <3>1, <3>2
  <2> QED BY <1>1, <2>1
<1>4. q < TableSize
  <2>1. ASSUME q >= TableSize PROVE FALSE
    <3>1. n * q >= n * TableSize
      BY <1>1, <1>2, <2>1
    <3> QED BY <1>1, <1>2, <3>1
  <2> QED BY <1>1, <1>2, <2>1
<1>5. q \in Seats
  BY <1>1, <1>2, <1>3, <1>4 DEF Seats
<1> QED BY <1>1, <1>5 DEF q, r

\* The entrants are dealt round to the tables, each to a seat of their own.
LEMMA InitialFacts ==
  /\ Seated(InitialTables(Entry), Players)
  /\ DOMAIN InitialTables(Entry) = TableIds
<1> DEFINE n == TablesNeeded(Cardinality(Players))
           ts == InitialTables(Entry)
           Sits(p, i, s) == (Entry[p] - 1) % n = i - 1 /\ (Entry[p] - 1) \div n = s
<1>1. /\ Cardinality(Players) \in Nat /\ n \in Nat /\ n >= 1
      /\ Cardinality(Players) <= TableSize * n
  BY PlayersAssumption, FS_CardinalityType, NeededFacts
<1>2. /\ DOMAIN ts = 1..n
      /\ \A i \in 1..n : ts[i].button = 0
      /\ \A i \in 1..n : \A s \in Seats :
           ts[i].seats[s] = IF \E p \in Players : Sits(p, i, s)
                            THEN CHOOSE p \in Players : Sits(p, i, s) ELSE NoOne
  BY DEF InitialTables
<1>3. \A i \in 1..n : ts[i] \in Table
  <2> SUFFICES ASSUME NEW i \in 1..n PROVE ts[i] \in Table
    OBVIOUS
  <2>1. 0 \in Seats
    BY SeatFacts DEF Seats
  <2> QED BY <2>1 DEF InitialTables, Table
<1>4. \A p \in Players : /\ Entry[p] - 1 \in Nat /\ Entry[p] - 1 < Cardinality(Players)
                         /\ (Entry[p] - 1) % n \in 0..(n - 1) /\ (Entry[p] - 1) \div n \in Seats
                         /\ Entry[p] - 1 = n * ((Entry[p] - 1) \div n) + ((Entry[p] - 1) % n)
  <2> SUFFICES ASSUME NEW p \in Players
               PROVE  /\ Entry[p] - 1 \in Nat /\ Entry[p] - 1 < Cardinality(Players)
                      /\ (Entry[p] - 1) % n \in 0..(n - 1) /\ (Entry[p] - 1) \div n \in Seats
                      /\ Entry[p] - 1 = n * ((Entry[p] - 1) \div n) + ((Entry[p] - 1) % n)
    OBVIOUS
  <2> DEFINE e == Entry[p] - 1
  <2>1. e \in Nat /\ e < Cardinality(Players)
    BY <1>1, EntryAssumption
  <2> HIDE DEF e, n
  <2>2. e % n \in 0..(n - 1) /\ e \div n \in Seats /\ e = n * (e \div n) + (e % n)
    BY ONLY <1>1, <2>1, EntryFits
  <2> QED BY <2>1, <2>2 DEF e
<1> HIDE DEF ts, n
<1>5. ASSUME NEW i \in 1..n, NEW s \in Seats, ts[i].seats[s] # NoOne
      PROVE  ts[i].seats[s] \in Players /\ Sits(ts[i].seats[s], i, s)
  BY <1>2, <1>5
<1>6. ASSUME NEW p \in Players, NEW q \in Players,
             (Entry[p] - 1) % n = (Entry[q] - 1) % n,
             (Entry[p] - 1) \div n = (Entry[q] - 1) \div n
      PROVE  p = q
  <2>1. Entry[p] - 1 = Entry[q] - 1
    BY <1>4, <1>6
  <2>2. Entry[p] = Entry[q]
    BY <1>1, <2>1, EntryAssumption
  <2> QED BY <2>2, EntryAssumption
<1>7. Tables(ts)
  <2>1. DOMAIN ts = 1..n
    BY <1>2
  <2>2. IsFiniteSet(1..n) /\ 1..n \subseteq Nat
    BY <1>1, FS_Interval
  <2> QED BY <1>3, <2>1, <2>2 DEF Tables
<1>8. OnlyThese(ts, Players)
  BY <1>2, <1>5 DEF OnlyThese
<1>9. OneSeat(ts)
  <2>1. SUFFICES ASSUME NEW i \in 1..n, NEW j \in 1..n, NEW a \in Seats, NEW b \in Seats,
                        ts[i].seats[a] = ts[j].seats[b], ts[i].seats[a] # NoOne
                 PROVE  i = j /\ a = b
    BY <1>2 DEF OneSeat
  <2>2. Sits(ts[i].seats[a], i, a)
    BY <1>5, <2>1
  <2>3. Sits(ts[j].seats[b], j, b)
    BY <1>5, <2>1
  <2>4. i - 1 = j - 1 /\ a = b
    BY <2>1, <2>2, <2>3
  <2> QED BY <1>1, <2>4
<1>10. NoneMissing(ts, Players)
  <2>1. SUFFICES ASSUME NEW p \in Players
                 PROVE  \E i \in 1..n : \E s \in Seats : ts[i].seats[s] = p
    BY <1>2 DEF NoneMissing
  <2> DEFINE i == ((Entry[p] - 1) % n) + 1
             s == (Entry[p] - 1) \div n
  <2>2. i \in 1..n /\ s \in Seats /\ Sits(p, i, s)
    BY <1>1, <1>4
  <2>3. ts[i].seats[s] \in Players /\ Sits(ts[i].seats[s], i, s)
    BY <1>2, <2>2
  <2>4. ts[i].seats[s] = p
    BY <1>4, <1>6, <2>2, <2>3
  <2> QED BY <2>2, <2>4
<1>11. Seated(ts, Players)
  BY <1>7, <1>8, <1>9, <1>10 DEF Seated
<1> QED BY <1>2, <1>11 DEF ts, n, TableIds

\* A number is a quotient and a remainder in one way.
LEMMA OneQuotient ==
  ASSUME NEW n \in Nat, n >= 1, NEW e \in Nat, NEW q \in Nat, NEW r \in 0..(n - 1),
         e = n * q + r
  PROVE  e \div n = q /\ e % n = r
<1> DEFINE a == e \div n
           b == e % n
<1>1. a \in Int /\ b \in 0..(n - 1) /\ e = n * a + b
  OBVIOUS
<1> HIDE DEF a, b
<1>2. n * a \in Int /\ n * q \in Int /\ n * (a - q) = n * a - n * q
  BY <1>1
<1>3. a = q
  <2>1. ASSUME a - q >= 1 PROVE FALSE
    <3>1. n * (a - q) >= n * 1
      BY <1>1, <2>1
    <3> QED BY <1>1, <1>2, <3>1
  <2>2. ASSUME a - q <= -1 PROVE FALSE
    <3>1. n * (a - q) <= n * (-1)
      BY <1>1, <2>2
    <3>2. n * (-1) = -n
      OBVIOUS
    <3> QED BY <1>1, <1>2, <3>1, <3>2
  <2> QED BY <1>1, <2>1, <2>2
<1> QED BY <1>1, <1>2, <1>3 DEF a, b

\* The seats that the deal takes at each table.
LEMMA DealtSeats ==
  LET n == TablesNeeded(Cardinality(Players))
  IN  \A i \in 1..n : \A s \in Seats :
         s \in Occupied(InitialTables(Entry)[i]) <=> n * s + (i - 1) < Cardinality(Players)
<1> DEFINE N == Cardinality(Players)
           n == TablesNeeded(N)
           ts == InitialTables(Entry)
           Sits(p, i, s) == (Entry[p] - 1) % n = i - 1 /\ (Entry[p] - 1) \div n = s
<1>1. N \in Nat /\ n \in Nat /\ n >= 1 /\ N <= TableSize * n
  BY PlayersAssumption, FS_CardinalityType, NeededFacts
<1>2. \A e \in 1..N : \E p \in Players : Entry[p] = e
  <2>1. Entry \in Injection(Players, 1..N)
    BY EntryAssumption DEF Injection, IsInjective
  <2>2. IsFiniteSet(1..N) /\ Cardinality(1..N) = N
    <3> HIDE DEF N
    <3>1. Cardinality(1..N) = IF 1 > N THEN 0 ELSE N - 1 + 1
      BY <1>1, FS_Interval
    <3> QED BY <1>1, <3>1, FS_Interval
  <2>3. Entry \in Surjection(Players, 1..N)
    BY <2>1, <2>2, FS_Injection
  <2> QED BY <2>3 DEF Surjection
<1>3. SUFFICES ASSUME NEW i \in 1..n, NEW s \in Seats
               PROVE  s \in Occupied(ts[i]) <=> n * s + (i - 1) < N
  OBVIOUS
<1>4. ts[i].seats[s] = IF \E p \in Players : Sits(p, i, s)
                       THEN CHOOSE p \in Players : Sits(p, i, s) ELSE NoOne
  BY <1>1 DEF InitialTables
<1>5. s \in Occupied(ts[i]) <=> \E p \in Players : Sits(p, i, s)
  BY <1>4, NoOneAssumption DEF Occupied
<1>6. s \in Nat /\ n * s \in Nat /\ i - 1 \in 0..(n - 1) /\ n * s + (i - 1) \in Nat
  <2>1. s \in Nat /\ i - 1 \in 0..(n - 1)
    BY <1>1, SeatFacts DEF Seats
  <2> HIDE DEF n
  <2> QED BY <1>1, <2>1
<1> HIDE DEF ts, n, N
<1>7. ASSUME NEW p \in Players, Sits(p, i, s) PROVE n * s + (i - 1) < N
  <2> DEFINE e == Entry[p] - 1
  <2>1. e \in Nat /\ e < N
    BY <1>1, EntryAssumption DEF N
  <2>2. e % n = i - 1 /\ e \div n = s
    BY <1>7
  <2> HIDE DEF e
  <2>3. e = n * (e \div n) + (e % n)
    BY <1>1, <2>1
  <2> QED BY <2>1, <2>2, <2>3
<1>8. ASSUME n * s + (i - 1) < N PROVE \E p \in Players : Sits(p, i, s)
  <2>1. PICK p \in Players : Entry[p] = n * s + (i - 1) + 1
    BY <1>1, <1>2, <1>6, <1>8
  <2>2. Entry[p] - 1 = n * s + (i - 1)
    BY <1>6, <2>1
  <2>3. Entry[p] - 1 \in Nat
    BY <1>6, <2>2
  <2>4. Sits(p, i, s)
    BY <1>1, <1>6, <2>2, <2>3, OneQuotient
  <2> QED BY <2>4
<1> QED BY <1>5, <1>7, <1>8

\* As few tables as hold the field, none two players bigger than another.
Balanced(ts, F) ==
    /\ Cardinality(DOMAIN ts) = TablesNeeded(Cardinality(F))
    /\ \A i, j \in DOMAIN ts : Size(ts[i]) - Size(ts[j]) <= 1

LEMMA DealtEvenly == Balanced(InitialTables(Entry), Players)
<1> DEFINE N == Cardinality(Players)
           n == TablesNeeded(N)
           ts == InitialTables(Entry)
<1>1. N \in Nat /\ n \in Nat /\ n >= 1
  BY PlayersAssumption, FS_CardinalityType, NeededFacts
<1>2. DOMAIN ts = 1..n /\ \A i \in 1..n : ts[i] \in Table
  BY InitialFacts DEF Seated, Tables, TableIds
<1>3. Cardinality(DOMAIN ts) = n
  <2> HIDE DEF n
  <2>1. Cardinality(1..n) = IF 1 > n THEN 0 ELSE n - 1 + 1
    BY <1>1, FS_Interval
  <2> QED BY <1>1, <1>2, <2>1
<1>4. \A i \in 1..n : \A s \in Seats : s \in Occupied(ts[i]) <=> n * s + (i - 1) < N
  BY DealtSeats
<1> HIDE DEF ts, n, N
<1>5. ASSUME NEW i \in 1..n, NEW j \in 1..n PROVE Size(ts[i]) - Size(ts[j]) <= 1
  <2> DEFINE A == Occupied(ts[i])
             B == Occupied(ts[j])
             f == [s \in A \ {0} |-> s - 1]
  <2>1. /\ A \subseteq Seats /\ B \subseteq Seats /\ IsFiniteSet(A) /\ IsFiniteSet(B)
        /\ Size(ts[i]) = Cardinality(A) /\ Size(ts[j]) = Cardinality(B)
        /\ Cardinality(A) \in Nat /\ Cardinality(B) \in Nat
    BY <1>2, OccupiedFacts DEF Size
  <2>2. ASSUME NEW s \in A \ {0} PROVE s - 1 \in B
    <3>1. s \in Seats /\ s \in Nat /\ s >= 1 /\ s - 1 \in Seats
      BY <2>1, <2>2, SeatFacts DEF Seats
    <3>2. n * s + (i - 1) < N
      BY <1>4, <2>2, <3>1
    <3>3. n * (s - 1) = n * s - n /\ n * s \in Nat
      BY <1>1, <3>1
    <3>4. n * (s - 1) + (j - 1) < N
      BY <1>1, <3>2, <3>3
    <3> QED BY <1>4, <3>1, <3>4
  <2>3. f \in Injection(A \ {0}, B)
    <3>1. f \in [A \ {0} -> B] /\ \A s, u \in A \ {0} : f[s] = f[u] => s = u
      BY <2>1, <2>2 DEF Seats
    <3> HIDE DEF f, A, B
    <3> QED BY <3>1 DEF Injection, IsInjective
  <2>4. Cardinality(A \ {0}) <= Cardinality(B)
    <3> HIDE DEF f, A, B
    <3> QED BY <2>1, <2>3, FS_Injection
  <2>5. Cardinality(A \ {0}) >= Cardinality(A) - 1
    <3> HIDE DEF f, A, B
    <3>1. Cardinality(A \ {0}) = IF 0 \in A THEN Cardinality(A) - 1 ELSE Cardinality(A)
      BY <2>1, FS_RemoveElement
    <3> QED BY <2>1, <3>1
  <2>6. Cardinality(A \ {0}) \in Nat
    <3> HIDE DEF f, A, B
    <3> QED BY <2>1, FS_RemoveElement, FS_CardinalityType
  <2> HIDE DEF A, B
  <2> QED BY <2>1, <2>4, <2>5, <2>6
<1> QED BY <1>2, <1>3, <1>5 DEF Balanced, n, N, ts

-----------------------------------------------------------------------------
(* The inductive invariants: of the seats, whatever the stacks are, and of the *)
(* chips.                                                                     *)

SeatingInv ==
    /\ TypeOK
    /\ Seated(tables, field)
    /\ stage = "rebalance" => \A i \in DOMAIN tables : Occupied(tables[i]) # {}
    /\ closing # 0 =>
         /\ stage = "rebalance" /\ closing \in DOMAIN tables
         /\ Cardinality(DOMAIN tables) > 1
         /\ Cardinality(field) <= TableSize * (Cardinality(DOMAIN tables) - 1)

ChipsInv ==
    /\ ChipsConserved
    /\ stage # "hands" => \A p \in field : stacks[p] > 0

LEMMA FieldFacts ==
  ASSUME TypeOK
  PROVE  /\ IsFiniteSet(field) /\ Cardinality(field) \in Nat
         /\ field \subseteq Players
         /\ \A p \in field : stacks[p] \in Nat
BY PlayersAssumption, FS_Subset, FS_CardinalityType DEF TypeOK

LEMMA InitSeating == Init => SeatingInv
<1> SUFFICES ASSUME Init PROVE SeatingInv
  OBVIOUS
<1>1. StartingStack \in Nat /\ StartingStack > 0
  BY StackAssumption
<1>2. Seated(tables, field) /\ DOMAIN tables = TableIds
  BY InitialFacts DEF Init
<1>3. TypeOK
  <2>1. \A i \in DOMAIN tables : tables[i] \in Table
    BY <1>2 DEF Seated, Tables
  <2>2. pre \in [Players -> Nat] /\ stacks \in [Players -> Nat]
    BY <1>1 DEF Init, NoStacks
  <2>3. DOMAIN played = TableIds /\ \A i \in TableIds : played[i] \in 0..2
    BY DEF Init, NoHands
  <2> QED BY <1>2, <2>1, <2>2, <2>3 DEF Init, TypeOK
<1> QED BY <1>2, <1>3 DEF Init, SeatingInv

LEMMA InitChips == Init => ChipsInv
<1> SUFFICES ASSUME Init PROVE ChipsInv
  OBVIOUS
<1>1. StartingStack \in Nat /\ StartingStack > 0
  BY StackAssumption
<1>2. ChipsConserved
  <2> DEFINE f == [p \in field |-> stacks[p]]
  <2>1. IsFiniteSet(field) /\ field = Players
    BY PlayersAssumption DEF Init
  <2>2. \A p \in field : f[p] = StartingStack
    BY DEF Init
  <2>3. SumFunctionOnSet(f, field) = StartingStack * Cardinality(field)
    <3> HIDE DEF f
    <3> QED BY <1>1, <2>1, <2>2, SumConst
  <2>4. ChipSum(stacks) = SumFunctionOnSet(f, field)
    BY DEF ChipSum, SumFunction
  <2>5. Cardinality(Players) \in Nat
    BY PlayersAssumption, FS_CardinalityType
  <2> QED BY <1>1, <2>1, <2>3, <2>4, <2>5 DEF ChipsConserved, TotalChips
<1>3. \A p \in field : stacks[p] > 0
  BY <1>1 DEF Init
<1> QED BY <1>2, <1>3 DEF ChipsInv

LEMMA BeginRoundSeating ==
  ASSUME SeatingInv, BeginRound
  PROVE  SeatingInv'
<1> USE DEF BeginRound
<1>1. TypeOK'
  <2>1. DOMAIN played' = TableIds /\ \A i \in TableIds : played'[i] \in 0..2
    BY DEF NoHands
  <2> QED BY <2>1 DEF SeatingInv, TypeOK
<1>2. Seated(tables, field)'
  BY DEF SeatingInv, Seated, Tables, OnlyThese, OneSeat, NoneMissing
<1>3. stage' = "hands" /\ closing' = 0
  BY DEF SeatingInv
<1> QED BY <1>1, <1>2, <1>3 DEF SeatingInv

LEMMA EndRoundSeating ==
  ASSUME SeatingInv, EndRound
  PROVE  SeatingInv'
<1> USE DEF EndRound
<1>1. TypeOK'
  BY DEF SeatingInv, TypeOK
<1>2. Seated(tables, field)'
  BY DEF SeatingInv, Seated, Tables, OnlyThese, OneSeat, NoneMissing
<1> QED BY <1>1, <1>2 DEF SeatingInv

\* A result of a hand, folded into the stacks, leaves their sum what it was.
LEMMA FoldedFacts ==
  ASSUME TypeOK, NEW S, S \subseteq field, NEW result \in HandResults(S)
  PROVE  /\ Folded(result) \in [Players -> Nat]
         /\ ChipSum(Folded(result)) = ChipSum(stacks)
<1> DEFINE old == [p \in S |-> stacks[p]]
           f == [p \in field |-> stacks[p]]
           g == [p \in field |-> Folded(result)[p]]
           d == [p \in field |-> g[p] - f[p]]
<1>1. IsFiniteSet(field) /\ IsFiniteSet(S) /\ \A p \in field : p \in Players /\ stacks[p] \in Nat
  BY FieldFacts, FS_Subset
<1>2. /\ DOMAIN result = S /\ \A p \in S : result[p] \in Nat
      /\ SumFunctionOnSet(result, S) = SumFunctionOnSet(old, S)
  BY DEF HandResults, SumFunction
<1>3. Folded(result) \in [Players -> Nat]
  BY <1>1, <1>2 DEF Folded, TypeOK
<1>4. /\ \A p \in field : f[p] \in Int /\ g[p] \in Int /\ d[p] \in Int /\ g[p] = f[p] + d[p]
      /\ \A p \in S : old[p] \in Int /\ result[p] \in Int /\ d[p] \in Int
                      /\ result[p] = old[p] + d[p]
      /\ \A p \in field \ S : d[p] = 0
  <2>1. \A p \in S : p \in field /\ g[p] = result[p] /\ f[p] = old[p]
    BY <1>1, <1>2 DEF Folded
  <2>2. \A p \in field \ S : g[p] = f[p]
    BY <1>1, <1>2 DEF Folded
  <2>3. \A p \in field : f[p] \in Int /\ g[p] \in Int /\ d[p] = g[p] - f[p]
    BY <1>1, <1>3
  <2> HIDE DEF f, g, d, old
  <2> QED BY <2>1, <2>2, <2>3
<1>5. /\ ChipSum(stacks) = SumFunctionOnSet(f, field)
      /\ ChipSum(Folded(result)) = SumFunctionOnSet(g, field)
  BY DEF ChipSum, SumFunction
<1> HIDE DEF f, g, d, old
<1>6. SumFunctionOnSet(g, field) = SumFunctionOnSet(f, field) + SumFunctionOnSet(d, field)
  BY <1>1, <1>4, SumAdd
<1>7. SumFunctionOnSet(d, field) = SumFunctionOnSet(d, S)
  BY <1>1, <1>4, SumSupport
<1>8. SumFunctionOnSet(result, S) = SumFunctionOnSet(old, S) + SumFunctionOnSet(d, S)
  BY <1>1, <1>4, SumAdd
<1>9. /\ SumFunctionOnSet(d, S) \in Int /\ SumFunctionOnSet(old, S) \in Int
      /\ SumFunctionOnSet(f, field) \in Int
  BY <1>1, <1>4, SumInt
<1> QED BY <1>2, <1>3, <1>5, <1>6, <1>7, <1>8, <1>9

\* A hand changes stacks, and at its table the button.
LEMMA HandSeating ==
  ASSUME SeatingInv, NEW k \in DOMAIN tables, Occupied(tables[k]) # {},
         stage = "hands", stacks' \in [Players -> Nat],
         tables' = [tables EXCEPT ![k] = ButtonAdvanced(@)],
         DOMAIN played' = TableIds /\ \A i \in TableIds : played'[i] \in 0..2,
         UNCHANGED <<field, out, rounds, stage, auto, pre, closing>>
  PROVE  /\ SeatingInv' /\ DOMAIN tables' = DOMAIN tables
         /\ \A i \in DOMAIN tables : tables'[i].seats = tables[i].seats
<1>1. TypeOK /\ Seated(tables, field) /\ closing = 0
  BY DEF SeatingInv
<1>2. tables[k] \in Table /\ k \in TableIds
  BY <1>1 DEF TypeOK
<1>3. NextOccupied(tables[k], tables[k].button) \in Seats
  <2>1. tables[k].button \in Seats
    BY <1>2 DEF Table
  <2> QED BY <1>2, <2>1, NextOccupiedFacts, OccupiedFacts
<1>4. ButtonAdvanced(tables[k]) \in Table /\ ButtonAdvanced(tables[k]).seats = tables[k].seats
  BY <1>2, <1>3 DEF ButtonAdvanced, Table
<1>5. /\ DOMAIN tables' = DOMAIN tables
      /\ \A i \in DOMAIN tables : tables'[i] \in Table /\ tables'[i].seats = tables[i].seats
  BY <1>1, <1>4 DEF TypeOK
<1>6. Seated(tables, field)'
  <2>1. Tables(tables')
    BY <1>1, <1>5 DEF Seated, Tables
  <2>2. OnlyThese(tables', field) /\ OneSeat(tables') /\ NoneMissing(tables', field)
    BY <1>1, <1>5 DEF Seated, OnlyThese, OneSeat, NoneMissing
  <2> QED BY <2>1, <2>2 DEF Seated, Tables, OnlyThese, OneSeat, NoneMissing
<1>7. TypeOK'
  BY <1>1, <1>5 DEF TypeOK
<1> QED BY <1>1, <1>5, <1>6, <1>7 DEF SeatingInv

LEMMA PlayHandSeating ==
  ASSUME SeatingInv, NEW k \in DOMAIN tables, PlayHand(k)
  PROVE  /\ SeatingInv' /\ DOMAIN tables' = DOMAIN tables
         /\ \A i \in DOMAIN tables : tables'[i].seats = tables[i].seats
<1> USE DEF PlayHand
<1>1. TypeOK /\ Seated(tables, field)
  BY DEF SeatingInv
<1>2. Occupied(tables[k]) # {}
  <2>1. tables[k] \in Table /\ Size(tables[k]) >= 2
    BY <1>1 DEF TypeOK, CanPlay
  <2> QED BY <2>1, OccupiedFacts
<1>3. stacks' \in [Players -> Nat]
  <2>1. PlayersAt(tables[k]) \subseteq field
    BY <1>1, SeatedFacts, FieldFacts
  <2> QED BY <1>1, <2>1, FoldedFacts
<1>4. DOMAIN played' = TableIds /\ \A i \in TableIds : played'[i] \in 0..2
  BY <1>1 DEF TypeOK, CanPlay
<1> QED BY <1>2, <1>3, <1>4, HandSeating

LEMMA BustedFacts ==
  ASSUME TypeOK
  PROVE  /\ Busted \subseteq field /\ IsFiniteSet(Busted)
         /\ \A p \in field \ Busted : stacks[p] > 0
         /\ \A p \in Busted : Position(p) \in Nat
<1>1. Busted \subseteq field /\ IsFiniteSet(Busted)
  BY FieldFacts, FS_Subset DEF Busted
<1>2. ASSUME NEW p \in Busted PROVE Position(p) \in Nat
  <2> DEFINE before == {q \in Busted : PlacedBefore(q, p)}
  <2>1. before \in SUBSET field /\ IsFiniteSet(field) /\ Cardinality(field) \in Nat
    BY <1>1, FieldFacts
  <2>2. Cardinality(before) \in Nat /\ Cardinality(before) <= Cardinality(field)
    <3> HIDE DEF before
    <3> QED BY <2>1, FS_Subset, FS_CardinalityType
  <2> QED BY <2>1, <2>2 DEF Position
<1> QED BY <1>1, <1>2, FieldFacts DEF Busted

LEMMA SettleSeating ==
  ASSUME SeatingInv, Settle
  PROVE  SeatingInv'
<1> USE DEF Settle
<1> DEFINE F == field \ Busted
           left == [i \in DOMAIN tables |-> Without(tables[i], Busted)]
           E == {i \in DOMAIN tables : Occupied(left[i]) # {}}
<1>1. TypeOK /\ Seated(tables, field) /\ closing = 0
  BY DEF SeatingInv
<1>2. /\ Busted \subseteq field /\ IsFiniteSet(Busted) /\ F \subseteq Players
      /\ \A p \in F : stacks[p] > 0
      /\ IsFiniteSet(field) /\ \A p \in field : stacks[p] \in Nat
  BY <1>1, BustedFacts, FieldFacts
<1>3. NoOne \notin field
  BY <1>1, FieldFacts, NoOneAssumption
<1>4. /\ DOMAIN left = DOMAIN tables
      /\ \A i \in DOMAIN tables :
           /\ left[i] \in Table
           /\ \A a \in Seats : left[i].seats[a] =
                 IF tables[i].seats[a] \in Busted THEN NoOne ELSE tables[i].seats[a]
  BY <1>1, WithoutFacts DEF Seated, Tables
<1> HIDE DEF left
<1>5. Seated(left, F)
  <2>1. Tables(left)
    BY <1>1, <1>4 DEF Seated, Tables
  <2>2. OnlyThese(left, F)
    BY <1>1, <1>4 DEF Seated, OnlyThese
  <2>3. OneSeat(left)
    BY <1>1, <1>4 DEF Seated, OneSeat
  <2>4. NoneMissing(left, F)
    BY <1>1, <1>4 DEF Seated, NoneMissing
  <2> QED BY <2>1, <2>2, <2>3, <2>4 DEF Seated
<1>6. tables' = Restrict(left, E)
  BY DEF Cleared, left
<1>7. Seated(tables', F) /\ DOMAIN tables' = E
  <2>1. E \in SUBSET DOMAIN left /\ \A i \in DOMAIN left \ E : Occupied(left[i]) = {}
    BY <1>4
  <2> HIDE DEF E, F
  <2> QED BY <1>2, <1>5, <1>6, <2>1, SeatedWithout
<1>8. \A i \in DOMAIN tables' : Occupied(tables'[i]) # {}
  BY <1>6, <1>7 DEF Restrict
<1>9. TypeOK'
  <2>1. DOMAIN tables' \in SUBSET TableIds /\ \A i \in DOMAIN tables' : tables'[i] \in Table
    BY <1>1, <1>7 DEF Seated, Tables, TypeOK
  <2>2. pre' \in [Players -> Nat] /\ DOMAIN played' = TableIds
        /\ \A i \in TableIds : played'[i] \in 0..2
    BY DEF NoStacks, NoHands
  <2>3. out' \in SUBSET Elimination
    BY <1>1, <1>2, BustedFacts DEF TypeOK, Elimination
  <2> QED BY <1>1, <1>2, <2>1, <2>2, <2>3 DEF TypeOK
<1>10. Seated(tables, field)'
  BY <1>7 DEF Seated, Tables, OnlyThese, OneSeat, NoneMissing
<1> QED BY <1>1, <1>8, <1>9, <1>10 DEF SeatingInv

LEMMA RebalanceFacts ==
  ASSUME SeatingInv
  PROVE  /\ Tables(tables) /\ Cardinality(DOMAIN tables) \in Nat
         /\ Total(tables) = Cardinality(field) /\ Total(tables) \in Nat
         /\ \A i \in DOMAIN tables : tables[i] \in Table /\ i \in TableIds /\ i # 0
<1>1. TypeOK /\ Seated(tables, field) /\ Tables(tables)
  BY DEF SeatingInv, Seated
<1> QED BY <1>1, SeatedFacts, FieldFacts, FS_CardinalityType DEF TypeOK, Tables, TableIds

\* One table fewer still holds everybody: there is more than one, and either all
\* fit one table or there are more than are needed.
LEMMA CloseTableSeating ==
  ASSUME SeatingInv, CloseTable
  PROVE  SeatingInv'
<1> USE DEF CloseTable
<1> DEFINE D == DOMAIN tables
           n == Cardinality(D)
<1>1. Tables(tables) /\ n \in Nat /\ Total(tables) = Cardinality(field) /\ Total(tables) \in Nat
  BY RebalanceFacts
<1>2. TableSize \in Nat /\ TableSize >= 2
  BY SeatFacts
<1>3. n > 1 /\ Total(tables) <= TableSize * (n - 1)
  <2>1. CASE OneTable /\ n > 1
    <3>1. n - 1 \in Nat /\ n - 1 >= 1
      BY <1>1, <2>1
    <3>2. TableSize <= TableSize * (n - 1) /\ TableSize * (n - 1) \in Nat
      <4> HIDE DEF n
      <4> QED BY <1>2, <3>1
    <3> QED BY <1>1, <1>2, <2>1, <3>2 DEF OneTable
  <2>2. CASE TooManyTables
    <3> DEFINE m == TablesNeeded(Total(tables))
    <3>1. Total(tables) >= 1
      BY <1>1, <1>2, <2>2 DEF TooManyTables, OneTable
    <3>2. m \in Nat /\ m >= 1 /\ Total(tables) <= TableSize * m /\ n > m
      BY <1>1, <2>2, <3>1, NeededFacts DEF TooManyTables
    <3>3. TableSize * m <= TableSize * (n - 1) /\ TableSize * m \in Nat /\ TableSize * (n - 1) \in Nat
      <4>1. n - 1 \in Nat /\ m <= n - 1
        BY <1>1, <3>2
      <4> HIDE DEF n, m
      <4> QED BY <1>2, <3>2, <4>1
    <3> QED BY <1>1, <3>2, <3>3
  <2> QED BY <2>1, <2>2
<1>4. closing' \in D
  <2>1. IsFiniteSet(D) /\ D \subseteq Nat /\ D # {}
    BY <1>1, <1>3, FS_EmptySet DEF Tables
  <2>2. D \ {FinalTable(tables)} # {}
    BY <1>3, <2>1, FS_Singleton
  <2>3. Min(D \ {FinalTable(tables)}) \in D
    BY <2>1, <2>2, NatMin
  <2>4. BreakTable(tables) \in D
    BY <1>1, <2>1, PickedFacts
  <2> QED BY <2>3, <2>4
<1>5. TypeOK'
  BY <1>4, RebalanceFacts DEF SeatingInv, TypeOK
<1>6. Seated(tables, field)'
  BY DEF SeatingInv, Seated, Tables, OnlyThese, OneSeat, NoneMissing
<1>7. (stage = "rebalance" => \A i \in DOMAIN tables : Occupied(tables[i]) # {})'
  BY DEF SeatingInv, Occupied
<1>8. (/\ stage = "rebalance" /\ closing \in DOMAIN tables
       /\ Cardinality(DOMAIN tables) > 1
       /\ Cardinality(field) <= TableSize * (Cardinality(DOMAIN tables) - 1))'
  BY <1>1, <1>3, <1>4
<1> QED BY <1>5, <1>6, <1>7, <1>8 DEF SeatingInv

\* A table to which somebody moves while another is being closed has room.
LEMMA ReseatRoom ==
  ASSUME SeatingInv, closing # 0
  PROVE  LET rest == Restrict(tables, DOMAIN tables \ {closing})
             dest == IF OneTable THEN FinalTable(rest) ELSE Smallest(rest)
         IN  /\ DOMAIN rest = DOMAIN tables \ {closing}
             /\ dest \in DOMAIN tables /\ dest # closing
             /\ Occupied(tables[dest]) # Seats
<1> DEFINE D == DOMAIN tables
           E == D \ {closing}
           rest == Restrict(tables, E)
           dest == IF OneTable THEN FinalTable(rest) ELSE Smallest(rest)
<1>1. /\ closing \in D /\ Cardinality(D) > 1 /\ Occupied(tables[closing]) # {}
      /\ Cardinality(field) <= TableSize * (Cardinality(D) - 1)
  BY DEF SeatingInv
<1>2. /\ Tables(tables) /\ Cardinality(D) \in Nat
      /\ Total(tables) = Cardinality(field) /\ Total(tables) \in Nat
  BY RebalanceFacts
<1>3. DOMAIN rest = E /\ \A i \in E : rest[i] = tables[i]
  BY DEF Restrict
<1>4. Tables(rest)
  <2> HIDE DEF rest
  <2> QED BY <1>2, <1>3, FS_RemoveElement DEF Tables
<1>5. IsFiniteSet(E) /\ Cardinality(E) = Cardinality(D) - 1 /\ E # {}
  <2>1. IsFiniteSet(E) /\ Cardinality(E) = Cardinality(D) - 1
    BY <1>1, <1>2, FS_RemoveElement DEF Tables
  <2> QED BY <1>1, <1>2, <2>1, FS_EmptySet
<1>6. Total(tables) = Size(tables[closing]) + Total(rest)
  BY <1>1, <1>2, TotalFacts
<1>7. Size(tables[closing]) \in Nat /\ Size(tables[closing]) >= 1
  BY <1>1, <1>2, OccupiedFacts DEF Tables
<1> HIDE DEF rest
<1>8. Total(rest) \in Nat
  BY <1>4, TotalFacts
<1>9. dest \in E
  BY <1>3, <1>4, <1>5, PickedFacts
<1>10. \A i \in E : Size(rest[i]) \in Nat /\ Size(rest[i]) <= TableSize
  BY <1>3, <1>4, OccupiedFacts DEF Tables
<1>11. TableSize \in Nat
  BY SeatFacts
<1>12. Size(rest[dest]) # TableSize
  <2>1. CASE OneTable
    <3> DEFINE d == FinalTable(rest)
               others == Restrict(rest, DOMAIN rest \ {d})
    <3>1. d \in E
      BY <1>9, <2>1
    <3>2. Total(rest) = Size(rest[d]) + Total(others)
      BY <1>3, <1>4, <3>1, TotalFacts
    <3>3. Tables(others)
      <4>1. DOMAIN others = E \ {d} /\ \A i \in E \ {d} : others[i] = rest[i]
        BY <1>3 DEF Restrict
      <4> HIDE DEF others
      <4> QED BY <1>3, <1>4, <4>1, FS_RemoveElement DEF Tables
    <3>4. Total(others) \in Nat
      BY <3>3, TotalFacts
    <3>5. Total(tables) <= TableSize
      BY <2>1 DEF OneTable
    <3> HIDE DEF d, others
    <3>6. Size(rest[d]) < TableSize
      BY <1>2, <1>6, <1>7, <1>8, <1>10, <1>11, <3>1, <3>2, <3>4, <3>5
    <3>7. dest = d
      BY <2>1 DEF d
    <3> QED BY <1>10, <1>11, <3>1, <3>6, <3>7
  <2>2. CASE ~OneTable
    <3>1. SUFFICES ASSUME Size(rest[Smallest(rest)]) = TableSize PROVE FALSE
      BY <2>2
    <3>2. \A j \in E : Size(rest[Smallest(rest)]) <= Size(rest[j])
      BY <1>3, <1>4, <1>5, PickedFacts
    <3>3. \A j \in E : Size(rest[j]) = TableSize
      BY <1>10, <1>11, <3>1, <3>2
    <3>4. Total(rest) = TableSize * Cardinality(E)
      BY <1>3, <1>4, <3>3, TotalFacts
    <3>5. TableSize * Cardinality(E) = TableSize * (Cardinality(D) - 1)
      BY <1>5
    <3> QED BY <1>1, <1>2, <1>6, <1>7, <1>8, <3>4, <3>5
  <2> QED BY <2>1, <2>2
<1>13. tables[dest] \in Table /\ Size(tables[dest]) # TableSize
  BY <1>2, <1>3, <1>9, <1>12 DEF Tables
<1>14. Occupied(tables[dest]) # Seats
  BY <1>13, SeatFacts DEF Size
<1> QED BY <1>3, <1>9, <1>14 DEF rest

\* Moving the tables and nothing else keeps what the invariant says of the rest.
LEMMA TablesOnly ==
  ASSUME SeatingInv, stage = "rebalance",
         UNCHANGED <<field, stacks, out, rounds, stage, auto, pre, played>>,
         Seated(tables', field), DOMAIN tables' \subseteq DOMAIN tables,
         closing' \in DOMAIN tables \cup {0}
  PROVE  TypeOK' /\ Seated(tables, field)'
<1>1. TypeOK'
  BY DEF SeatingInv, TypeOK, Seated, Tables
<1>2. Seated(tables, field)'
  BY DEF SeatingInv, Seated, Tables, OnlyThese, OneSeat, NoneMissing
<1> QED BY <1>1, <1>2

LEMMA ReseatSeating ==
  ASSUME SeatingInv, Reseat
  PROVE  SeatingInv'
<1> DEFINE from == tables[closing]
           rest == Restrict(tables, DOMAIN tables \ {closing})
           a    == Min(Occupied(from))
           p    == from.seats[a]
           dest == IF OneTable THEN FinalTable(rest) ELSE Smallest(rest)
           seated == [rest EXCEPT ![dest] = Add(@, p)]
           moved == Moved(tables, closing, a, dest)
<1>1. /\ stage = "rebalance" /\ closing # 0
      /\ \/ Size(from) = 1 /\ tables' = seated /\ closing' = 0
         \/ /\ Size(from) # 1 /\ closing' = closing
            /\ tables' = [i \in DOMAIN tables |->
                             IF i = closing THEN Without(from, {p}) ELSE seated[i]]
      /\ UNCHANGED <<field, stacks, out, rounds, stage, auto, pre, played>>
  BY DEF Reseat
<1>2. /\ closing \in DOMAIN tables /\ Cardinality(DOMAIN tables) > 1
      /\ Cardinality(field) <= TableSize * (Cardinality(DOMAIN tables) - 1)
      /\ \A i \in DOMAIN tables : Occupied(tables[i]) # {}
      /\ TypeOK /\ Seated(tables, field)
  BY <1>1 DEF SeatingInv
<1>3. /\ DOMAIN rest = DOMAIN tables \ {closing}
      /\ dest \in DOMAIN tables /\ dest # closing
      /\ Occupied(tables[dest]) # Seats
  BY <1>1, ReseatRoom
<1>4. a \in Occupied(from) /\ IsFiniteSet(Occupied(from))
  <2>1. Occupied(from) \in SUBSET Nat /\ Occupied(from) # {} /\ IsFiniteSet(Occupied(from))
    BY <1>2, RebalanceFacts, OccupiedFacts, SeatFacts
  <2> QED BY <2>1, NatMin
<1>5. \A i \in DOMAIN tables \ {closing} : seated[i] = moved[i]
  BY <1>3 DEF Restrict, Moved
<1>6. moved[closing] = Without(from, {p})
  BY <1>2 DEF Moved
<1>7. /\ DOMAIN seated = DOMAIN tables \ {closing}
      /\ DOMAIN moved = DOMAIN tables
      /\ seated = Restrict(moved, DOMAIN tables \ {closing})
  <2>1. /\ DOMAIN seated = DOMAIN tables \ {closing} /\ DOMAIN moved = DOMAIN tables
        /\ seated = [i \in DOMAIN seated |-> seated[i]]
    BY <1>3 DEF Moved
  <2> HIDE DEF seated, moved
  <2> QED BY <1>5, <2>1 DEF Restrict
<1> HIDE DEF seated, moved, dest, a, rest
<1>8. /\ Seated(moved, field)
      /\ Occupied(moved[closing]) = Occupied(from) \ {a}
      /\ \A i \in DOMAIN tables \ {closing} : Occupied(tables[i]) \subseteq Occupied(moved[i])
  <2>1. field \in SUBSET Players /\ Seated(tables, field) /\ a \in Occupied(from)
    BY <1>2, <1>4, FieldFacts
  <2>2. closing \in DOMAIN tables /\ dest \in DOMAIN tables /\ closing # dest
        /\ Occupied(tables[dest]) # Seats
    BY <1>2, <1>3
  <2>3. /\ Seated(Moved(tables, closing, a, dest), field)
        /\ DOMAIN Moved(tables, closing, a, dest) = DOMAIN tables
        /\ Occupied(Moved(tables, closing, a, dest)[closing]) = Occupied(tables[closing]) \ {a}
        /\ \A i \in DOMAIN tables \ {closing} :
              Occupied(tables[i]) \subseteq Occupied(Moved(tables, closing, a, dest)[i])
    BY ONLY <2>1, <2>2, MovedFacts
  <2> QED BY <2>3 DEF moved
<1>9. CASE Size(from) = 1
  <2>1. tables' = Restrict(moved, DOMAIN tables \ {closing}) /\ closing' = 0
    BY <1>1, <1>7, <1>9
  <2>2. Occupied(moved[closing]) = {}
    BY <1>4, <1>8, <1>9, FS_Singleton DEF Size
  <2>3. Seated(tables', field) /\ DOMAIN tables' = DOMAIN tables \ {closing}
    <3>1. field \in SUBSET Players
      BY <1>2, FieldFacts
    <3>2. DOMAIN tables \ {closing} \in SUBSET DOMAIN moved
      BY <1>7
    <3>3. \A i \in DOMAIN moved \ (DOMAIN tables \ {closing}) : Occupied(moved[i]) = {}
      BY <1>7, <2>2
    <3> QED BY <1>8, <2>1, <3>1, <3>2, <3>3, SeatedWithout
  <2>4. \A i \in DOMAIN tables' : Occupied(tables'[i]) # {}
    BY <1>2, <1>8, <2>1, <2>3 DEF Restrict
  <2>5. TypeOK' /\ Seated(tables, field)'
    BY <1>1, <2>1, <2>3, TablesOnly
  <2> QED BY <2>1, <2>4, <2>5 DEF SeatingInv
<1>10. CASE Size(from) # 1
  <2>1. closing' = closing /\ DOMAIN tables' = DOMAIN tables
        /\ \A i \in DOMAIN tables : tables'[i] = moved[i]
    BY <1>1, <1>5, <1>6, <1>10
  <2>2. Seated(tables', field)
    BY <1>7, <1>8, <2>1 DEF Seated, Tables, OnlyThese, OneSeat, NoneMissing
  <2>3. Occupied(moved[closing]) # {}
    <3>1. Occupied(from) # {a}
      BY <1>10, FS_Singleton DEF Size
    <3> QED BY <1>4, <1>8, <3>1
  <2>4. \A i \in DOMAIN tables' : Occupied(tables'[i]) # {}
    BY <1>2, <1>8, <2>1, <2>3
  <2>5. TypeOK' /\ Seated(tables, field)'
    BY <1>1, <1>2, <2>1, <2>2, TablesOnly
  <2>6. (closing # 0 =>
           /\ stage = "rebalance" /\ closing \in DOMAIN tables
           /\ Cardinality(DOMAIN tables) > 1
           /\ Cardinality(field) <= TableSize * (Cardinality(DOMAIN tables) - 1))'
    BY <1>1, <1>2, <2>1
  <2> QED BY <2>4, <2>5, <2>6 DEF SeatingInv
<1> QED BY <1>9, <1>10

LEMMA BalanceSeating ==
  ASSUME SeatingInv, Balance
  PROVE  SeatingInv'
<1> DEFINE big == Biggest(tables)
           small == Smallest(tables)
           a == Max(Occupied(tables[big]))
           moved == Moved(tables, big, a, small)
<1>1. /\ stage = "rebalance" /\ closing = 0 /\ closing' = 0 /\ ~OneTable
      /\ Size(tables[big]) - Size(tables[small]) > 1
      /\ tables' = [tables EXCEPT ![big] = Without(@, {tables[big].seats[a]}),
                                  ![small] = Add(@, tables[big].seats[a])]
      /\ UNCHANGED <<field, stacks, out, rounds, stage, auto, pre, played>>
  BY DEF Balance, Uneven
<1>2. TypeOK /\ Seated(tables, field) /\ \A i \in DOMAIN tables : Occupied(tables[i]) # {}
  BY <1>1 DEF SeatingInv
<1>3. DOMAIN tables # {}
  <2>1. TableSize >= 0 /\ TableSize \in Nat
    BY SeatFacts
  <2>2. Total(tables) # 0
    BY <1>1, <2>1 DEF OneTable
  <2> QED BY <2>2, RebalanceFacts, TotalFacts
<1>4. big \in DOMAIN tables /\ small \in DOMAIN tables
  BY <1>3, RebalanceFacts, PickedFacts
<1>5. /\ Size(tables[big]) \in Nat /\ Size(tables[small]) \in Nat
      /\ Size(tables[big]) <= TableSize
      /\ IsFiniteSet(Occupied(tables[big])) /\ Occupied(tables[big]) \subseteq Seats
  BY <1>4, RebalanceFacts, OccupiedFacts
<1>6. big # small
  BY <1>1, <1>5
<1>7. Occupied(tables[small]) # Seats
  BY <1>1, <1>5, SeatFacts DEF Size
<1>8. a \in Occupied(tables[big])
  <2>1. Occupied(tables[big]) \in SUBSET Nat /\ Occupied(tables[big]) # {}
    BY <1>2, <1>4, <1>5, SeatFacts
  <2> QED BY <1>5, <2>1, NatMax
<1>9. /\ DOMAIN tables' = DOMAIN tables
      /\ \A i \in DOMAIN tables : tables'[i] = moved[i]
  BY <1>1, <1>4, <1>6 DEF Moved
<1> HIDE DEF moved, big, small, a
<1>10. /\ Seated(moved, field) /\ DOMAIN moved = DOMAIN tables
       /\ Occupied(moved[big]) = Occupied(tables[big]) \ {a}
       /\ \A i \in DOMAIN tables \ {big} : Occupied(tables[i]) \subseteq Occupied(moved[i])
  <2>1. field \in SUBSET Players /\ Seated(tables, field)
    BY <1>2, FieldFacts
  <2>2. /\ Seated(Moved(tables, big, a, small), field)
        /\ DOMAIN Moved(tables, big, a, small) = DOMAIN tables
        /\ Occupied(Moved(tables, big, a, small)[big]) = Occupied(tables[big]) \ {a}
        /\ \A i \in DOMAIN tables \ {big} :
              Occupied(tables[i]) \subseteq Occupied(Moved(tables, big, a, small)[i])
    BY ONLY <1>4, <1>6, <1>7, <1>8, <2>1, MovedFacts
  <2> QED BY <2>2 DEF moved
<1>11. Seated(tables', field)
  BY <1>9, <1>10 DEF Seated, Tables, OnlyThese, OneSeat, NoneMissing
<1>12. Occupied(moved[big]) # {}
  <2>1. Occupied(tables[big]) # {a}
    BY <1>1, <1>5, FS_Singleton DEF Size
  <2> QED BY <1>8, <1>10, <2>1
<1>13. \A i \in DOMAIN tables' : Occupied(tables'[i]) # {}
  BY <1>2, <1>9, <1>10, <1>12
<1>14. TypeOK' /\ Seated(tables, field)'
  BY <1>1, <1>9, <1>11, TablesOnly
<1> QED BY <1>1, <1>13, <1>14 DEF SeatingInv

LEMMA SeatingStep == SeatingInv /\ [Next]_vars => SeatingInv'
<1> SUFFICES ASSUME SeatingInv, [Next]_vars PROVE SeatingInv'
  OBVIOUS
<1>1. CASE BeginRound
  BY <1>1, BeginRoundSeating
<1>2. CASE \E i \in DOMAIN tables : PlayHand(i)
  BY <1>2, PlayHandSeating
<1>3. CASE Settle
  BY <1>3, SettleSeating
<1>4. CASE CloseTable
  BY <1>4, CloseTableSeating
<1>5. CASE Reseat
  BY <1>5, ReseatSeating
<1>6. CASE Balance
  BY <1>6, BalanceSeating
<1>7. CASE EndRound
  BY <1>7, EndRoundSeating
<1>8. CASE UNCHANGED vars
  <2>1. UNCHANGED <<field, stacks, out, tables, rounds, stage, auto, pre, played, closing>>
    BY <1>8 DEF vars
  <2>2. TypeOK'
    BY <2>1 DEF SeatingInv, TypeOK
  <2>3. Seated(tables, field)'
    BY <2>1 DEF SeatingInv, Seated, Tables, OnlyThese, OneSeat, NoneMissing
  <2> QED BY <2>1, <2>2, <2>3 DEF SeatingInv, Occupied
<1> QED BY <1>1, <1>2, <1>3, <1>4, <1>5, <1>6, <1>7, <1>8
    DEF Next, RoundStep, Rebalance, Stopped

LEMMA SettleChips ==
  ASSUME TypeOK, Settle
  PROVE  ChipsInv'
<1> USE DEF Settle
<1> DEFINE F == field \ Busted
<1>1. ChipSum(stacks) = TotalChips
  OBVIOUS
<1>2. /\ Busted \subseteq field /\ IsFiniteSet(field)
      /\ \A p \in F : stacks[p] > 0
      /\ \A p \in field : stacks[p] \in Nat
  BY BustedFacts, FieldFacts
<1>3. ChipsConserved'
  <2> DEFINE f == [p \in field |-> stacks[p]]
             g == [p \in F |-> stacks[p]]
  <2>1. \A p \in field : f[p] \in Int
    BY <1>2
  <2>2. \A p \in field \ F : f[p] = 0
    BY DEF Busted
  <2>3. \A p \in F : f[p] \in Int /\ g[p] = f[p]
    BY <1>2
  <2>4. IsFiniteSet(F) /\ F \in SUBSET field
    BY <1>2, FS_Subset
  <2>5. SumFunctionOnSet(f, field) = SumFunctionOnSet(f, F)
    <3> HIDE DEF f, F
    <3> QED BY <1>2, <2>1, <2>2, <2>4, SumSupport
  <2>6. SumFunctionOnSet(g, F) = SumFunctionOnSet(f, F)
    <3> HIDE DEF f, g, F
    <3> QED BY <2>3, <2>4, SumCong
  <2>7. ChipSum(stacks) = SumFunctionOnSet(f, field)
    BY DEF ChipSum, SumFunction
  <2>8. ChipSum(stacks)' = SumFunctionOnSet(g, F)
    BY DEF ChipSum, SumFunction
  <2> QED BY <1>1, <2>5, <2>6, <2>7, <2>8 DEF ChipsConserved
<1> QED BY <1>2, <1>3 DEF ChipsInv

\* Somebody is left: the chips are.
LEMMA SomebodyLeft == ChipsInv => field # {}
<1> SUFFICES ASSUME ChipsInv, field = {} PROVE FALSE
  OBVIOUS
<1>1. ChipSum(stacks) = TotalChips
  BY DEF ChipsInv, ChipsConserved
<1>2. ChipSum(stacks) = SumFunctionOnSet([p \in {} |-> stacks[p]], {})
  BY DEF ChipSum, SumFunction
<1>3. SumFunctionOnSet([p \in {} |-> stacks[p]], {}) = 0
  BY SumUnfold, FS_EmptySet
<1>4. TotalChips # 0
  <2>1. /\ Cardinality(Players) \in Nat /\ Cardinality(Players) >= 2
        /\ StartingStack \in Nat /\ StartingStack >= 1
    BY PlayersAssumption, StackAssumption, FS_CardinalityType
  <2> QED BY <2>1 DEF TotalChips
<1> QED BY <1>1, <1>2, <1>3, <1>4

LEMMA SomebodyLeftNext == ChipsInv' => (field # {})'
BY SomebodyLeft, PTL

LEMMA SettleLeaves ==
  ASSUME TypeOK, Settle
  PROVE  field' # {}
BY SettleChips, SomebodyLeftNext

LEMMA PlayHandChips ==
  ASSUME SeatingInv, ChipsInv, NEW k \in DOMAIN tables, PlayHand(k)
  PROVE  ChipsInv'
<1> USE DEF PlayHand
<1>1. PlayersAt(tables[k]) \subseteq field /\ TypeOK
  BY SeatedFacts, FieldFacts DEF SeatingInv
<1>2. ChipSum(stacks') = ChipSum(stacks)
  BY <1>1, FoldedFacts
<1> QED BY <1>2 DEF ChipsInv, ChipsConserved, ChipSum

LEMMA ChipsStep == SeatingInv /\ ChipsInv /\ [Next]_vars => ChipsInv'
<1> SUFFICES ASSUME SeatingInv, ChipsInv, [Next]_vars PROVE ChipsInv'
  OBVIOUS
<1>1. CASE \E i \in DOMAIN tables : PlayHand(i)
  BY <1>1, PlayHandChips
<1>2. CASE Settle
  BY <1>2, SettleChips DEF SeatingInv
<1>3. ASSUME UNCHANGED <<field, stacks>>, stage' = "hands" \/ stage # "hands"
      PROVE  ChipsInv'
  BY <1>3 DEF ChipsInv, ChipsConserved, ChipSum
<1>4. CASE BeginRound
  BY <1>3, <1>4 DEF BeginRound
<1>5. CASE Rebalance
  <2>1. UNCHANGED <<field, stacks>> /\ stage # "hands"
    BY <1>5 DEF Rebalance, CloseTable, Reseat, Balance, EndRound
  <2> QED BY <1>3, <2>1
<1>6. CASE UNCHANGED vars
  BY <1>6 DEF vars, ChipsInv, ChipsConserved, ChipSum
<1> QED BY <1>1, <1>2, <1>4, <1>5, <1>6 DEF Next, RoundStep, Stopped

\* The inductive invariant of the seats and the chips (_round, rebalance).
THEOREM SeatingInvariant == Spec => [](SeatingInv /\ ChipsInv)
<1>1. Init => SeatingInv /\ ChipsInv
  BY InitSeating, InitChips
<1>2. SeatingInv /\ ChipsInv /\ [Next]_vars => (SeatingInv /\ ChipsInv)'
  BY SeatingStep, ChipsStep
<1> QED BY <1>1, <1>2, PTL DEF Spec

\* The state keeps its shape: no stack goes below zero, no table is unknown.
THEOREM TournamentTypes == Spec => []TypeOK
<1>1. SeatingInv => TypeOK
  BY DEF SeatingInv
<1> QED BY SeatingInvariant, <1>1, PTL

\* No chip is lost or made by any sequence of hands, breaks and moves.
THEOREM TournamentChips == Spec => []ChipsConserved
<1>1. ChipsInv => ChipsConserved
  BY DEF ChipsInv
<1> QED BY SeatingInvariant, <1>1, PTL

\* Whoever is in sits in one seat, and nobody else sits: a table to which a
\* player is moved always has room.
THEOREM TournamentSeats == Spec => []EveryoneSeated
<1>1. SeatingInv => EveryoneSeated
  BY SeatedFacts, FieldFacts DEF SeatingInv, EveryoneSeated
<1> QED BY SeatingInvariant, <1>1, PTL

\* Nobody begins a round without chips.
THEOREM TournamentStacks == Spec => []NobodyBroke
<1>1. ChipsInv => NobodyBroke
  BY DEF ChipsInv, NobodyBroke
<1> QED BY SeatingInvariant, <1>1, PTL

-----------------------------------------------------------------------------
(* The tables between rounds. *)

\* Tables hold what they have seats for.
LEMMA TotalFits ==
  ASSUME NEW ts, Tables(ts)
  PROVE  Total(ts) <= TableSize * Cardinality(DOMAIN ts)
<1> DEFINE D == DOMAIN ts
           f == [i \in D |-> Size(ts[i])]
           g == [i \in D |-> TableSize]
<1>1. IsFiniteSet(D) /\ \A i \in D : f[i] \in Int /\ g[i] \in Int /\ f[i] <= g[i]
  BY OccupiedFacts, SeatFacts DEF Tables
<1>2. Total(ts) = SumFunctionOnSet(f, D)
  BY DEF Total, SumFunction
<1>3. \A i \in D : g[i] = TableSize
  OBVIOUS
<1> HIDE DEF D, f, g
<1>4. SumFunctionOnSet(f, D) <= SumFunctionOnSet(g, D)
  BY <1>1, SumLe
<1>5. SumFunctionOnSet(g, D) = TableSize * Cardinality(D)
  BY <1>1, <1>3, SeatFacts, SumConst
<1> QED BY <1>2, <1>4, <1>5 DEF D

\* The least number of tables with enough seats.
LEMMA FewestNeeded ==
  ASSUME NEW n \in Nat, NEW k \in Nat, n <= TableSize * k
  PROVE  TablesNeeded(n) <= k
<1> DEFINE m == n + TableSize - 1
           q == m \div TableSize
<1>1. TableSize \in Nat /\ TableSize >= 2 /\ m \in Nat /\ m < n + TableSize
  BY SeatFacts
<1>2. q \in Int /\ TableSize * q <= m
  <2> HIDE DEF m
  <2> QED BY <1>1
<1>3. ASSUME q >= k + 1 PROVE FALSE
  <2> HIDE DEF q
  <2>1. TableSize * q >= TableSize * (k + 1)
    BY <1>1, <1>2, <1>3
  <2>2. TableSize * (k + 1) = TableSize * k + TableSize /\ TableSize * k \in Nat
    BY <1>1
  <2>3. TableSize * q \in Int
    BY <1>1, <1>2
  <2> HIDE DEF m
  <2> QED BY <1>1, <1>2, <2>1, <2>2, <2>3
<1>4. q <= k
  <2> HIDE DEF q
  <2> QED BY <1>2, <1>3
<1> QED BY <1>4 DEF TablesNeeded

\* Where rebalance ends.
LEMMA EndRoundBalanced ==
  ASSUME SeatingInv, ChipsInv, EndRound
  PROVE  Balanced(tables, field)
<1> DEFINE n == Cardinality(field)
           k == Cardinality(DOMAIN tables)
<1>1. /\ Tables(tables) /\ k \in Nat /\ Total(tables) = n /\ n \in Nat
      /\ \A i \in DOMAIN tables : tables[i] \in Table
  BY RebalanceFacts
<1>2. n >= 1
  BY <1>1, SomebodyLeft, FieldFacts, FS_EmptySet DEF SeatingInv
<1>3. n <= TableSize * k
  BY <1>1, TotalFits
<1>4. TablesNeeded(n) \in Nat /\ TablesNeeded(n) >= 1 /\ TablesNeeded(n) <= k
  BY <1>1, <1>2, <1>3, NeededFacts, FewestNeeded
<1>5. IsFiniteSet(DOMAIN tables) /\ DOMAIN tables # {}
  <2>1. k # 0
    <3> HIDE DEF k, n
    <3> QED BY <1>1, <1>4
  <2> QED BY <1>1, <2>1, FS_EmptySet DEF Tables
<1> HIDE DEF n, k
<1>6. CASE OneTable
  <2>1. k <= 1
    BY <1>6 DEF EndRound, k
  <2>2. k = 1 /\ TablesNeeded(n) = 1
    BY <1>1, <1>4, <2>1
  <2>3. \A i, j \in DOMAIN tables : i = j
    <3>1. SUFFICES ASSUME NEW i \in DOMAIN tables, NEW j \in DOMAIN tables, i # j PROVE FALSE
      OBVIOUS
    <3>2. Cardinality(DOMAIN tables \ {i}) = 0 /\ IsFiniteSet(DOMAIN tables \ {i})
      BY <1>5, <2>2, FS_RemoveElement DEF k
    <3> QED BY <3>1, <3>2, FS_EmptySet
  <2>4. \A i \in DOMAIN tables : Size(tables[i]) \in Nat
    BY <1>1, OccupiedFacts
  <2> QED BY <2>2, <2>3, <2>4 DEF Balanced, n, k
<1>7. CASE ~OneTable
  <2>1. k <= TablesNeeded(n) /\ ~Uneven
    BY <1>1, <1>4, <1>7 DEF EndRound, TooManyTables, k
  <2>2. k = TablesNeeded(n)
    BY <1>1, <1>4, <2>1
  <2>3. Size(tables[Biggest(tables)]) - Size(tables[Smallest(tables)]) <= 1
    <3>1. /\ Biggest(tables) \in DOMAIN tables /\ Smallest(tables) \in DOMAIN tables
      BY <1>1, <1>5, PickedFacts
    <3>2. Size(tables[Biggest(tables)]) \in Nat /\ Size(tables[Smallest(tables)]) \in Nat
      BY <1>1, <3>1, OccupiedFacts
    <3> QED BY <2>1, <3>2 DEF Uneven
  <2>4. ASSUME NEW i \in DOMAIN tables, NEW j \in DOMAIN tables
        PROVE  Size(tables[i]) - Size(tables[j]) <= 1
    <3>1. /\ Biggest(tables) \in DOMAIN tables /\ Smallest(tables) \in DOMAIN tables
          /\ Size(tables[Biggest(tables)]) >= Size(tables[i])
          /\ Size(tables[Smallest(tables)]) <= Size(tables[j])
      BY <1>1, <1>5, PickedFacts, OccupiedFacts
    <3>2. /\ Size(tables[Biggest(tables)]) \in Nat /\ Size(tables[Smallest(tables)]) \in Nat
          /\ Size(tables[i]) \in Nat /\ Size(tables[j]) \in Nat
      BY <1>1, <3>1, OccupiedFacts
    <3> QED BY <2>3, <3>1, <3>2
  <2> QED BY <2>2, <2>4 DEF Balanced, n, k
<1> QED BY <1>6, <1>7

\* After rebalance there are as few tables as hold the field, and no two differ
\* by more than one player; the deal of the first round leaves them so too.
THEOREM TournamentBalanced == Spec => []TablesBalanced
<1> DEFINE B == stage = "between" => Balanced(tables, field)
<1>1. Init => B
  BY DealtEvenly DEF Init
<1>2. SeatingInv /\ ChipsInv /\ B /\ [Next]_vars => B'
  <2> SUFFICES ASSUME SeatingInv, ChipsInv, B, [Next]_vars, stage' = "between"
               PROVE  Balanced(tables, field)'
    OBVIOUS
  <2>1. CASE EndRound
    <3>1. Balanced(tables, field) /\ UNCHANGED <<tables, field>>
      BY <2>1, EndRoundBalanced DEF EndRound
    <3> QED BY <3>1 DEF Balanced
  <2>2. CASE UNCHANGED vars
    BY <2>2 DEF vars, Balanced
  <2>3. CASE BeginRound \/ Settle \/ CloseTable \/ Reseat \/ Balance
             \/ \E i \in DOMAIN tables : PlayHand(i)
    BY <2>3 DEF BeginRound, Settle, CloseTable, Reseat, Balance, PlayHand
  <2> QED BY <2>1, <2>2, <2>3 DEF Next, RoundStep, Rebalance, Stopped
<1>3. B => TablesBalanced
  BY DEF Balanced, TablesBalanced
<1> QED BY <1>1, <1>2, <1>3, SeatingInvariant, PTL DEF Spec

-----------------------------------------------------------------------------
(* The places of those who are out. *)

\* How many of the busted are placed before p.
Rank(p) == Cardinality({q \in Busted : PlacedBefore(q, p)})

\* The busted of a round are placed one by one: their ranks are 0, 1, 2, ...
LEMMA RankFacts ==
  ASSUME TypeOK
  PROVE  /\ Cardinality(Busted) \in Nat
         /\ {Rank(p) : p \in Busted} = 0..(Cardinality(Busted) - 1)
         /\ \A p, q \in Busted : Rank(p) = Rank(q) => p = q
<1> DEFINE B == Busted
           n == Cardinality(B)
           Before(p) == {q \in B : PlacedBefore(q, p)}
           f == [p \in B |-> Rank(p)]
<1>1. IsFiniteSet(B) /\ n \in Nat
  BY BustedFacts, FS_CardinalityType
<1>2. \A p \in B : pre[p] \in Nat /\ Entry[p] \in Int /\ p \in Players
  BY BustedFacts, FieldFacts, EntryAssumption, PlayersAssumption, FS_CardinalityType DEF TypeOK
<1>3. /\ \A p \in B : ~PlacedBefore(p, p)
      /\ \A p, q \in B : p # q => PlacedBefore(p, q) \/ PlacedBefore(q, p)
      /\ \A p, q, r \in B : PlacedBefore(p, q) /\ PlacedBefore(q, r) => PlacedBefore(p, r)
  BY <1>2, EntryAssumption DEF PlacedBefore
<1> HIDE DEF B
<1>4. \A p \in B : IsFiniteSet(Before(p)) /\ Rank(p) = Cardinality(Before(p)) /\ Rank(p) \in Nat
  <2>1. TAKE p \in B
  <2>2. IsFiniteSet(Before(p))
    BY <1>1, FS_Subset
  <2>3. Rank(p) = Cardinality(Before(p))
    BY DEF Rank, B
  <2> QED BY <2>2, <2>3, FS_CardinalityType
<1>5. ASSUME NEW p \in B PROVE Rank(p) \in 0..(n - 1)
  <2>1. Before(p) \cup {p} \in SUBSET B /\ p \notin Before(p)
    BY <1>3
  <2>2. Cardinality(Before(p) \cup {p}) = Rank(p) + 1
    BY <1>4, <2>1, FS_AddElement
  <2>3. Cardinality(Before(p) \cup {p}) <= n
    BY <1>1, <2>1, FS_Subset
  <2> HIDE DEF n, Before
  <2> QED BY <1>1, <1>4, <2>2, <2>3
<1>6. ASSUME NEW p \in B, NEW q \in B, PlacedBefore(q, p) PROVE Rank(q) < Rank(p)
  <2>1. Before(q) \cup {q} \in SUBSET Before(p) /\ q \notin Before(q)
    BY <1>3, <1>6
  <2>2. Cardinality(Before(q) \cup {q}) = Rank(q) + 1
    BY <1>4, <2>1, FS_AddElement
  <2>3. Cardinality(Before(q) \cup {q}) <= Cardinality(Before(p))
    BY <1>4, <2>1, FS_Subset
  <2> HIDE DEF Before
  <2> QED BY <1>4, <2>2, <2>3
<1>7. \A p, q \in B : Rank(p) = Rank(q) => p = q
  <2>1. \A p \in B : Rank(p) \in Nat
    BY <1>4
  <2> QED BY <1>3, <1>6, <2>1
<1>8. f \in Injection(B, 0..(n - 1))
  <2>1. f \in [B -> 0..(n - 1)] /\ \A p, q \in B : f[p] = f[q] => p = q
    BY <1>5, <1>7
  <2> HIDE DEF f, n
  <2> QED BY <2>1 DEF Injection, IsInjective
<1>9. IsFiniteSet(0..(n - 1)) /\ Cardinality(0..(n - 1)) = n
  <2> HIDE DEF n
  <2> QED BY <1>1, FS_Interval
<1>10. f \in Surjection(B, 0..(n - 1))
  <2> HIDE DEF f
  <2> QED BY <1>8, <1>9, FS_Injection
<1>11. \A k \in 0..(n - 1) : \E p \in B : f[p] = k
  <2> HIDE DEF f, n
  <2> QED BY <1>10 DEF Surjection
<1>12. {Rank(p) : p \in B} = 0..(n - 1)
  BY <1>5, <1>11
<1> QED BY <1>1, <1>7, <1>12 DEF B

\* Together they take the lowest places still open.
LEMMA PositionFacts ==
  ASSUME TypeOK
  PROVE  LET m == Cardinality(field)
             n == Cardinality(Busted)
         IN  /\ m \in Nat /\ n \in Nat /\ n <= m
             /\ Cardinality(field \ Busted) = m - n
             /\ {Position(p) : p \in Busted} = (m - n + 1)..m
<1> DEFINE B == Busted
           F == field \ B
           n == Cardinality(B)
           m == Cardinality(field)
<1>1. B \subseteq field /\ IsFiniteSet(B) /\ IsFiniteSet(field) /\ m \in Nat
  BY BustedFacts, FieldFacts
<1>2. /\ n \in Nat /\ {Rank(p) : p \in B} = 0..(n - 1)
      /\ \A p \in B : Position(p) = m - Rank(p)
  BY RankFacts DEF Position, Rank
<1> HIDE DEF B
<1>3. n <= m /\ Cardinality(F) = m - n
  <2>1. B \in SUBSET field /\ F \in SUBSET field /\ F \cup B = field /\ F \cap B = {}
    BY <1>1
  <2>2. n <= m /\ IsFiniteSet(F)
    BY <1>1, <2>1, FS_Subset
  <2>3. Cardinality(F \cup B) = Cardinality(F) + n - Cardinality({})
    <3> HIDE DEF F
    <3> QED BY <1>1, <2>1, <2>2, FS_Union
  <2>4. Cardinality({}) = 0 /\ Cardinality(F) \in Nat
    BY <2>2, FS_EmptySet, FS_CardinalityType
  <2>5. m = Cardinality(F) + n - Cardinality({})
    BY <2>1, <2>3
  <2> HIDE DEF F, n, m
  <2> QED BY <1>1, <1>2, <2>2, <2>4, <2>5
<1>4. {Position(p) : p \in B} = (m - n + 1)..m
  <2>1. \A p \in B : Rank(p) \in 0..(n - 1)
    BY <1>2
  <2>2. \A k \in 0..(n - 1) : \E p \in B : Rank(p) = k
    BY <1>2
  <2> HIDE DEF n, m
  <2>3. \A p \in B : Position(p) \in (m - n + 1)..m
    BY <1>1, <1>2, <2>1
  <2>4. \A k \in (m - n + 1)..m : \E p \in B : Position(p) = k
    <3>1. TAKE k \in (m - n + 1)..m
    <3>2. m - k \in 0..(n - 1)
      BY <1>1, <1>2
    <3>3. PICK p \in B : Rank(p) = m - k
      BY <2>2, <3>2
    <3>4. Position(p) = k
      BY <1>1, <1>2, <3>3
    <3> QED BY <3>4
  <2> QED BY <2>3, <2>4
<1> QED BY <1>1, <1>2, <1>3, <1>4 DEF B

PlaceInv ==
    /\ IsFiniteSet(out)
    /\ \A e \in out : e.round <= rounds /\ (stage # "rebalance" => e.round < rounds)
    /\ Placement
    /\ LaterIsHigher

LEMMA InitPlaces == Init => PlaceInv
<1> SUFFICES ASSUME Init PROVE PlaceInv
  OBVIOUS
<1>1. IsFiniteSet(out) /\ Cardinality(out) = 0 /\ Cardinality(Players) \in Nat
  BY PlayersAssumption, FS_EmptySet, FS_CardinalityType DEF Init
<1>2. Placement
  BY <1>1 DEF Init, Placement
<1> QED BY <1>1, <1>2 DEF Init, PlaceInv, LaterIsHigher

LEMMA SettlePlaces ==
  ASSUME TypeOK, PlaceInv, Settle
  PROVE  PlaceInv'
<1> DEFINE B == Busted
           F == field \ B
           n == Cardinality(B)
           m == Cardinality(field)
           place(p) == [player |-> p, position |-> Position(p), round |-> rounds]
           new == {place(p) : p \in B}
<1>1. /\ out' = out \cup new /\ field' = F /\ stage = "hands" /\ stage' = "rebalance"
      /\ rounds' = rounds
  BY DEF Settle
<1>2. /\ B \subseteq field /\ IsFiniteSet(B) /\ IsFiniteSet(field) /\ field \subseteq Players
      /\ m \in Nat /\ Cardinality(Players) \in Nat /\ rounds \in Nat
  BY BustedFacts, FieldFacts, PlayersAssumption, FS_CardinalityType DEF TypeOK
<1>3. n \in Nat /\ n <= m /\ Cardinality(F) = m - n
  BY PositionFacts
<1>4. {Position(p) : p \in B} = (m - n + 1)..m
  BY PositionFacts
<1> HIDE DEF B
<1>5. {e.position : e \in new} = (m - n + 1)..m
  <2>1. \A p \in B : place(p) \in new /\ place(p).position = Position(p)
    OBVIOUS
  <2>2. \A e \in new : \E p \in B : e.position = Position(p)
    OBVIOUS
  <2> HIDE DEF n, m, new, place
  <2> QED BY <1>4, <2>1, <2>2
<1>6. {e.player : e \in new} = B /\ \A e \in new : e.round = rounds
  <2>1. \A p \in B : place(p) \in new /\ place(p).player = p
    OBVIOUS
  <2>2. \A e \in new : e.player \in B /\ e.round = rounds
    OBVIOUS
  <2> HIDE DEF new, place
  <2> QED BY <2>1, <2>2
<1>7. IsFiniteSet(new) /\ Cardinality(new) = n
  <2> DEFINE f == [p \in B |-> place(p)]
  <2>1. f \in [B -> new] /\ \A p, q \in B : f[p] = f[q] => p = q
    OBVIOUS
  <2>2. \A e \in new : \E p \in B : f[p] = e
    OBVIOUS
  <2>3. f \in Bijection(B, new)
    <3> HIDE DEF f, new
    <3> QED BY <2>1, <2>2 DEF Bijection, Injection, Surjection, IsInjective
  <2>4. ExistsBijection(B, new)
    BY <2>3 DEF ExistsBijection
  <2> HIDE DEF new
  <2> QED BY <1>2, <2>4, FS_Bijection
<1> HIDE DEF new
<1>8. /\ IsFiniteSet(out) /\ {e.player : e \in out} = Players \ field
      /\ {e.position : e \in out} = (m + 1)..Cardinality(Players)
      /\ Cardinality(out) = Cardinality(Players) - m
      /\ \A e \in out : e.round < rounds /\ e.round \in Nat
      /\ LaterIsHigher
  BY <1>1 DEF PlaceInv, Placement, TypeOK, Elimination
<1>9. out \cap new = {}
  <2>1. ASSUME NEW e \in out, e \in new PROVE FALSE
    <3>1. e.player \in Players \ field
      BY <1>8, <2>1
    <3>2. e.player \in B
      BY <1>6, <2>1
    <3> QED BY <1>2, <3>1, <3>2
  <2> QED BY <2>1
<1>10. IsFiniteSet(out') /\ Cardinality(out') = Cardinality(Players) - Cardinality(F)
  <2>1. /\ IsFiniteSet(out \cup new)
        /\ Cardinality(out \cup new) = Cardinality(out) + n - Cardinality({})
    BY <1>7, <1>8, <1>9, FS_Union
  <2>2. Cardinality({}) = 0
    BY FS_EmptySet
  <2> HIDE DEF n, m, F
  <2> QED BY <1>1, <1>2, <1>3, <1>4, <1>8, <2>1, <2>2
<1>11. {e.player : e \in out'} = Players \ F
  BY <1>1, <1>2, <1>6, <1>8
<1>12. {e.position : e \in out'} = (Cardinality(F) + 1)..Cardinality(Players)
  <2>1. {e.position : e \in out'} = ((m + 1)..Cardinality(Players)) \cup ((m - n + 1)..m)
    BY <1>1, <1>5, <1>8
  <2>2. m <= Cardinality(Players)
    BY <1>2, PlayersAssumption, FS_Subset
  <2> HIDE DEF n, m, F
  <2> QED BY <1>2, <1>3, <1>4, <2>1, <2>2
<1>13. Placement'
  BY <1>1, <1>10, <1>11, <1>12 DEF Placement
<1>14. \A e \in out' : e.round <= rounds
  BY <1>1, <1>2, <1>6, <1>8
<1>15. LaterIsHigher'
  <2>1. SUFFICES ASSUME NEW e \in out', NEW f \in out', e.round < f.round
                 PROVE  f.position < e.position
    BY DEF LaterIsHigher
  <2>2. CASE e \in out /\ f \in out
    BY <1>8, <2>1, <2>2 DEF LaterIsHigher
  <2>3. CASE e \in out /\ f \in new
    <3>1. e.position \in (m + 1)..Cardinality(Players)
      BY <1>8, <2>3
    <3>2. f.position \in (m - n + 1)..m
      BY <1>5, <2>3
    <3> HIDE DEF n, m
    <3> QED BY <1>2, <1>3, <3>1, <3>2
  <2>4. CASE e \in new
    <3>1. e.round = rounds /\ f.round <= rounds
      BY <1>1, <1>6, <1>14, <2>4
    <3>2. f.round \in Nat
      BY <1>1, <1>2, <1>6, <1>8
    <3> QED BY <1>2, <2>1, <3>1, <3>2
  <2> QED BY <1>1, <2>2, <2>3, <2>4
<1> QED BY <1>1, <1>10, <1>13, <1>14, <1>15 DEF PlaceInv

LEMMA PlaceStep == TypeOK /\ PlaceInv /\ [Next]_vars => PlaceInv'
<1> SUFFICES ASSUME TypeOK, PlaceInv, [Next]_vars PROVE PlaceInv'
  OBVIOUS
<1>1. CASE Settle
  BY <1>1, SettlePlaces
<1>2. CASE EndRound
  <2>1. UNCHANGED <<out, field>> /\ rounds' = rounds + 1 /\ rounds \in Nat
    BY <1>2 DEF EndRound, TypeOK
  <2>2. Placement' /\ LaterIsHigher'
    BY <2>1 DEF PlaceInv, Placement, LaterIsHigher
  <2>3. \A e \in out : e.round \in Nat
    BY DEF TypeOK, Elimination
  <2> QED BY <2>1, <2>2, <2>3 DEF PlaceInv
<1>3. ASSUME UNCHANGED <<out, field, rounds>>, stage # "rebalance" \/ stage' = stage
      PROVE  PlaceInv'
  BY <1>3 DEF PlaceInv, Placement, LaterIsHigher
<1>4. CASE BeginRound
  BY <1>3, <1>4 DEF BeginRound
<1>5. CASE \E i \in DOMAIN tables : PlayHand(i)
  BY <1>3, <1>5 DEF PlayHand
<1>6. CASE CloseTable \/ Reseat \/ Balance \/ UNCHANGED vars
  <2>1. UNCHANGED <<out, field, rounds, stage>>
    BY <1>6 DEF CloseTable, Reseat, Balance, vars
  <2> QED BY <1>3, <2>1
<1> QED BY <1>1, <1>2, <1>4, <1>5, <1>6 DEF Next, RoundStep, Rebalance, Stopped

\* The inductive invariant of the places (record_eliminations).
THEOREM PlaceInvariant == Spec => []PlaceInv
BY InitPlaces, PlaceStep, TournamentTypes, PTL DEF Spec

\* Positions are given from the bottom up, without a gap, one to each player.
THEOREM TournamentPlaces == Spec => []Placement
<1>1. PlaceInv => Placement
  BY DEF PlaceInv
<1> QED BY PlaceInvariant, <1>1, PTL

\* Whoever lasts a round longer finishes higher.
THEOREM TournamentOrder == Spec => []LaterIsHigher
<1>1. PlaceInv => LaterIsHigher
  BY DEF PlaceInv
<1> QED BY PlaceInvariant, <1>1, PTL

-----------------------------------------------------------------------------
(* Tournament implements Standings. *)

LEMMA OneToOne ==
  ASSUME NEW O, NEW S, IsFiniteSet(O), IsFiniteSet(S), Cardinality(O) = Cardinality(S),
         NEW g \in [O -> S], \A s \in S : \E e \in O : g[e] = s
  PROVE  \A e, f \in O : g[e] = g[f] => e = f
<1>1. g \in Surjection(O, S)
  BY DEF Surjection
<1>2. g \in Injection(O, S)
  BY <1>1, FS_Surjection
<1> QED BY <1>2 DEF Injection, IsInjective

\* The places of those who are not in F.
PlacesOf(O, F) ==
    /\ IsFiniteSet(O)
    /\ {e.player : e \in O} = Players \ F
    /\ {e.position : e \in O} = (Cardinality(F) + 1)..Cardinality(Players)
    /\ Cardinality(O) = Cardinality(Players) - Cardinality(F)

\* Each player who is out is in one of the eliminations, and each place.
LEMMA OneElimination ==
  ASSUME NEW F \in SUBSET Players, NEW O, PlacesOf(O, F)
  PROVE  /\ \A e, f \in O : e.player = f.player => e = f
         /\ \A e, f \in O : e.position = f.position => e = f
<1> DEFINE S == Players \ F
           P == (Cardinality(F) + 1)..Cardinality(Players)
           g == [e \in O |-> e.player]
           h == [e \in O |-> e.position]
<1>1. /\ IsFiniteSet(O) /\ {e.player : e \in O} = S /\ {e.position : e \in O} = P
      /\ Cardinality(O) = Cardinality(Players) - Cardinality(F)
  BY DEF PlacesOf
<1>2. /\ F \in SUBSET Players /\ Players \cap F = F /\ IsFiniteSet(F)
      /\ Cardinality(F) \in Nat /\ Cardinality(Players) \in Nat
      /\ Cardinality(F) <= Cardinality(Players)
  BY PlayersAssumption, FS_Subset, FS_CardinalityType
<1>3. IsFiniteSet(S) /\ Cardinality(S) = Cardinality(Players) - Cardinality(F)
  <2>1. IsFiniteSet(S) /\ S \cup F = Players /\ S \cap F = {}
    BY <1>2, PlayersAssumption, FS_Subset
  <2>2. Cardinality(S \cup F) = Cardinality(S) + Cardinality(F) - Cardinality({})
    <3> HIDE DEF S
    <3> QED BY <1>2, <2>1, FS_Union
  <2>3. Cardinality({}) = 0 /\ Cardinality(S) \in Nat
    BY <2>1, FS_EmptySet, FS_CardinalityType
  <2>4. Cardinality(Players) = Cardinality(S) + Cardinality(F) - Cardinality({})
    BY <2>1, <2>2
  <2> HIDE DEF S
  <2> QED BY <1>2, <2>1, <2>3, <2>4
<1>4. IsFiniteSet(P) /\ Cardinality(P) = Cardinality(Players) - Cardinality(F)
  <2> DEFINE a == Cardinality(F) + 1
             b == Cardinality(Players)
  <2>1. a \in Nat /\ b \in Nat /\ a <= b + 1 /\ b - a + 1 = b - Cardinality(F)
    BY <1>2
  <2>2. IsFiniteSet(a..b) /\ Cardinality(a..b) = IF a > b THEN 0 ELSE b - a + 1
    <3> HIDE DEF a, b
    <3> QED BY <2>1, FS_Interval
  <2>3. a > b => b - Cardinality(F) = 0
    BY <1>2
  <2> HIDE DEF a, b
  <2>4. Cardinality(a..b) = b - Cardinality(F)
    BY <2>1, <2>2, <2>3
  <2> QED BY <2>2, <2>4 DEF a, b
<1>5. \A e, f \in O : g[e] = g[f] => e = f
  <2>1. g \in [O -> S] /\ \A s \in S : \E e \in O : g[e] = s
    BY <1>1
  <2>2. IsFiniteSet(O) /\ IsFiniteSet(S) /\ Cardinality(O) = Cardinality(S)
    BY <1>1, <1>3
  <2> HIDE DEF g, S
  <2> QED BY ONLY <2>1, <2>2, OneToOne
<1>6. \A e, f \in O : h[e] = h[f] => e = f
  <2>1. h \in [O -> P] /\ \A s \in P : \E e \in O : h[e] = s
    BY <1>1
  <2>2. IsFiniteSet(O) /\ IsFiniteSet(P) /\ Cardinality(O) = Cardinality(P)
    BY <1>1, <1>4
  <2> HIDE DEF h, P
  <2> QED BY ONLY <2>1, <2>2, OneToOne
<1> QED BY <1>5, <1>6

\* The place of a player is the position of any elimination that names them.
PlacesAgree ==
    /\ \A p \in field : PlaceOf(p) = 0
    /\ \A e \in out : e.player \in Players \ field /\ PlaceOf(e.player) = e.position
    /\ \A p \in Players \ field : \E e \in out : e.player = p

LEMMA PlaceFacts == TypeOK /\ PlaceInv => PlacesAgree
<1> SUFFICES ASSUME TypeOK, PlaceInv PROVE PlacesAgree
  OBVIOUS
<1>1. {e.player : e \in out} = Players \ field
  BY DEF PlaceInv, Placement
<1>2. ASSUME NEW e \in out PROVE e.player \in Players \ field /\ PlaceOf(e.player) = e.position
  <2>1. e.player \in Players \ field
    BY <1>1
  <2> DEFINE f == CHOOSE d \in out : d.player = e.player
  <2>2. f \in out /\ f.player = e.player
    OBVIOUS
  <2>3. f = e
    <3> HIDE DEF f
    <3>1. PlacesOf(out, field) /\ field \in SUBSET Players
      BY FieldFacts DEF PlaceInv, Placement, PlacesOf
    <3> QED BY <2>2, <3>1, OneElimination
  <2>4. PlaceOf(e.player) = f.position
    BY <2>1 DEF PlaceOf
  <2> HIDE DEF f
  <2> QED BY <2>1, <2>3, <2>4
<1> QED BY <1>1, <1>2 DEF PlaceOf, PlacesAgree

LEMMA PlaceFactsNext == TypeOK' /\ PlaceInv' => PlacesAgree'
BY PlaceFacts, PTL

LEMMA InitStandings == Init => Standing!Init
BY DEF Init, Standing!Init, PlaceOf

\* The players busted by a round's hands drop out together; if none are, nothing happens.
LEMMA SettleStandings ==
  ASSUME SeatingInv, PlaceInv, Settle
  PROVE  [Standing!Next]_Standing!vars
<1> DEFINE B == Busted
           F == field \ B
           place(p) == [player |-> p, position |-> Position(p), round |-> rounds]
           new == {place(p) : p \in B}
           m == Cardinality(field)
           n == Cardinality(B)
<1>1. PlaceInv' /\ TypeOK /\ TypeOK'
  BY SettleSeating, SettlePlaces DEF SeatingInv
<1>2. out' = out \cup new /\ field' = F
  BY DEF Settle
<1>3. B \subseteq field /\ field \subseteq Players /\ B \in SUBSET field
  BY <1>1, BustedFacts, FieldFacts
<1>4. \A p \in Players \ B : PlaceOf(p)' = PlaceOf(p)
  <2>1. SUFFICES ASSUME NEW p \in Players \ B PROVE PlaceOf(p)' = PlaceOf(p)
    OBVIOUS
  <2>2. CASE p \in field
    BY <1>2, <2>1, <2>2 DEF PlaceOf
  <2>3. CASE p \notin field
    <3>1. PICK e \in out : e.player = p
      BY <1>1, <2>1, <2>3, PlaceFacts DEF PlacesAgree
    <3>2. PlaceOf(p) = e.position
      BY <1>1, <3>1, PlaceFacts DEF PlacesAgree
    <3>3. \A d \in out' : PlaceOf(d.player)' = d.position
      BY <1>1, PlaceFactsNext DEF PlacesAgree
    <3> QED BY <1>2, <3>1, <3>2, <3>3
  <2> QED BY <2>2, <2>3
<1>5. \A p \in B : PlaceOf(p)' = Position(p)
  <2>1. TAKE p \in B
  <2>2. place(p) \in out' /\ place(p).player = p /\ place(p).position = Position(p)
    BY <1>2
  <2>3. \A e \in out' : PlaceOf(e.player)' = e.position
    BY <1>1, PlaceFactsNext DEF PlacesAgree
  <2> QED BY <2>2, <2>3
<1>6. /\ m \in Nat /\ n \in Nat /\ n <= m /\ Cardinality(F) = m - n
      /\ {Position(p) : p \in B} = (m - n + 1)..m
  BY <1>1, PositionFacts
<1>7. {PlaceOf(p)' : p \in B} = (Cardinality(F) + 1)..m
  <2>1. {PlaceOf(p)' : p \in B} = {Position(p) : p \in B}
    BY <1>5
  <2>2. Cardinality(F) + 1 = m - n + 1
    BY <1>6
  <2> QED BY <1>6, <2>1, <2>2
<1>8. \A p \in Players : PlaceOf(p)' \in 0..Cardinality(Players)
  <2>1. SUFFICES ASSUME NEW p \in Players PROVE PlaceOf(p)' \in 0..Cardinality(Players)
    OBVIOUS
  <2>2. Cardinality(Players) \in Nat /\ Cardinality(F) \in Nat
    BY <1>6, PlayersAssumption, FS_CardinalityType
  <2>3. CASE p \in F
    BY <1>2, <2>2, <2>3 DEF PlaceOf
  <2>4. CASE p \notin F
    <3>1. PICK e \in out' : e.player = p /\ PlaceOf(p)' = e.position
      BY <1>1, <1>2, <2>1, <2>4, PlaceFactsNext DEF PlacesAgree
    <3>2. e.position \in (Cardinality(F) + 1)..Cardinality(Players)
      BY <1>1, <1>2 DEF PlaceInv, Placement
    <3> HIDE DEF F
    <3> QED BY <2>2, <3>1, <3>2
  <2> QED BY <2>3, <2>4
<1>9. B # field
  BY <1>1, <1>2, SettleLeaves
<1> HIDE DEF F, B
<1>10. CASE B = {}
  <2>1. field' = field
    BY <1>2, <1>10 DEF F
  <2>2. [p \in Players |-> PlaceOf(p)]' = [p \in Players |-> PlaceOf(p)]
    BY <1>4, <1>10
  <2> QED BY <2>1, <2>2 DEF Standing!vars
<1>11. CASE B # {}
  <2> DEFINE pl == [p \in Players |-> PlaceOf(p)]
  <2>1. field' = F /\ pl' \in [Players -> 0..Cardinality(Players)]
    BY <1>2, <1>8 DEF F
  <2>2. {pl'[p] : p \in B} = (Cardinality(F) + 1)..Cardinality(field)
    <3>1. \A p \in B : pl'[p] = PlaceOf(p)'
      BY <1>3
    <3> HIDE DEF pl
    <3> QED BY <1>7, <3>1
  <2>3. \A p \in Players \ B : pl'[p] = pl[p]
    BY <1>4
  <2>4. \A S : Standing!Cardinality(S) = Cardinality(S)
    BY DEF Standing!Cardinality, Cardinality
  <2>5. Standing!DropOut(B)
    BY <1>9, <1>11, <2>1, <2>2, <2>3, <2>4 DEF Standing!DropOut, F
  <2> QED BY <1>3, <2>5 DEF Standing!Next
<1> QED BY <1>10, <1>11

LEMMA StandingsStep ==
  SeatingInv /\ PlaceInv /\ [Next]_vars => [Standing!Next]_Standing!vars
<1> SUFFICES ASSUME SeatingInv, PlaceInv, [Next]_vars
             PROVE  [Standing!Next]_Standing!vars
  OBVIOUS
<1>1. CASE Settle
  BY <1>1, SettleStandings
<1>2. ASSUME UNCHANGED <<field, out>> PROVE UNCHANGED Standing!vars
  BY <1>2 DEF Standing!vars, PlaceOf
<1>3. CASE BeginRound \/ CloseTable \/ Reseat \/ Balance \/ EndRound \/ UNCHANGED vars
  <2>1. UNCHANGED <<field, out>>
    BY <1>3 DEF BeginRound, CloseTable, Reseat, Balance, EndRound, vars
  <2> QED BY <1>2, <2>1
<1>4. CASE \E i \in DOMAIN tables : PlayHand(i)
  <2>1. UNCHANGED <<field, out>>
    BY <1>4 DEF PlayHand
  <2> QED BY <1>2, <2>1
<1> QED BY <1>1, <1>3, <1>4 DEF Next, RoundStep, Rebalance, Stopped

\* Every behaviour of the tournament is one of Standings: players drop out into the
\* lowest places still open, and no place is ever changed.
THEOREM TournamentStandings == Spec => KeepsStandings
<1>1. Spec => Standing!Init /\ [][Standing!Next]_Standing!vars
  BY InitStandings, StandingsStep, SeatingInvariant, PlaceInvariant, PTL DEF Spec
<1> QED BY <1>1 DEF KeepsStandings, Standing!Spec

-----------------------------------------------------------------------------
(* LiveTable.  Whatever the live table reports and wherever a crash falls, the *)
(* session, and what its row makes of it, keep everybody seated or placed.     *)

\* A round begins, runs on and ends as it does in Tournament.
LEMMA LiveSteps ==
  ASSUME LiveNext
  PROVE  \/ [Next]_vars \/ Restart \/ RoundRaises
         \/ \E i \in DOMAIN tables : LiveHand(i)
<1>1. CASE BeginLiveRound
  <2>1. auto' = FALSE /\ ~HumanOut /\ ~Complete
    BY <1>1 DEF BeginLiveRound, Ended
  <2> QED BY <1>1, <2>1 DEF BeginLiveRound, BeginRound, Idle, Next
<1>2. CASE LiveRoundStep
  BY <1>2 DEF LiveRoundStep, FieldHand, RoundStep, Next
<1>3. CASE WatchRound \/ Advance
  BY <1>3 DEF WatchRound, Advance, Next
<1>4. CASE \/ Sit \/ ColdLoad \/ Resume \/ Evict \/ HandEnds \/ BeginWatch \/ EndWatch
           \/ FinishedAlready \/ Conclude \/ Finalize \/ SaveSession \/ SaveGame \/ AtBound
  BY <1>4 DEF Sit, ColdLoad, Resume, Evict, HandEnds, BeginWatch, EndWatch,
              FinishedAlready, Conclude, Finalize, SaveSession, SaveGame, AtBound, lvars
<1> QED BY <1>1, <1>2, <1>3, <1>4 DEF LiveNext, Boundary

\* What a row holds of a session between rounds.
RowInv ==
    /\ row = [field |-> row.field, stacks |-> row.stacks, out |-> row.out,
              tables |-> row.tables, rounds |-> row.rounds]
    /\ row.field # {}
    /\ Seated(row.tables, row.field)
    /\ PlacesOf(row.out, row.field)
    /\ \A e \in row.out : e.round < row.rounds
    /\ \A e, f \in row.out : e.round < f.round => f.position < e.position

LiveInv ==
    /\ LiveTypeOK
    /\ SeatingInv /\ PlaceInv /\ field # {}
    /\ RowInv
    /\ field \subseteq row.field /\ row.out \subseteq out

\* The session as it is restored from its row.
LEMMA RestartSession ==
  ASSUME LiveInv, Restart
  PROVE  SeatingInv' /\ PlaceInv' /\ field' # {}
<1> USE DEF Restart
<1>1. TypeOK'
  <2>1. DOMAIN played' = TableIds /\ \A i \in TableIds : played'[i] \in 0..2
    BY DEF NoHands
  <2>2. pre' \in [Players -> Nat]
    BY DEF NoStacks
  <2> QED BY <2>1, <2>2 DEF LiveInv, LiveTypeOK, TypeOK
<1>2. Seated(tables, field)'
  BY DEF LiveInv, RowInv, Seated, Tables, OnlyThese, OneSeat, NoneMissing
<1>3. SeatingInv'
  BY <1>1, <1>2 DEF SeatingInv
<1>4. \A e \in row.out : e.round \in Nat /\ e.round < row.rounds /\ row.rounds \in Nat
  BY DEF LiveInv, RowInv, LiveTypeOK, Elimination
<1>5. PlaceInv'
  <2>1. Placement' /\ IsFiniteSet(out')
    BY DEF LiveInv, RowInv, PlacesOf, Placement
  <2>2. LaterIsHigher'
    BY DEF LiveInv, RowInv, LaterIsHigher
  <2>3. \A e \in out' : e.round < rounds' /\ e.round <= rounds'
    BY <1>4
  <2> QED BY <2>1, <2>2, <2>3 DEF PlaceInv
<1> QED BY <1>3, <1>5 DEF LiveInv, RowInv

\* A row as it is written from the session.
LEMMA SavedRow ==
  ASSUME LiveInv, stage = "between", row' = Session, UNCHANGED vars
  PROVE  /\ RowInv' /\ field' \subseteq row'.field /\ row'.out \subseteq out'
         /\ DOMAIN row' = {"field", "stacks", "out", "tables", "rounds"}
         /\ row'.field \in SUBSET Players /\ row'.stacks \in [Players -> Nat]
         /\ row'.out \in SUBSET Elimination /\ row'.rounds \in Nat
         /\ DOMAIN row'.tables \in SUBSET TableIds
         /\ \A i \in DOMAIN row'.tables : row'.tables[i] \in Table
<1>1. /\ row'.field = field /\ row'.stacks = stacks /\ row'.out = out
      /\ row'.tables = tables /\ row'.rounds = rounds
      /\ row' = [field |-> field, stacks |-> stacks, out |-> out, tables |-> tables,
                 rounds |-> rounds]
  BY DEF Session
<1>2. TypeOK /\ Seated(tables, field) /\ PlaceInv /\ field # {}
  BY DEF LiveInv, SeatingInv
<1>3. PlacesOf(out, field)
  BY <1>2 DEF PlaceInv, Placement, PlacesOf
<1>4. /\ \A e \in out : e.round < rounds
      /\ \A e, f \in out : e.round < f.round => f.position < e.position
  BY <1>2 DEF PlaceInv, LaterIsHigher
<1>5. Seated(row.tables, row.field)' /\ PlacesOf(row.out, row.field)'
  BY <1>1, <1>2, <1>3 DEF Seated, Tables, OnlyThese, OneSeat, NoneMissing, PlacesOf
<1>6. RowInv'
  BY <1>1, <1>2, <1>4, <1>5 DEF RowInv
<1> QED BY <1>1, <1>2, <1>6 DEF TypeOK, vars

\* The human's table, when the human is in.
LEMMA HumanSeat ==
  ASSUME TypeOK, Seated(tables, field), Human \in field
  PROVE  /\ HumanTable \in DOMAIN tables /\ Human \in PlayersAt(tables[HumanTable])
         /\ \A i \in DOMAIN tables : Human \in PlayersAt(tables[i]) => i = HumanTable
         /\ \A i \in DOMAIN tables : PlayersAt(tables[i]) \subseteq field
         /\ \A i, j \in DOMAIN tables :
               i # j => PlayersAt(tables[i]) \cap PlayersAt(tables[j]) = {}
<1>1. UNION {PlayersAt(tables[i]) : i \in DOMAIN tables} = field
  BY SeatedFacts, FieldFacts
<1>2. PICK i \in DOMAIN tables : Human \in PlayersAt(tables[i])
  BY <1>1
<1>3. HumanTable \in DOMAIN tables /\ Human \in PlayersAt(tables[HumanTable])
  BY <1>2 DEF HumanTable
<1>4. ASSUME NEW k \in DOMAIN tables, NEW j \in DOMAIN tables,
             NEW p \in PlayersAt(tables[k]) \cap PlayersAt(tables[j])
      PROVE  k = j
  <2>1. PICK a \in Occupied(tables[k]) : tables[k].seats[a] = p
    BY <1>4 DEF PlayersAt
  <2>2. PICK b \in Occupied(tables[j]) : tables[j].seats[b] = p
    BY <1>4 DEF PlayersAt
  <2> QED BY <2>1, <2>2 DEF Seated, OneSeat, Occupied
<1> QED BY <1>1, <1>3, <1>4

\* Whom a new game seats.
LEMMA SpecsFacts ==
  ASSUME LiveInv, ~Ended
  PROVE  IsGame(SeatSpecs) /\ Human \in DOMAIN SeatSpecs /\ SeatSpecs # NoGame
<1>1. TypeOK /\ Seated(tables, field) /\ Human \in field
  BY DEF LiveInv, SeatingInv, Ended, HumanOut
<1>2. Human \in PlayersAt(tables[HumanTable]) /\ PlayersAt(tables[HumanTable]) \subseteq field
  BY <1>1, HumanSeat
<1>3. field \subseteq Players /\ stacks \in [Players -> Nat]
  BY <1>1 DEF TypeOK
<1>4. SeatSpecs \in [PlayersAt(tables[HumanTable]) -> Nat]
  BY <1>2, <1>3 DEF SeatSpecs
<1>5. Human \notin DOMAIN NoGame
  BY DEF NoGame
<1> QED BY <1>2, <1>3, <1>4, <1>5 DEF IsGame

\* The session after the live hand, whatever has been reported.
LEMMA LiveHandSeating ==
  ASSUME LiveInv, NEW k \in DOMAIN tables, LiveHand(k)
  PROVE  /\ SeatingInv' /\ PlaceInv' /\ UNCHANGED <<field, out>>
         /\ DOMAIN tables' = DOMAIN tables
         /\ \A i \in DOMAIN tables : tables'[i].seats = tables[i].seats
<1> USE DEF LiveHand
<1>1. TypeOK /\ IsGame(live)
  BY DEF LiveInv, LiveTypeOK
<1>2. Occupied(tables[k]) # {}
  BY DEF HumansTable, PlayersAt
<1>3. stacks' \in [Players -> Nat]
  <2>1. PICK result \in Reported(k) : stacks' = Folded(result)
    OBVIOUS
  <2>2. PICK K \in SUBSET DOMAIN live : result = Restrict(live, K)
    BY DEF Reported
  <2>3. DOMAIN result = K /\ \A p \in K : result[p] \in Nat
    BY <1>1, <2>2 DEF IsGame, Restrict
  <2> QED BY <1>1, <2>1, <2>3 DEF Folded, TypeOK
<1>4. DOMAIN played' = TableIds /\ \A i \in TableIds : played'[i] \in 0..2
  BY <1>1 DEF TypeOK
<1>5. /\ SeatingInv' /\ DOMAIN tables' = DOMAIN tables
      /\ \A i \in DOMAIN tables : tables'[i].seats = tables[i].seats
  BY <1>2, <1>3, <1>4, HandSeating DEF LiveInv
<1>6. PlaceInv'
  BY DEF LiveInv, PlaceInv, Placement, LaterIsHigher
<1> QED BY <1>5, <1>6

\* A round that fails leaves everybody where the hands have.
LEMMA RaisesSeating ==
  ASSUME LiveInv, RoundRaises
  PROVE  SeatingInv' /\ PlaceInv' /\ UNCHANGED <<field, out>>
<1> USE DEF RoundRaises
<1>1. TypeOK /\ Seated(tables, field) /\ closing = 0
  BY DEF LiveInv, SeatingInv
<1>2. TypeOK'
  <2>1. DOMAIN played' = TableIds /\ \A i \in TableIds : played'[i] \in 0..2
    BY DEF NoHands
  <2>2. pre' \in [Players -> Nat]
    BY DEF NoStacks
  <2> QED BY <1>1, <2>1, <2>2 DEF TypeOK
<1>3. SeatingInv'
  BY <1>1, <1>2 DEF SeatingInv, Seated, Tables, OnlyThese, OneSeat, NoneMissing
<1>4. PlaceInv'
  BY DEF LiveInv, PlaceInv, Placement, LaterIsHigher
<1> QED BY <1>3, <1>4

\* The field only shrinks, and never to nobody, but for a restart.
LEMMA FieldShrinks ==
  ASSUME LiveInv, [Next]_vars
  PROVE  /\ SeatingInv' /\ PlaceInv'
         /\ field' \subseteq field /\ field' # {} /\ out \subseteq out'
<1>1. SeatingInv' /\ PlaceInv'
  BY SeatingStep, PlaceStep DEF LiveInv, SeatingInv
<1>2. CASE Settle
  BY <1>1, <1>2, SettleLeaves DEF LiveInv, SeatingInv, Settle
<1>3. CASE UNCHANGED <<field, out>>
  BY <1>1, <1>3 DEF LiveInv
<1>4. CASE BeginRound \/ CloseTable \/ Reseat \/ Balance \/ EndRound \/ UNCHANGED vars
  BY <1>3, <1>4 DEF BeginRound, CloseTable, Reseat, Balance, EndRound, vars
<1>5. CASE \E i \in DOMAIN tables : PlayHand(i)
  BY <1>3, <1>5 DEF PlayHand
<1> QED BY <1>2, <1>4, <1>5 DEF Next, RoundStep, Rebalance, Stopped

\* The session and the row after any step.
LEMMA LiveSeating ==
  ASSUME LiveInv, LiveNext
  PROVE  /\ SeatingInv' /\ PlaceInv' /\ field' # {}
         /\ Restart \/ (field' \subseteq field /\ out \subseteq out')
<1>1. CASE \E i \in DOMAIN tables : LiveHand(i)
  BY <1>1, LiveHandSeating DEF LiveInv
<1>2. CASE RoundRaises
  BY <1>2, RaisesSeating DEF LiveInv
<1> QED BY <1>1, <1>2, LiveSteps, FieldShrinks, RestartSession

\* A row is written from the session as it is between rounds, or not at all.
LEMMA RowWritten ==
  ASSUME LiveNext
  PROVE  \/ UNCHANGED row
         \/ row' = Session /\ stage = "between" /\ UNCHANGED vars
<1>1. CASE Sit \/ SaveSession \/ EndWatch
  BY <1>1 DEF Sit, SaveSession, EndWatch, Idle
<1>2. CASE \/ ColdLoad \/ Resume \/ Evict \/ HandEnds \/ BeginWatch \/ AtBound \/ Restart
           \/ WatchRound \/ Advance \/ LiveRoundStep \/ RoundRaises
           \/ FinishedAlready \/ BeginLiveRound \/ Conclude \/ Finalize \/ SaveGame
  BY <1>2 DEF ColdLoad, Resume, Evict, HandEnds, BeginWatch, AtBound, Restart,
              WatchRound, Advance, LiveRoundStep, RoundRaises,
              FinishedAlready, BeginLiveRound, Conclude, Finalize, SaveGame, rows, lvars
<1> QED BY <1>1, <1>2 DEF LiveNext, Boundary

LEMMA RowSeating ==
  ASSUME LiveInv, LiveNext
  PROVE  /\ RowInv' /\ field' \subseteq row'.field /\ row'.out \subseteq out'
         /\ DOMAIN row' = {"field", "stacks", "out", "tables", "rounds"}
         /\ row'.field \in SUBSET Players /\ row'.stacks \in [Players -> Nat]
         /\ row'.out \in SUBSET Elimination /\ row'.rounds \in Nat
         /\ DOMAIN row'.tables \in SUBSET TableIds
         /\ \A i \in DOMAIN row'.tables : row'.tables[i] \in Table
<1>1. CASE UNCHANGED row
  <2>1. RowInv'
    BY <1>1 DEF LiveInv, RowInv, Seated, Tables, OnlyThese, OneSeat, NoneMissing, PlacesOf
  <2>2. field' \subseteq row'.field /\ row'.out \subseteq out'
    <3>1. CASE Restart
      BY <1>1, <3>1 DEF Restart
    <3>2. CASE field' \subseteq field /\ out \subseteq out'
      BY <1>1, <3>2 DEF LiveInv
    <3> QED BY <3>1, <3>2, LiveSeating
  <2> QED BY <1>1, <2>1, <2>2 DEF LiveInv, LiveTypeOK
<1>2. CASE row' = Session /\ stage = "between" /\ UNCHANGED vars
  BY <1>2, SavedRow
<1> QED BY <1>1, <1>2, RowWritten

\* The live game's own types.
GameTypes ==
    /\ persona \in BOOLEAN /\ at \in Places /\ IsGame(live)
    /\ finalized \in BOOLEAN /\ watching \in {"no", "round", "end"}
    /\ torn \in 0..TornHands + 1
    /\ IsGame(gameRow) /\ counted \in 0..2

LEMMA GameStep ==
  ASSUME LiveInv, LiveNext
  PROVE  GameTypes'
<1>1. GameTypes
  BY DEF LiveInv, LiveTypeOK, GameTypes
<1>2. IsGame(NoGame)
  BY DEF IsGame, NoGame
<1>3. ASSUME UNCHANGED <<persona, live, gameRow, counted, torn, finalized>>, at' \in Places,
             watching' \in {"no", "round", "end"}
      PROVE  GameTypes'
  BY <1>1, <1>3 DEF GameTypes, IsGame
<1>4. CASE Resume \/ BeginLiveRound \/ LiveRoundStep \/ BeginWatch \/ WatchRound \/ Advance
           \/ EndWatch \/ AtBound \/ SaveSession
  <2>1. watching \in {"no", "round", "end"} /\ at \in Places
    BY <1>1 DEF GameTypes
  <2>2. UNCHANGED <<persona, live, gameRow, counted, torn, finalized>>
        /\ at' \in Places /\ watching' \in {"no", "round", "end"}
    BY <1>4, <2>1 DEF Resume, BeginLiveRound, LiveRoundStep, BeginWatch, WatchRound, Advance,
        EndWatch, AtBound, SaveSession, lvars, rows, game, Places
  <2> QED BY <1>3, <2>2
<1>5. CASE Sit
  <2>1. live' = SeatSpecs /\ gameRow' = SeatSpecs /\ at' = "hand"
        /\ UNCHANGED <<persona, counted, torn, watching>> /\ finalized' = FALSE
    BY <1>5 DEF Sit
  <2>2. IsGame(SeatSpecs)
    BY <1>5, SpecsFacts DEF Sit
  <2> HIDE DEF SeatSpecs
  <2> QED BY <1>1, <2>1, <2>2 DEF GameTypes, IsGame, Places
<1>6. CASE ColdLoad
  <2>1. live' = gameRow /\ at' = "hand" /\ finalized' = FALSE
        /\ UNCHANGED <<persona, counted, torn, watching, gameRow>>
    BY <1>6 DEF ColdLoad, rows
  <2> QED BY <1>1, <2>1 DEF GameTypes, IsGame, Places
<1>7. CASE Evict
  <2>1. live' = NoGame /\ at' = "none" /\ finalized' = FALSE
        /\ UNCHANGED <<persona, counted, torn, watching, gameRow>>
    BY <1>7 DEF Evict, rows
  <2> QED BY <1>1, <1>2, <2>1 DEF GameTypes, IsGame, Places
<1>8. CASE HandEnds
  <2>1. at' = "over" /\ UNCHANGED <<persona, counted, finalized, watching, gameRow>>
        /\ (live' = live \/ live' \in Divisions)
        /\ torn <= TornHands /\ torn' = IF torn = 0 THEN 0 ELSE torn + 1
    BY <1>8 DEF HandEnds, rows
  <2>2. torn' \in 0..TornHands + 1
    BY <1>1, <2>1, LiveAssumption DEF GameTypes
  <2>3. CASE live' \in Divisions
    <3>1. DOMAIN live' = DOMAIN live /\ live' \in [DOMAIN live -> 0..Chips(live)]
      BY <2>3 DEF Divisions
    <3>2. Chips(live) \in Int
      <4>1. /\ IsFiniteSet(DOMAIN live) /\ \A p \in DOMAIN live : live[p] \in Int
        BY <1>1, PlayersAssumption, FS_Subset DEF GameTypes, IsGame
      <4> QED BY <4>1, SumInt DEF Chips, SumFunction
    <3>3. IsGame(live')
      BY <1>1, <3>1, <3>2 DEF GameTypes, IsGame
    <3> QED BY <1>1, <2>1, <2>2, <3>3 DEF GameTypes, IsGame, Places
  <2>4. CASE live' = live
    BY <1>1, <2>1, <2>2, <2>4 DEF GameTypes, IsGame, Places
  <2> QED BY <2>1, <2>3, <2>4
<1>9. CASE FinishedAlready \/ RoundRaises \/ SaveGame
  <2>1. /\ UNCHANGED <<persona, live, finalized, counted, torn>>
        /\ gameRow' = live \/ gameRow' = gameRow
        /\ at' \in Places /\ watching' \in {"no", "round", "end"}
    BY <1>1, <1>9 DEF FinishedAlready, RoundRaises, SaveGame, Places, GameTypes
  <2> QED BY <1>1, <2>1 DEF GameTypes, IsGame
<1>10. CASE Conclude
  <2>1. /\ UNCHANGED <<persona, finalized, watching, counted, torn>> /\ at' \in Places
        /\ gameRow' = live' \/ gameRow' = gameRow
        /\ live' = live \/ (live' = SeatSpecs /\ ~Ended)
    BY <1>10 DEF Conclude, Places
  <2>2. IsGame(live')
    <3>1. CASE live' = live
      BY <1>1, <3>1 DEF GameTypes, IsGame
    <3>2. CASE live' = SeatSpecs /\ ~Ended
      <4>1. IsGame(SeatSpecs)
        BY <3>2, SpecsFacts
      <4> HIDE DEF SeatSpecs
      <4> QED BY <3>2, <4>1 DEF IsGame
    <3> QED BY <2>1, <3>1, <3>2
  <2> QED BY <1>1, <2>1, <2>2 DEF GameTypes, IsGame
<1>11. CASE Finalize
  <2>1. /\ UNCHANGED <<persona, live, gameRow, watching, torn>> /\ at' = "final" /\ finalized' = TRUE
        /\ counted' = IF finalized \/ counted = 2 THEN counted ELSE counted + 1
    BY <1>11 DEF Finalize
  <2> QED BY <1>1, <2>1 DEF GameTypes, IsGame, Places
<1>12. CASE Restart
  <2>1. /\ UNCHANGED <<persona, gameRow, counted>> /\ at' = "none" /\ live' = NoGame
        /\ finalized' = FALSE /\ watching' = "no" /\ (torn' = 1 \/ torn' = torn)
    BY <1>12 DEF Restart, rows
  <2>2. torn' \in 0..TornHands + 1
    BY <1>1, <2>1, LiveAssumption DEF GameTypes
  <2> QED BY <1>1, <1>2, <2>1, <2>2 DEF GameTypes, IsGame, Places
<1> QED BY <1>4, <1>5, <1>6, <1>7, <1>8, <1>9, <1>10, <1>11, <1>12 DEF LiveNext, Boundary

LEMMA LiveStart == LiveInit => LiveInv
<1> SUFFICES ASSUME LiveInit PROVE LiveInv
  OBVIOUS
<1>1. SeatingInv /\ PlaceInv
  BY InitSeating, InitPlaces DEF LiveInit
<1>2. TypeOK /\ Seated(tables, field) /\ field = Players /\ out = {} /\ row = Session
      /\ stage = "between"
  BY <1>1 DEF SeatingInv, LiveInit, Init
<1>3. GameTypes
  <2>1. IsGame(NoGame)
    BY DEF IsGame, NoGame
  <2>2. torn \in 0..TornHands + 1 /\ counted \in 0..2 /\ persona \in BOOLEAN
    BY LiveAssumption DEF LiveInit
  <2> QED BY <2>1, <2>2 DEF LiveInit, GameTypes, IsGame, Places
<1>4. Players # {}
  BY PlayersAssumption, FS_EmptySet
<1>5. /\ row.field = field /\ row.stacks = stacks /\ row.out = out
      /\ row.tables = tables /\ row.rounds = rounds
      /\ DOMAIN row = {"field", "stacks", "out", "tables", "rounds"}
      /\ row = [field |-> field, stacks |-> stacks, out |-> out, tables |-> tables,
                rounds |-> rounds]
  BY <1>2 DEF Session
<1>6. PlacesOf(out, field)
  BY <1>1 DEF PlaceInv, Placement, PlacesOf
<1>7. RowInv
  BY <1>2, <1>4, <1>5, <1>6 DEF RowInv
<1>8. LiveTypeOK
  BY <1>2, <1>3, <1>5 DEF TypeOK, GameTypes, LiveTypeOK
<1> QED BY <1>1, <1>2, <1>4, <1>5, <1>7, <1>8 DEF LiveInv

LEMMA LiveStep == LiveInv /\ [LiveNext]_lvars => LiveInv'
<1> SUFFICES ASSUME LiveInv, [LiveNext]_lvars PROVE LiveInv'
  OBVIOUS
<1>1. CASE LiveNext
  <2>1. TypeOK'
    BY <1>1, LiveSeating DEF SeatingInv
  <2>2. LiveTypeOK'
    BY <1>1, <2>1, GameStep, RowSeating DEF GameTypes, LiveTypeOK
  <2> QED BY <1>1, <2>2, LiveSeating, RowSeating DEF LiveInv
<1>2. CASE UNCHANGED lvars
  <2>1. SeatingInv' /\ PlaceInv'
    BY <1>2, SeatingStep, PlaceStep DEF LiveInv, SeatingInv, lvars
  <2>2. RowInv'
    BY <1>2 DEF LiveInv, RowInv, Seated, Tables, OnlyThese, OneSeat, NoneMissing, PlacesOf,
                lvars, rows
  <2>3. LiveTypeOK'
    BY <1>2, <2>1 DEF LiveInv, LiveTypeOK, SeatingInv, IsGame, lvars, rows, game
  <2>4. field' # {} /\ field' \subseteq row'.field /\ row'.out \subseteq out'
    BY <1>2 DEF LiveInv, lvars, rows, vars
  <2> QED BY <2>1, <2>2, <2>3, <2>4 DEF LiveInv
<1> QED BY <1>1, <1>2

\* Everybody is seated or placed, in memory and in the row, whatever the live
\* game reports and wherever the server stops.
THEOREM LiveInvariant == LiveSpec => []LiveInv
BY LiveStart, LiveStep, PTL DEF LiveSpec

\* The state keeps its shape: no row names a table or a stack that is not one.
THEOREM LiveTypes == LiveSpec => []LiveTypeOK
<1>1. LiveInv => LiveTypeOK
  BY DEF LiveInv
<1> QED BY LiveInvariant, <1>1, PTL

-----------------------------------------------------------------------------
(* The saved session implements Standings, torn or not. *)

\* Where the row and the session stand before a save.
LEMMA SavedPlaceFacts ==
  ASSUME LiveInv
  PROVE  /\ row.field \in SUBSET Players /\ field \in SUBSET row.field
         /\ row.out \in SUBSET out
         /\ PlacesOf(out, field) /\ PlacesOf(row.out, row.field)
         /\ \A e \in row.out : SavedPlace(e.player) = e.position
         /\ \A p \in Players \ row.field : \E e \in row.out : e.player = p
<1>1. /\ row.field \in SUBSET Players /\ field \in SUBSET row.field /\ row.out \in SUBSET out
      /\ PlacesOf(row.out, row.field)
  BY DEF LiveInv, LiveTypeOK, RowInv
<1>2. PlacesOf(out, field)
  BY DEF LiveInv, PlaceInv, Placement, PlacesOf
<1>3. {e.player : e \in row.out} = Players \ row.field
  BY <1>1 DEF PlacesOf
<1>4. ASSUME NEW e \in row.out PROVE SavedPlace(e.player) = e.position
  <2> DEFINE f == CHOOSE d \in row.out : d.player = e.player
  <2>1. f \in row.out /\ f.player = e.player
    OBVIOUS
  <2>2. SavedPlace(e.player) = f.position
    BY <1>3 DEF SavedPlace
  <2>3. \A c, d \in row.out : c.player = d.player => c = d
    BY <1>1, OneElimination
  <2> HIDE DEF f
  <2> QED BY <2>1, <2>2, <2>3
<1> QED BY <1>1, <1>2, <1>3, <1>4

\* A save: those who have dropped out since the last one have taken the lowest
\* places that the row had left open.
LEMMA SaveStandings ==
  ASSUME LiveInv, row' = Session, UNCHANGED vars
  PROVE  [Saved!Next]_Saved!vars
<1> DEFINE B == row.field \ field
           pl == [p \in Players |-> SavedPlace(p)]
           n == Cardinality(row.field)
           m == Cardinality(field)
           N == Cardinality(Players)
<1>1. row'.field = field /\ row'.out = out
  BY DEF Session
<1>2. \A p \in Players : SavedPlace(p)' = PlaceOf(p)
  BY <1>1 DEF SavedPlace, PlaceOf
<1>3. /\ row.field \in SUBSET Players /\ field \in SUBSET row.field
      /\ row.out \in SUBSET out
      /\ PlacesOf(out, field) /\ PlacesOf(row.out, row.field)
      /\ \A e \in row.out : SavedPlace(e.player) = e.position
      /\ \A p \in Players \ row.field : \E e \in row.out : e.player = p
  BY SavedPlaceFacts
<1>4. PlacesAgree /\ field # {}
  BY PlaceFacts DEF LiveInv, SeatingInv
<1>5. m \in Nat /\ n \in Nat /\ N \in Nat /\ m <= n /\ n <= N
  BY <1>3, PlayersAssumption, FS_Subset, FS_CardinalityType
<1>6. /\ {e.position : e \in out} = (m + 1)..N /\ {e.player : e \in out} = Players \ field
      /\ {e.position : e \in row.out} = (n + 1)..N
      /\ {e.player : e \in row.out} = Players \ row.field
  BY <1>3 DEF PlacesOf
<1>7. \A c, d \in out : c.player = d.player \/ c.position = d.position => c = d
  BY <1>3, OneElimination
<1> HIDE DEF n, m, N
<1>8. \A p \in Players \ B : SavedPlace(p)' = SavedPlace(p)
  <2>1. SUFFICES ASSUME NEW p \in Players \ B PROVE SavedPlace(p)' = SavedPlace(p)
    OBVIOUS
  <2>2. CASE p \in field
    <3>1. SavedPlace(p) = 0 /\ PlaceOf(p) = 0
      BY <1>3, <2>2 DEF SavedPlace, PlaceOf
    <3> QED BY <1>2, <3>1
  <2>3. CASE p \notin row.field
    <3>1. PICK e \in row.out : e.player = p
      BY <1>3, <2>3
    <3>2. SavedPlace(p) = e.position /\ PlaceOf(p) = e.position
      BY <1>3, <1>4, <3>1 DEF PlacesAgree
    <3> QED BY <1>2, <3>2
  <2> QED BY <2>1, <2>2, <2>3
<1>9. {SavedPlace(p)' : p \in B} = (m + 1)..n
  <2>1. \A p \in B : PlaceOf(p) \in (m + 1)..n
    <3>1. TAKE p \in B
    <3>2. PICK e \in out : e.player = p /\ PlaceOf(p) = e.position
      BY <1>3, <1>4 DEF PlacesAgree
    <3>3. e.position \in (m + 1)..N
      BY <1>6
    <3>4. e.position \notin (n + 1)..N
      <4>1. SUFFICES ASSUME e.position \in (n + 1)..N PROVE FALSE
        OBVIOUS
      <4>2. PICK f \in row.out : f.position = e.position
        BY <1>6, <4>1
      <4>3. f = e
        BY <1>3, <1>7, <4>2
      <4> QED BY <1>6, <3>2, <4>2, <4>3
    <3> QED BY <1>5, <3>2, <3>3, <3>4
  <2>2. \A k \in (m + 1)..n : \E p \in B : PlaceOf(p) = k
    <3>1. TAKE k \in (m + 1)..n
    <3>2. k \in (m + 1)..N /\ k \notin (n + 1)..N
      BY <1>5
    <3>3. PICK e \in out : e.position = k
      BY <1>6, <3>2
    <3>4. e \notin row.out
      BY <1>6, <3>2, <3>3
    <3>5. e.player \in Players \ field /\ PlaceOf(e.player) = k
      BY <1>4, <3>3 DEF PlacesAgree
    <3>6. e.player \in row.field
      <4>1. SUFFICES ASSUME e.player \notin row.field PROVE FALSE
        OBVIOUS
      <4>2. PICK f \in row.out : f.player = e.player
        BY <1>3, <3>5, <4>1
      <4> QED BY <1>3, <1>7, <3>4, <4>2
    <3> QED BY <3>5, <3>6
  <2>3. \A p \in B : SavedPlace(p)' = PlaceOf(p)
    BY <1>2, <1>3
  <2> QED BY <2>1, <2>2, <2>3
<1>10. \A p \in Players : SavedPlace(p)' \in 0..N
  <2>1. SUFFICES ASSUME NEW p \in Players PROVE PlaceOf(p) \in 0..N
    BY <1>2
  <2>2. CASE p \in field
    BY <1>4, <1>5, <2>2 DEF PlacesAgree
  <2>3. CASE p \notin field
    <3>1. PICK e \in out : e.player = p /\ PlaceOf(p) = e.position
      BY <1>4, <2>3 DEF PlacesAgree
    <3> QED BY <1>5, <1>6, <3>1
  <2> QED BY <2>2, <2>3
<1>11. B \in SUBSET row.field /\ B # row.field /\ field = row.field \ B
       /\ B \in SUBSET Players
  BY <1>3, <1>4
<1> HIDE DEF B
<1>12. CASE B = {}
  <2>1. row'.field = row.field
    BY <1>1, <1>11, <1>12
  <2>2. pl' = pl
    BY <1>8, <1>12
  <2> QED BY <2>1, <2>2 DEF Saved!vars
<1>13. CASE B # {}
  <2>1. pl' \in [Players -> 0..Cardinality(Players)]
    BY <1>10 DEF N
  <2>2. {pl'[p] : p \in B} = (Cardinality(row.field \ B) + 1)..Cardinality(row.field)
    <3>1. \A p \in B : pl'[p] = SavedPlace(p)'
      BY <1>11
    <3> HIDE DEF pl
    <3> QED BY <1>9, <1>11, <3>1 DEF m, n
  <2>3. \A p \in Players \ B : pl'[p] = pl[p]
    BY <1>8
  <2>4. \A S : Saved!Cardinality(S) = Cardinality(S)
    BY DEF Saved!Cardinality, Cardinality
  <2>5. row'.field = row.field \ B
    BY <1>1, <1>11
  <2> HIDE DEF pl
  <2>6. Saved!DropOut(B)
    BY <1>11, <1>13, <2>1, <2>2, <2>3, <2>4, <2>5 DEF Saved!DropOut, pl
  <2> QED BY <1>11, <2>6 DEF Saved!Next
<1> QED BY <1>12, <1>13

LEMMA SavedStep == LiveInv /\ [LiveNext]_lvars => [Saved!Next]_Saved!vars
<1> SUFFICES ASSUME LiveInv, [LiveNext]_lvars PROVE [Saved!Next]_Saved!vars
  OBVIOUS
<1>1. CASE UNCHANGED row
  BY <1>1 DEF Saved!vars, SavedPlace
<1>2. CASE row' = Session /\ UNCHANGED vars
  BY <1>2, SaveStandings
<1> QED BY <1>1, <1>2, RowWritten DEF lvars, rows

LEMMA SavedStart == LiveInit => Saved!Init
<1> SUFFICES ASSUME LiveInit PROVE Saved!Init
  OBVIOUS
<1>1. row.field = Players
  BY DEF LiveInit, Session, Init
<1> QED BY <1>1 DEF Saved!Init, SavedPlace

\* Once saved a place stands: no crash, replayed hand or fast-forward puts a
\* player back into the saved field or changes where one finished.
THEOREM LiveStandings == LiveSpec => SavedPlacesStand
<1>1. LiveSpec => Saved!Init /\ [][Saved!Next]_Saved!vars
  BY SavedStart, SavedStep, LiveInvariant, PTL DEF LiveSpec
<1> QED BY <1>1 DEF SavedPlacesStand, Saved!Spec

-----------------------------------------------------------------------------
(* The live game and the session, as long as no crash has torn the two rows   *)
(* and /advance is left alone while there is a live game.                      *)

RowEnded == Cardinality(row.field) <= 1 \/ Human \notin row.field

\* The players and chips of the human's table in the saved session.
RowTable == CHOOSE i \in DOMAIN row.tables : Human \in PlayersAt(row.tables[i])
RowSpecs == [p \in PlayersAt(row.tables[RowTable]) |-> row.stacks[p]]

\* A game at the session's table i: the same players, and as many chips.
GameOf(g, i) ==
    /\ DOMAIN g = PlayersAt(tables[i])
    /\ SumFunction(g) = SumFunction([p \in PlayersAt(tables[i]) |-> stacks[p]])

\* Between these the session is not touched, and the row is a copy of it.
Quiet == {"none", "hand", "over", "settled", "closed", "stopped"}

\* Who is at work, and that a game in memory has players and a row.
WorkInv ==
    /\ at # "none" => live # NoGame /\ gameRow # NoGame
    /\ watching = "round" => gameRow = NoGame
    /\ stage # "between" /\ watching = "no" => at = "folding"
    /\ stage = "hands" /\ watching = "end" => auto

RowsAgree ==
    /\ RowChips = TotalChips /\ \A p \in row.field : row.stacks[p] > 0
    /\ Idle /\ at \in Quiet => row = Session
    /\ gameRow # NoGame /\ ~RowEnded /\ ~Tearing => gameRow = RowSpecs

GameAgrees ==
    /\ at \in {"terminal", "final", "closed", "stopped"} => Ended
    /\ Idle /\ ~Ended /\ at \in {"hand", "continue", "settled"} => live = SeatSpecs
    /\ Idle /\ ~Ended /\ at = "over" => GameOf(live, HumanTable)
    /\ stage = "hands" /\ watching = "no" =>
         \A i \in DOMAIN tables : HumansTable(i) /\ played[i] = 0 => GameOf(live, i)

AgreeInv ==
    /\ ~LiveAdvances /\ WorkInv
    /\ torn = 0 => ChipsInv /\ RowsAgree /\ GameAgrees

\* What a step that leaves the session, or the row, alone leaves alone.
LEMMA SessionKept ==
  ASSUME UNCHANGED vars
  PROVE  /\ Session' = Session /\ SeatSpecs' = SeatSpecs /\ (Ended' <=> Ended)
         /\ HumanTable' = HumanTable /\ (ChipsInv' <=> ChipsInv)
         /\ \A g, i : GameOf(g, i)' <=> GameOf(g, i)
BY DEF vars, Session, SeatSpecs, HumanTable, Ended, Complete, HumanOut, ChipsInv,
       ChipsConserved, ChipSum, GameOf

LEMMA RowKept ==
  ASSUME UNCHANGED row
  PROVE  /\ RowChips' = RowChips /\ (RowEnded' <=> RowEnded) /\ RowSpecs' = RowSpecs
         /\ (\A p \in row.field : row.stacks[p] > 0)' <=> \A p \in row.field : row.stacks[p] > 0
BY DEF RowChips, RowEnded, RowSpecs, RowTable

\* A row that is a copy of the session.
LEMMA RowCopied ==
  ASSUME row = Session
  PROVE  /\ RowChips = ChipSum(stacks) /\ (RowEnded <=> Ended) /\ RowSpecs = SeatSpecs
         /\ row.field = field /\ row.stacks = stacks
BY DEF Session, RowChips, ChipSum, RowEnded, Ended, Complete, HumanOut, RowSpecs, RowTable,
       SeatSpecs, HumanTable

LEMMA RowCopiedNext ==
  ASSUME row' = Session, UNCHANGED vars
  PROVE  /\ RowChips' = ChipSum(stacks) /\ (RowEnded' <=> Ended) /\ RowSpecs' = SeatSpecs
         /\ row'.field = field /\ row'.stacks = stacks
BY DEF Session, RowChips, ChipSum, RowEnded, Ended, Complete, HumanOut, RowSpecs, RowTable,
       SeatSpecs, HumanTable

\* A tournament that has ended stays ended.
LEMMA EndedStays ==
  ASSUME LiveInv, field' \subseteq field, Ended
  PROVE  Ended'
<1>1. IsFiniteSet(field) /\ Cardinality(field) \in Nat
  BY FieldFacts DEF LiveInv, SeatingInv
<1>2. Cardinality(field') \in Nat /\ Cardinality(field') <= Cardinality(field)
  BY <1>1, FS_Subset, FS_CardinalityType
<1> QED BY <1>1, <1>2 DEF Ended, Complete, HumanOut

\* A saved session that has ended has ended.
LEMMA RowEndedFirst ==
  ASSUME LiveInv, RowEnded
  PROVE  Ended
<1>1. field \subseteq row.field /\ row.field \subseteq Players
  BY DEF LiveInv, LiveTypeOK
<1>2. IsFiniteSet(row.field) /\ Cardinality(row.field) \in Nat
  BY <1>1, PlayersAssumption, FS_Subset, FS_CardinalityType
<1>3. Cardinality(field) \in Nat /\ Cardinality(field) <= Cardinality(row.field)
  BY <1>1, <1>2, FS_Subset, FS_CardinalityType
<1> QED BY <1>1, <1>2, <1>3 DEF RowEnded, Ended, Complete, HumanOut

LEMMA WorkStep ==
  ASSUME LiveInv, ~LiveAdvances, WorkInv, LiveNext
  PROVE  WorkInv'
<1> USE DEF WorkInv
<1>1. CASE Sit
  <2>1. SeatSpecs # NoGame
    BY <1>1, SpecsFacts DEF Sit
  <2> QED BY <1>1, <2>1 DEF Sit, Idle, vars
<1>2. CASE ColdLoad \/ Resume \/ Evict
  BY <1>2 DEF ColdLoad, Resume, Evict, Idle, vars, rows
<1>3. CASE HandEnds
  <2>1. live' # NoGame
    <3>1. live # NoGame /\ live \in [DOMAIN live -> Nat]
      BY <1>3 DEF HandEnds, LiveInv, LiveTypeOK, IsGame
    <3>2. DOMAIN live # {}
      BY <3>1 DEF NoGame
    <3>3. DOMAIN live' = DOMAIN live
      BY <1>3 DEF HandEnds, Divisions
    <3> QED BY <3>2, <3>3 DEF NoGame
  <2> QED BY <1>3, <2>1 DEF HandEnds, Idle, vars, rows
<1>4. CASE LiveRoundStep
  <2>1. UNCHANGED <<game, watching, rows>> /\ stage # "between"
        /\ stage' \in {stage, "between", "rebalance"}
        /\ (stage' = "hands" => auto' = auto)
    BY <1>4 DEF LiveRoundStep, LiveHand, FieldHand, PlayHand, Settle, Rebalance,
                CloseTable, Reseat, Balance, EndRound
  <2> QED BY <2>1 DEF game, rows
<1>5. CASE RoundRaises
  BY <1>5 DEF RoundRaises
<1>6. CASE FinishedAlready \/ BeginLiveRound \/ Finalize \/ SaveSession \/ SaveGame
  BY <1>6 DEF FinishedAlready, BeginLiveRound, Finalize, SaveSession, SaveGame, Idle, vars, rows
<1>7. CASE Conclude
  <2>1. ~Ended => SeatSpecs # NoGame
    BY SpecsFacts
  <2> QED BY <1>7, <2>1 DEF Conclude, vars
<1>8. CASE BeginWatch \/ WatchRound \/ Advance \/ EndWatch
  BY <1>8 DEF BeginWatch, WatchRound, Advance, EndWatch, BeginRound, Idle, vars, rows, game
<1>9. CASE Restart
  BY <1>9 DEF Restart, rows
<1>10. CASE AtBound
  BY <1>10 DEF AtBound, lvars, vars, rows, game
<1> QED BY <1>1, <1>2, <1>3, <1>4, <1>5, <1>6, <1>7, <1>8, <1>9, <1>10 DEF LiveNext, Boundary

\* The steps between rounds that leave both rows alone.
LEMMA AgreeIdle ==
  ASSUME LiveInv, AgreeInv, torn = 0,
         ColdLoad \/ Resume \/ Evict \/ HandEnds \/ Finalize \/ BeginWatch
  PROVE  ChipsInv' /\ RowsAgree' /\ GameAgrees'
<1>1. /\ UNCHANGED <<vars, row, gameRow, persona>> /\ stage = "between" /\ stage' = "between"
      /\ Idle
  BY DEF ColdLoad, Resume, Evict, HandEnds, Finalize, BeginWatch, Idle, vars, rows
<1>2. ChipsInv /\ RowsAgree /\ GameAgrees
  BY DEF AgreeInv
<1>3. /\ Session' = Session /\ SeatSpecs' = SeatSpecs /\ (Ended' <=> Ended)
      /\ HumanTable' = HumanTable /\ ChipsInv'
      /\ \A g, i : GameOf(g, i)' <=> GameOf(g, i)
  BY <1>1, <1>2, SessionKept
<1>4. /\ RowChips' = RowChips /\ (RowEnded' <=> RowEnded) /\ RowSpecs' = RowSpecs
      /\ (\A p \in row.field : row.stacks[p] > 0)'
  BY <1>1, <1>2, RowKept DEF RowsAgree
<1>5. Tearing' <=> Tearing
  BY <1>1 DEF Tearing, ColdLoad, Resume, Evict, HandEnds, Finalize, BeginWatch, game
<1>6. RowsAgree'
  <2>1. (Idle /\ at \in Quiet)' => Idle /\ at \in Quiet
    BY <1>1 DEF ColdLoad, Resume, Evict, HandEnds, Finalize, BeginWatch, Idle, Quiet
  <2> QED BY <1>1, <1>2, <1>3, <1>4, <1>5, <2>1 DEF RowsAgree
<1>7. GameAgrees'
  <2>1. CASE ColdLoad
    <3>1. ~Ended => gameRow = SeatSpecs
      <4>1. row = Session /\ gameRow # NoGame /\ ~Tearing
        BY <1>2, <2>1 DEF ColdLoad, RowsAgree, Quiet, Tearing
      <4>2. ~RowEnded => gameRow = RowSpecs
        BY <1>2, <4>1 DEF RowsAgree
      <4> QED BY <4>1, <4>2, RowCopied
    <3> QED BY <1>1, <1>3, <2>1, <3>1 DEF ColdLoad, GameAgrees
  <2>2. CASE Resume \/ Finalize
    BY <1>1, <1>2, <1>3, <2>2 DEF Resume, Finalize, GameAgrees
  <2>3. CASE Evict
    BY <1>1, <1>3, <2>3 DEF Evict, GameAgrees
  <2>4. CASE BeginWatch
    BY <1>1, <1>2, <1>3, <2>4 DEF BeginWatch, GameAgrees, Idle, game
  <2>5. CASE HandEnds
    <3>1. CASE Ended
      BY <1>1, <1>3, <2>5, <3>1 DEF HandEnds, GameAgrees
    <3>2. CASE ~Ended
      <4>1. live = SeatSpecs
        BY <1>1, <1>2, <2>5, <3>2 DEF HandEnds, GameAgrees
      <4>2. DOMAIN live' = DOMAIN live /\ Chips(live') = Chips(live)
        BY <2>5, <3>2 DEF HandEnds, Divisions
      <4>3. GameOf(live', HumanTable)
        BY <4>1, <4>2 DEF GameOf, SeatSpecs, Chips
      <4>4. GameOf(live, HumanTable)'
        BY <1>1, <4>3 DEF GameOf, vars, HumanTable
      <4> QED BY <1>1, <1>3, <2>5, <4>4 DEF HandEnds, GameAgrees
    <3> QED BY <3>1, <3>2
  <2> QED BY <2>1, <2>2, <2>3, <2>4, <2>5
<1> QED BY <1>3, <1>6, <1>7

\* The steps between rounds that write a row.
LEMMA AgreeSaves ==
  ASSUME LiveInv, AgreeInv, torn = 0,
         \/ Sit \/ FinishedAlready \/ Conclude \/ SaveSession \/ SaveGame \/ EndWatch
  PROVE  ChipsInv' /\ RowsAgree' /\ GameAgrees'
<1>1. UNCHANGED <<vars, persona>> /\ stage = "between" /\ stage' = "between"
  BY DEF Sit, FinishedAlready, Conclude, SaveSession, SaveGame, EndWatch, Idle, vars
<1>2. ChipsInv /\ RowsAgree /\ GameAgrees /\ WorkInv
  BY DEF AgreeInv
<1>3. /\ Session' = Session /\ SeatSpecs' = SeatSpecs /\ (Ended' <=> Ended)
      /\ HumanTable' = HumanTable /\ ChipsInv'
      /\ \A g, i : GameOf(g, i)' <=> GameOf(g, i)
  BY <1>1, <1>2, SessionKept
<1>4. UNCHANGED row => /\ RowChips' = RowChips /\ (RowEnded' <=> RowEnded) /\ RowSpecs' = RowSpecs
                       /\ (\A p \in row.field : row.stacks[p] > 0)'
  BY <1>2, RowKept DEF RowsAgree
<1>5. row' = Session => /\ RowChips' = TotalChips /\ (RowEnded' <=> Ended) /\ RowSpecs' = SeatSpecs
                        /\ (\A p \in row.field : row.stacks[p] > 0)'
  <2>1. ChipSum(stacks) = TotalChips /\ \A p \in field : stacks[p] > 0
    BY <1>1, <1>2 DEF ChipsInv, ChipsConserved
  <2> QED BY <1>1, <2>1, RowCopiedNext
<1>6. CASE Sit
  BY <1>1, <1>3, <1>5, <1>6 DEF Sit, RowsAgree, GameAgrees, Idle
<1>7. CASE FinishedAlready
  <2>1. row = Session /\ RowEnded
    BY <1>2, <1>7, RowCopied DEF FinishedAlready, RowsAgree, Quiet
  <2> QED BY <1>1, <1>2, <1>3, <1>4, <1>7, <2>1 DEF FinishedAlready, RowsAgree, GameAgrees, Quiet
<1>8. CASE Conclude
  <2>1. RowsAgree'
    BY <1>1, <1>2, <1>4, <1>8 DEF Conclude, RowsAgree, Tearing, Quiet
  <2>2. GameAgrees'
    BY <1>1, <1>3, <1>8 DEF Conclude, GameAgrees
  <2> QED BY <1>3, <2>1, <2>2
<1>9. CASE SaveSession
  <2>1. at = "final" => Ended
    BY <1>2 DEF GameAgrees
  <2>2. RowsAgree'
    BY <1>1, <1>3, <1>5, <1>9, <2>1 DEF SaveSession, RowsAgree, Tearing
  <2>3. GameAgrees'
    BY <1>1, <1>2, <1>3, <1>9, <2>1 DEF SaveSession, GameAgrees, Idle
  <2> QED BY <1>3, <2>2, <2>3
<1>10. CASE SaveGame
  <2>1. row = Session /\ UNCHANGED row
    BY <1>2, <1>10 DEF SaveGame, RowsAgree, Quiet
  <2>2. (RowEnded <=> Ended) /\ RowSpecs = SeatSpecs
    BY <2>1, RowCopied
  <2>3. RowsAgree'
    BY <1>1, <1>2, <1>3, <1>4, <1>10, <2>1, <2>2 DEF SaveGame, RowsAgree, GameAgrees
  <2>4. GameAgrees'
    BY <1>1, <1>2, <1>3, <1>10 DEF SaveGame, GameAgrees, Idle
  <2> QED BY <1>3, <2>3, <2>4
<1>11. CASE EndWatch
  <2>1. Ended \/ (at = "none" /\ gameRow = NoGame)
    BY <1>2, <1>11 DEF EndWatch, WorkInv, Ended
  <2>2. RowsAgree'
    BY <1>1, <1>3, <1>5, <1>11, <2>1 DEF EndWatch, RowsAgree
  <2>3. GameAgrees'
    BY <1>1, <1>2, <1>3, <1>11, <2>1 DEF EndWatch, GameAgrees, game
  <2> QED BY <1>3, <2>2, <2>3
<1> QED BY <1>6, <1>7, <1>8, <1>9, <1>10, <1>11

LEMMA AgreeSame ==
  ASSUME AgreeInv, UNCHANGED lvars
  PROVE  AgreeInv' /\ (torn' = 0 => ChipsInv' /\ RowsAgree' /\ GameAgrees')
<1>1. UNCHANGED <<vars, row, gameRow, persona, at, live, watching, torn, stage, auto, tables, played>>
  BY DEF lvars, game, rows, vars
<1>2. /\ Session' = Session /\ SeatSpecs' = SeatSpecs /\ (Ended' <=> Ended)
      /\ HumanTable' = HumanTable /\ (ChipsInv' <=> ChipsInv)
      /\ \A g, i : GameOf(g, i)' <=> GameOf(g, i)
  BY <1>1, SessionKept
<1>3. /\ RowChips' = RowChips /\ (RowEnded' <=> RowEnded) /\ RowSpecs' = RowSpecs
      /\ (\A p \in row.field : row.stacks[p] > 0)' <=> \A p \in row.field : row.stacks[p] > 0
  BY <1>1, RowKept
<1>4. WorkInv' <=> WorkInv
  BY <1>1 DEF WorkInv
<1>5. RowsAgree => RowsAgree'
  BY <1>1, <1>2, <1>3 DEF RowsAgree, Idle, Tearing
<1>6. GameAgrees => GameAgrees'
  <2>1. \A i : HumansTable(i)' <=> HumansTable(i)
    BY <1>1 DEF HumansTable, HumanOut, vars
  <2>2. \A i : GameOf(live, i)' <=> GameOf(live, i)
    BY <1>1 DEF GameOf, vars
  <2>3. GameOf(live, HumanTable)' <=> GameOf(live, HumanTable)
    BY <1>1 DEF GameOf, HumanTable, vars
  <2> QED BY <1>1, <1>2, <2>1, <2>2, <2>3 DEF GameAgrees, Idle
<1> QED BY <1>1, <1>2, <1>4, <1>5, <1>6 DEF AgreeInv

\* A result of all of a game that has the chips of its table divides them.
LEMMA ReportFacts ==
  ASSUME LiveInv, NEW k \in DOMAIN tables, GameOf(live, k), NEW result \in Reported(k)
  PROVE  result \in HandResults(PlayersAt(tables[k]))
<1> DEFINE S == PlayersAt(tables[k])
<1>1. PICK K \in SUBSET DOMAIN live : result = Restrict(live, K) /\ S \cap DOMAIN live \subseteq K
  BY DEF Reported
<1>2. DOMAIN live = S /\ live \in [S -> Nat] /\ S \in SUBSET Players
  BY DEF GameOf, LiveInv, LiveTypeOK, IsGame
<1>3. result = live
  BY <1>1, <1>2 DEF Restrict
<1> DEFINE chips == SumFunction([p \in S |-> stacks[p]])
<1>4. SumFunctionOnSet(live, S) = chips /\ SumFunction(live) = chips
  BY <1>2 DEF GameOf, SumFunction
<1> HIDE DEF chips, S
<1>5. IsFiniteSet(S)
  BY <1>2, PlayersAssumption, FS_Subset
<1>6. chips \in Int
  BY <1>2, <1>4, <1>5, SumInt
<1>7. \A p \in S : live[p] <= chips
  BY <1>2, <1>4, <1>5, SumMember
<1>8. live \in [S -> 0..chips]
  BY <1>2, <1>6, <1>7
<1> QED BY <1>3, <1>4, <1>8 DEF HandResults, S, chips

\* The human's table after a hand of it, and after a hand of another.
LEMMA AgreeLiveHand ==
  ASSUME LiveInv, AgreeInv, torn = 0, NEW k \in DOMAIN tables, LiveHand(k),
         UNCHANGED <<persona, game, watching, rows, torn>>
  PROVE  ChipsInv' /\ GameAgrees'
<1> USE DEF LiveHand
<1>1. ChipsInv /\ GameAgrees /\ WorkInv /\ TypeOK /\ Seated(tables, field)
  BY DEF AgreeInv, LiveInv, SeatingInv
<1>2. Human \in field /\ ~auto /\ watching = "no"
  BY <1>1 DEF HumansTable, HumanOut, WorkInv, LiveInv, LiveTypeOK
<1>3. /\ DOMAIN tables' = DOMAIN tables
      /\ \A i \in DOMAIN tables : tables'[i].seats = tables[i].seats
  BY LiveHandSeating
<1>4. PICK result \in Reported(k) : stacks' = Folded(result)
  OBVIOUS
<1>5. result \in HandResults(PlayersAt(tables[k]))
  BY <1>1, <1>2, ReportFacts DEF GameAgrees
<1>6. ChipSum(stacks') = ChipSum(stacks)
  <2>1. PlayersAt(tables[k]) \subseteq field
    BY <1>1, <1>2, HumanSeat
  <2> QED BY <1>1, <1>4, <1>5, <2>1, FoldedFacts
<1>7. ChipsInv'
  BY <1>1, <1>6 DEF ChipsInv, ChipsConserved, ChipSum
<1>8. \A i \in DOMAIN tables : PlayersAt(tables'[i]) = PlayersAt(tables[i])
  BY <1>3 DEF PlayersAt, Occupied
<1>9. \A i \in DOMAIN tables : Human \in PlayersAt(tables[i]) => i = k
  BY <1>1, <1>2, HumanSeat DEF HumansTable
<1>10. \A i \in DOMAIN tables' : HumansTable(i)' => played'[i] = 1
  <2>1. k \in DOMAIN played /\ played'[k] = 1
    BY <1>1 DEF TypeOK
  <2> QED BY <1>3, <1>8, <1>9, <2>1 DEF HumansTable
<1>11. at' = "folding" /\ stage' = "hands"
  BY DEF game
<1>12. GameAgrees'
  BY <1>10, <1>11 DEF GameAgrees, Idle
<1> QED BY <1>7, <1>12

LEMMA AgreeFieldHand ==
  ASSUME LiveInv, AgreeInv, torn = 0, NEW k \in DOMAIN tables, FieldHand(k),
         UNCHANGED <<persona, game, watching, rows, torn>>
  PROVE  ChipsInv' /\ GameAgrees'
<1>1. /\ ChipsInv /\ GameAgrees /\ WorkInv /\ TypeOK /\ Seated(tables, field)
      /\ SeatingInv /\ PlayHand(k)
  BY DEF AgreeInv, LiveInv, SeatingInv, FieldHand
<1>2. ChipsInv'
  BY <1>1, PlayHandChips
<1>3. /\ DOMAIN tables' = DOMAIN tables
      /\ \A i \in DOMAIN tables : tables'[i].seats = tables[i].seats
  BY <1>1, PlayHandSeating
<1>4. \A i \in DOMAIN tables : PlayersAt(tables'[i]) = PlayersAt(tables[i])
  BY <1>3 DEF PlayersAt, Occupied
<1>5. stage = "hands" /\ UNCHANGED <<field, stage, auto, out>>
  BY <1>1 DEF PlayHand
<1>6. (Ended' <=> Ended) /\ UNCHANGED <<at, live, watching>>
  BY <1>5 DEF Ended, Complete, HumanOut, game
<1>7. ASSUME watching = "no", NEW i \in DOMAIN tables', HumansTable(i)', played'[i] = 0
      PROVE  GameOf(live, i)'
  <2>1. HumansTable(i) /\ ~HumanOut /\ i \in DOMAIN tables
    BY <1>3, <1>4, <1>5, <1>7 DEF HumansTable, HumanOut
  <2>2. i # k
    BY <1>7, <2>1 DEF FieldHand
  <2>3. played[i] = 0
    BY <1>1, <1>7, <2>1, <2>2 DEF PlayHand, TypeOK
  <2>4. GameOf(live, i)
    BY <1>1, <1>5, <1>7, <2>1, <2>3 DEF GameAgrees
  <2>5. PlayersAt(tables[i]) \cap PlayersAt(tables[k]) = {} /\ PlayersAt(tables[i]) \subseteq field
    BY <1>1, <2>1, <2>2, HumanSeat DEF HumanOut
  <2>6. \A p \in PlayersAt(tables[i]) : stacks'[p] = stacks[p]
    <3>1. PICK result \in HandResults(PlayersAt(tables[k])) : stacks' = Folded(result)
      BY <1>1 DEF PlayHand
    <3>2. DOMAIN result = PlayersAt(tables[k])
      BY <3>1 DEF HandResults
    <3>3. field \subseteq Players
      BY <1>1 DEF TypeOK
    <3> QED BY <2>5, <3>1, <3>2, <3>3 DEF Folded
  <2>7. [p \in PlayersAt(tables[i]) |-> stacks[p]]' = [p \in PlayersAt(tables[i]) |-> stacks[p]]
    BY <1>4, <2>1, <2>6
  <2> QED BY <1>4, <1>6, <2>1, <2>4, <2>7 DEF GameOf
<1>8. GameAgrees'
  BY <1>1, <1>5, <1>6, <1>7 DEF GameAgrees, Idle
<1> QED BY <1>2, <1>8

\* The rows, while a round runs and when one begins.
LEMMA AgreeRound ==
  ASSUME LiveInv, AgreeInv, torn = 0,
         BeginLiveRound \/ LiveRoundStep \/ WatchRound \/ Advance
  PROVE  ChipsInv' /\ RowsAgree' /\ GameAgrees'
<1>1. ChipsInv /\ RowsAgree /\ GameAgrees /\ WorkInv /\ SeatingInv /\ ~LiveAdvances
  BY DEF AgreeInv, LiveInv
<1>2. UNCHANGED <<row, gameRow, persona>>
  BY DEF BeginLiveRound, LiveRoundStep, WatchRound, Advance, rows
<1>3. /\ RowChips' = RowChips /\ (RowEnded' <=> RowEnded) /\ RowSpecs' = RowSpecs
      /\ (\A p \in row.field : row.stacks[p] > 0)'
  BY <1>1, <1>2, RowKept DEF RowsAgree
<1>4. ASSUME BeginRound, live' = live
      PROVE  /\ ChipsInv' /\ stage' = "hands"
             /\ (Ended' <=> Ended) /\ \A g, i : GameOf(g, i)' <=> GameOf(g, i)
  <2>1. ChipsInv'
    BY <1>1, <1>4, ChipsStep DEF Next
  <2>2. UNCHANGED <<field, stacks, tables>>
    BY <1>4 DEF BeginRound
  <2> QED BY <1>4, <2>1, <2>2 DEF BeginRound, Ended, Complete, HumanOut, GameOf
<1>5. CASE BeginLiveRound
  <2>1. /\ at = "over" /\ Idle /\ ~Ended /\ at' = "folding" /\ UNCHANGED <<watching, live>>
        /\ BeginRound
    BY <1>5 DEF BeginLiveRound, BeginRound, Ended, HumanOut, Idle
  <2>2. GameOf(live, HumanTable)
    BY <1>1, <2>1 DEF GameAgrees
  <2>3. \A i \in DOMAIN tables' : HumansTable(i)' => GameOf(live, i)'
    <3>1. TypeOK /\ Seated(tables, field) /\ Human \in field
      BY <1>1, <2>1 DEF SeatingInv, Ended, HumanOut
    <3>2. \A i \in DOMAIN tables : Human \in PlayersAt(tables[i]) => i = HumanTable
      BY <3>1, HumanSeat
    <3>3. UNCHANGED <<field, stacks, tables>>
      BY <2>1 DEF BeginRound
    <3> QED BY <2>1, <2>2, <3>2, <3>3 DEF HumansTable, GameOf
  <2>4. GameAgrees'
    BY <1>4, <2>1, <2>3 DEF GameAgrees, Idle
  <2>5. RowsAgree'
    BY <1>1, <1>2, <1>3, <1>4, <2>1 DEF RowsAgree, Idle, Tearing
  <2> QED BY <1>4, <2>1, <2>4, <2>5
<1>6. CASE WatchRound \/ Advance
  <2>1. BeginRound /\ UNCHANGED <<at, live>> /\ watching' # "no"
    BY <1>6 DEF WatchRound, Advance, game
  <2>2. GameAgrees'
    BY <1>1, <1>4, <2>1 DEF GameAgrees, Idle
  <2>3. RowsAgree'
    BY <1>1, <1>2, <1>3, <1>4, <2>1 DEF RowsAgree, Idle, Tearing
  <2> QED BY <1>4, <2>1, <2>2, <2>3
<1>7. CASE LiveRoundStep
  <2>1. /\ UNCHANGED <<at, live, watching>> /\ UNCHANGED <<persona, game, watching, rows, torn>>
        /\ stage # "between"
    BY <1>7 DEF LiveRoundStep, game, LiveHand, FieldHand, PlayHand, Settle, Rebalance,
                CloseTable, Reseat, Balance, EndRound
  <2>2. watching = "no" => at = "folding"
    BY <1>1, <2>1 DEF WorkInv
  <2>3. RowsAgree'
    <3>1. (Idle /\ at \in Quiet)' => FALSE
      BY <2>1, <2>2 DEF Idle, Quiet
    <3> QED BY <1>1, <1>2, <1>3, <2>1, <3>1 DEF RowsAgree, Tearing
  <2>4. CASE \E i \in DOMAIN tables : LiveHand(i)
    BY <2>1, <2>3, <2>4, AgreeLiveHand
  <2>5. CASE \E i \in DOMAIN tables : FieldHand(i)
    BY <2>1, <2>3, <2>5, AgreeFieldHand
  <2>6. CASE Settle \/ Rebalance
    <3>1. ChipsInv'
      BY <1>1, <2>6, ChipsStep DEF Next, RoundStep
    <3>2. field' \subseteq field
      BY <2>6, FieldShrinks DEF Next, RoundStep
    <3>3. Ended => Ended'
      BY <3>2, EndedStays
    <3>4. stage' # "hands"
      BY <2>6 DEF Settle, Rebalance, CloseTable, Reseat, Balance, EndRound
    <3>5. GameAgrees'
      BY <1>1, <2>1, <2>2, <3>3, <3>4 DEF GameAgrees, Idle
    <3> QED BY <2>3, <3>1, <3>5
  <2> QED BY <1>7, <2>4, <2>5, <2>6 DEF LiveRoundStep
<1> QED BY <1>5, <1>6, <1>7

\* A restart that finds both rows of one hand.
LEMMA AgreeRestart ==
  ASSUME LiveInv, AgreeInv, torn = 0, Restart, ~Tearing
  PROVE  ChipsInv' /\ RowsAgree' /\ GameAgrees'
<1> USE DEF Restart
<1>1. RowsAgree /\ RowInv
  BY DEF AgreeInv, LiveInv
<1>2. UNCHANGED <<row, gameRow, persona>>
  BY DEF rows
<1>3. /\ RowChips' = RowChips /\ (RowEnded' <=> RowEnded) /\ RowSpecs' = RowSpecs
      /\ (\A p \in row.field : row.stacks[p] > 0)'
  BY <1>1, <1>2, RowKept DEF RowsAgree
<1>4. row' = Session'
  BY <1>1, <1>2 DEF RowInv, Session
<1>5. ChipsInv'
  BY <1>1 DEF ChipsInv, ChipsConserved, ChipSum, RowChips, RowsAgree
<1>6. RowsAgree'
  BY <1>1, <1>2, <1>3, <1>4 DEF RowsAgree, Tearing
<1>7. GameAgrees'
  BY DEF GameAgrees
<1> QED BY <1>5, <1>6, <1>7

LEMMA AgreeStep == LiveInv /\ AgreeInv /\ [LiveNext]_lvars => AgreeInv'
<1> SUFFICES ASSUME LiveInv, AgreeInv, [LiveNext]_lvars PROVE AgreeInv'
  OBVIOUS
<1>1. CASE LiveNext
  <2>1. ~LiveAdvances /\ WorkInv'
    BY <1>1, WorkStep DEF AgreeInv
  <2>2. ASSUME torn' = 0 PROVE ChipsInv' /\ RowsAgree' /\ GameAgrees'
    <3>1. torn = 0 /\ (Restart => ~Tearing)
      BY <1>1, <2>2 DEF LiveNext, Boundary, Sit, ColdLoad, Resume, Evict, HandEnds, LiveRoundStep,
         RoundRaises, FinishedAlready, BeginLiveRound, Conclude, Finalize, SaveSession, SaveGame,
         BeginWatch, WatchRound, Advance, EndWatch, Restart, AtBound, lvars,
         LiveInv, LiveTypeOK
    <3>2. ~RoundRaises
      BY <3>1 DEF RoundRaises, AgreeInv, ChipsInv, ChipsConserved
    <3>3. CASE AtBound
      BY <2>2, <3>1, <3>3, AgreeSame DEF AtBound
    <3> QED BY <1>1, <3>1, <3>2, <3>3, AgreeIdle, AgreeSaves, AgreeRound, AgreeRestart
        DEF LiveNext, Boundary
  <2> QED BY <2>1, <2>2 DEF AgreeInv
<1>2. CASE UNCHANGED lvars
  BY <1>2, AgreeSame
<1> QED BY <1>1, <1>2

LEMMA AgreeStart == ~LiveAdvances /\ LiveInit => AgreeInv
<1> SUFFICES ASSUME ~LiveAdvances, LiveInit PROVE AgreeInv
  OBVIOUS
<1>1. ChipsInv
  BY InitChips DEF LiveInit
<1>2. /\ row = Session /\ at = "none" /\ stage = "between" /\ watching = "no"
      /\ gameRow = NoGame
  BY DEF LiveInit, Init
<1>3. RowChips = TotalChips /\ \A p \in row.field : row.stacks[p] > 0
  BY <1>1, <1>2, RowCopied DEF ChipsInv, ChipsConserved
<1>4. WorkInv /\ RowsAgree /\ GameAgrees
  BY <1>2, <1>3 DEF WorkInv, RowsAgree, GameAgrees
<1> QED BY <1>1, <1>4 DEF AgreeInv

\* The inductive invariant of the live game, the session and their rows.
THEOREM AgreeInvariant == ~LiveAdvances /\ LiveSpec => [](LiveInv /\ AgreeInv)
<1>1. ~LiveAdvances /\ LiveInit => LiveInv /\ AgreeInv
  BY LiveStart, AgreeStart
<1>2. LiveInv /\ AgreeInv /\ [LiveNext]_lvars => (LiveInv /\ AgreeInv)'
  BY LiveStep, AgreeStep
<1> QED BY <1>1, <1>2, PTL DEF LiveSpec

\* The hand that is played is the hand of the session's table, whatever has
\* happened to the field, the game and the server since it was dealt, as long as
\* nothing advances the field by a round under a live game.
THEOREM LiveAgreement == ~LiveAdvances /\ LiveSpec => []LiveAgrees
<1>1. LiveInv /\ AgreeInv => LiveAgrees
  <2> SUFFICES ASSUME LiveInv, AgreeInv, torn = 0, Idle, ~Ended
               PROVE  /\ at = "hand" => live = SeatSpecs
                      /\ at = "over" => /\ DOMAIN live = DOMAIN SeatSpecs
                                        /\ Chips(live) = Chips(SeatSpecs)
    BY DEF LiveAgrees
  <2>1. GameAgrees
    BY DEF AgreeInv
  <2>2. at = "hand" => live = SeatSpecs
    BY <2>1 DEF GameAgrees
  <2>3. at = "over" => GameOf(live, HumanTable)
    BY <2>1 DEF GameAgrees
  <2> QED BY <2>2, <2>3 DEF GameOf, SeatSpecs, Chips
<1> QED BY AgreeInvariant, <1>1, PTL

\* Whatever is on disk can be restored.
THEOREM LiveRestores == ~LiveAdvances /\ LiveSpec => []RowRestores
<1>1. AgreeInv => RowRestores
  BY DEF AgreeInv, RowsAgree, RowRestores
<1> QED BY AgreeInvariant, <1>1, PTL
=============================================================================
