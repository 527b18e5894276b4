---------------------------- MODULE SumTheorems ----------------------------
(***************************************************************************)
(* Facts about SumFunction of the community module Functions, by which the *)
(* specifications add up chips.  The sum is a fold over an arbitrary order *)
(* of the domain; the lemmas show that the order does not matter, and what *)
(* a sum becomes when the function changes.  Least and greatest members of *)
(* sets of naturals, by which the specifications choose, come first.       *)
(*                                                                         *)
(* Induction over finite sets is done with minimal counterexamples         *)
(* (MinimalSubset): the set of subsets for which a statement fails has no  *)
(* minimal member, so it is empty.                                         *)
(***************************************************************************)
EXTENDS Integers, Functions, FiniteSetsExt, FiniteSetTheorems, TLAPS

Pick(s) == CHOOSE x \in s : TRUE

\* g is the table of the sums of f over the subsets of D, as the fold builds it.
SumTable(g, f, D) ==
    g = [s \in SUBSET D |-> IF s = {} THEN 0 ELSE f[Pick(s)] + g[s \ {Pick(s)}]]

\* A non-empty family of subsets of a finite set has a minimal member.
LEMMA MinimalSubset ==
  ASSUME NEW S, IsFiniteSet(S), NEW T, T \subseteq SUBSET S, T # {}
  PROVE  \E x \in T : \A y \in T : y \subseteq x => y = x
<1>1. IsWellFoundedOn(StrictSubsetOrdering(S), SUBSET S)
  BY FS_StrictSubsetOrderingWellFounded, FS_FiniteSubsetsOfFinite
<1>2. \E x \in T : \A y \in T : ~ (<<y, x>> \in StrictSubsetOrdering(S))
  BY <1>1, WFMin
<1> QED BY <1>2 DEF StrictSubsetOrdering

\* A non-empty set of naturals has a least member.
LEMMA NatMin ==
  ASSUME NEW S \in SUBSET Nat, S # {}
  PROVE  Min(S) \in S /\ \A x \in S : Min(S) <= x
<1>1. PICK a \in S : TRUE
  OBVIOUS
<1> DEFINE I == 0..a
           T == {0..k : k \in {j \in S : j <= a}}
<1>2. T \subseteq SUBSET I /\ T # {}
  BY <1>1
<1>3. IsFiniteSet(I)
  BY FS_Interval
<1>4. PICK x \in T : \A y \in T : y \subseteq x => y = x
  <2> HIDE DEF T, I
  <2> QED BY ONLY <1>2, <1>3, MinimalSubset
<1>5. PICK k \in S : k <= a /\ x = 0..k
  BY <1>4 DEF T
<1>6. ASSUME NEW j \in S, j < k PROVE FALSE
  <2>1. 0..j \in T
    BY <1>1, <1>5, <1>6 DEF T
  <2>2. 0..j \subseteq x /\ k \in x /\ k \notin 0..j
    BY <1>5, <1>6
  <2> QED BY <1>4, <2>1, <2>2
<1>7. \A j \in S : k <= j
  BY <1>6
<1> QED BY <1>7 DEF Min

\* A non-empty finite set of naturals has a greatest member.
LEMMA NatMax ==
  ASSUME NEW S, S \in SUBSET Nat, IsFiniteSet(S), S # {}
  PROVE  Max(S) \in S /\ \A x \in S : Max(S) >= x
<1> DEFINE Good(s) == \E m \in s : \A y \in s : m >= y
           Bad == {s \in SUBSET S : s # {} /\ ~Good(s)}
<1>1. Bad = {}
  <2>1. SUFFICES ASSUME Bad # {} PROVE FALSE
    OBVIOUS
  <2>2. PICK s \in Bad : \A y \in Bad : y \subseteq s => y = s
    <3>1. Bad \subseteq SUBSET S
      OBVIOUS
    <3> HIDE DEF Bad
    <3> QED BY ONLY IsFiniteSet(S), <2>1, <3>1, MinimalSubset
  <2>3. PICK x \in s : TRUE
    BY <2>2
  <2>4. CASE s = {x}
    <3>1. Good(s)
      BY <2>4, <2>2
    <3> QED BY <2>2, <3>1
  <2>5. CASE s # {x}
    <3>1. s \ {x} \in SUBSET S /\ s \ {x} # {} /\ s \ {x} \subseteq s /\ s \ {x} # s
      BY <2>2, <2>3, <2>5
    <3>2. s \ {x} \notin Bad
      BY <2>2, <3>1
    <3>3. PICK m \in s \ {x} : \A y \in s \ {x} : m >= y
      BY <3>1, <3>2
    <3>4. \A y \in s : m >= y \/ x >= y
      BY <2>2, <2>3, <3>3
    <3>5. (m >= x /\ \A y \in s : m >= y) \/ (x >= m /\ \A y \in s : x >= y)
      <4>1. s \subseteq Nat /\ m \in Nat /\ x \in Nat
        BY <2>2, <2>3, <3>3
      <4> QED BY <3>3, <4>1
    <3>6. Good(s)
      BY <2>3, <3>3, <3>5
    <3> QED BY <2>2, <3>6
  <2> QED BY <2>4, <2>5
<1>2. Good(S)
  BY <1>1
<1> QED BY <1>2 DEF Max

\* The fold is the entry of a table for the whole set.
LEMMA SumIsTableEntry ==
  ASSUME NEW f, NEW D
  PROVE  SumFunctionOnSet(f, D) = (CHOOSE g : SumTable(g, f, D))[D]
BY DEF SumFunctionOnSet, FoldFunctionOnSet, MapThenFoldSet, SumTable, Pick

\* Two tables agree wherever both are defined.
LEMMA SumTableUnique ==
  ASSUME NEW f, NEW A, NEW B, IsFiniteSet(A),
         NEW g, SumTable(g, f, A), NEW h, SumTable(h, f, B)
  PROVE  \A s \in SUBSET (A \cap B) : g[s] = h[s]
<1> DEFINE Bad == {s \in SUBSET (A \cap B) : g[s] # h[s]}
<1>1. SUFFICES ASSUME Bad # {} PROVE FALSE
  OBVIOUS
<1>2. PICK s \in Bad : \A y \in Bad : y \subseteq s => y = s
  <2>1. Bad \subseteq SUBSET A
    OBVIOUS
  <2> HIDE DEF Bad
  <2> QED BY <1>1, <2>1, MinimalSubset
<1>3. g[s] = IF s = {} THEN 0 ELSE f[Pick(s)] + g[s \ {Pick(s)}]
  BY <1>2 DEF SumTable
<1>4. h[s] = IF s = {} THEN 0 ELSE f[Pick(s)] + h[s \ {Pick(s)}]
  BY <1>2 DEF SumTable
<1>5. s # {}
  BY <1>2, <1>3, <1>4
<1>6. Pick(s) \in s
  BY <1>5 DEF Pick
<1>7. s \ {Pick(s)} \notin Bad
  BY <1>2, <1>6
<1>8. g[s \ {Pick(s)}] = h[s \ {Pick(s)}]
  BY <1>2, <1>7
<1> QED BY <1>2, <1>3, <1>4, <1>5, <1>8

\* There is a table for every finite set.
LEMMA SumTableExists ==
  ASSUME NEW f, NEW D, IsFiniteSet(D)
  PROVE  \E g : SumTable(g, f, D)
<1> DEFINE Bad == {s \in SUBSET D : ~ \E g : SumTable(g, f, s)}
           W(u) == CHOOSE g : SumTable(g, f, u)
<1>1. SUFFICES ASSUME Bad # {} PROVE FALSE
  OBVIOUS
<1>2. PICK s \in Bad : \A y \in Bad : y \subseteq s => y = s
  <2>1. Bad \subseteq SUBSET D
    OBVIOUS
  <2> HIDE DEF Bad
  <2> QED BY <1>1, <2>1, MinimalSubset
<1>3. ASSUME NEW u \in SUBSET s, u # s PROVE SumTable(W(u), f, u) /\ IsFiniteSet(u)
  <2>1. u \notin Bad
    BY <1>2, <1>3
  <2>2. \E g : SumTable(g, f, u)
    BY <1>2, <1>3, <2>1
  <2>3. IsFiniteSet(u)
    BY <1>2, <1>3, FS_Subset
  <2> QED BY <2>2, <2>3
<1> DEFINE V(u) == W(u)[u]
           g == [u \in SUBSET s |->
                   IF u # s THEN V(u)
                   ELSE IF s = {} THEN 0 ELSE f[Pick(s)] + V(s \ {Pick(s)})]
<1>4. ASSUME NEW u \in SUBSET s, u # {}
      PROVE  Pick(u) \in u /\ u \ {Pick(u)} \in SUBSET s /\ u \ {Pick(u)} # s
  BY <1>4 DEF Pick
<1>5. ASSUME NEW u \in SUBSET s, u # s, u # {}
      PROVE  V(u) = f[Pick(u)] + V(u \ {Pick(u)})
  <2> DEFINE v == u \ {Pick(u)}
  <2>1. SumTable(W(u), f, u) /\ IsFiniteSet(u)
    BY <1>3, <1>5
  <2>2. v \in SUBSET s /\ v # s
    BY <1>4, <1>5
  <2>3. SumTable(W(v), f, v)
    BY <1>3, <2>2
  <2> HIDE DEF W
  <2>4. W(u)[u] = f[Pick(u)] + W(u)[v]
    BY <2>1, <1>5 DEF SumTable
  <2>5. v \in SUBSET (u \cap v)
    OBVIOUS
  <2> HIDE DEF v
  <2>6. \A t \in SUBSET (u \cap v) : W(u)[t] = W(v)[t]
    BY <2>1, <2>3, SumTableUnique
  <2>7. W(u)[v] = W(v)[v]
    BY <2>5, <2>6
  <2> QED BY <2>4, <2>7 DEF v
<1>6. ASSUME NEW u \in SUBSET s
      PROVE  g[u] = IF u = {} THEN 0 ELSE f[Pick(u)] + g[u \ {Pick(u)}]
  <2>1. CASE u = {} /\ u # s
    <3>1. SumTable(W(u), f, u)
      BY <1>3, <2>1
    <3> HIDE DEF W
    <3>2. W(u)[u] = 0
      BY <3>1, <2>1 DEF SumTable
    <3> QED BY <3>2, <2>1
  <2>2. CASE u = {} /\ u = s
    BY <2>2
  <2>3. CASE u # {}
    <3> HIDE DEF V
    <3>1. g[u \ {Pick(u)}] = V(u \ {Pick(u)})
      BY <1>4, <2>3
    <3>2. g[u] = f[Pick(u)] + V(u \ {Pick(u)})
      BY <1>4, <1>5, <2>3
    <3> QED BY <3>1, <3>2, <2>3
  <2> QED BY <2>1, <2>2, <2>3
<1>7. g = [u \in SUBSET s |-> IF u = {} THEN 0 ELSE f[Pick(u)] + g[u \ {Pick(u)}]]
  <2>1. g = [u \in SUBSET s |-> g[u]]
    OBVIOUS
  <2> HIDE DEF g
  <2>2. [u \in SUBSET s |-> g[u]]
         = [u \in SUBSET s |-> IF u = {} THEN 0 ELSE f[Pick(u)] + g[u \ {Pick(u)}]]
    BY <1>6
  <2> QED BY <2>1, <2>2
<1>8. SumTable(g, f, s)
  BY <1>7 DEF SumTable
<1> QED BY <1>2, <1>8

\* The sum over nothing is 0, and the sum over a set is the value at the
\* element picked first plus the sum over the rest.
LEMMA SumUnfold ==
  ASSUME NEW f, NEW s, IsFiniteSet(s)
  PROVE  /\ s = {} => SumFunctionOnSet(f, s) = 0
         /\ s # {} => SumFunctionOnSet(f, s) =
                         f[Pick(s)] + SumFunctionOnSet(f, s \ {Pick(s)})
<1> DEFINE g == CHOOSE h : SumTable(h, f, s)
           r == s \ {Pick(s)}
           k == CHOOSE h : SumTable(h, f, r)
<1>1. SumTable(g, f, s)
  BY SumTableExists
<1>2. IsFiniteSet(r)
  BY FS_RemoveElement
<1>3. SumTable(k, f, r)
  BY <1>2, SumTableExists
<1>4. SumFunctionOnSet(f, s) = g[s] /\ SumFunctionOnSet(f, r) = k[r]
  BY SumIsTableEntry
<1> HIDE DEF g, k
<1>5. g[s] = IF s = {} THEN 0 ELSE f[Pick(s)] + g[r]
  BY <1>1 DEF SumTable
<1>6. r \in SUBSET (s \cap r)
  OBVIOUS
<1> HIDE DEF r
<1>7. \A t \in SUBSET (s \cap r) : g[t] = k[t]
  BY <1>1, <1>3, SumTableUnique
<1>8. g[r] = k[r]
  BY <1>6, <1>7
<1> QED BY <1>4, <1>5, <1>8 DEF r

\* A sum of integers is an integer.
LEMMA SumInt ==
  ASSUME NEW S, IsFiniteSet(S), NEW f, \A x \in S : f[x] \in Int
  PROVE  SumFunctionOnSet(f, S) \in Int
<1> DEFINE Bad == {s \in SUBSET S : SumFunctionOnSet(f, s) \notin Int}
<1>1. SUFFICES ASSUME Bad # {} PROVE FALSE
  OBVIOUS
<1>2. PICK s \in Bad : \A y \in Bad : y \subseteq s => y = s
  <2>1. Bad \subseteq SUBSET S
    OBVIOUS
  <2> HIDE DEF Bad
  <2> QED BY <1>1, <2>1, MinimalSubset
<1>3. IsFiniteSet(s)
  BY <1>2, FS_Subset
<1>4. s # {}
  <2>1. SumFunctionOnSet(f, {}) = 0
    BY FS_EmptySet, SumUnfold
  <2>2. SumFunctionOnSet(f, {}) \in Int
    BY <2>1
  <2> QED BY <1>2, <2>2
<1>5. Pick(s) \in s
  BY <1>4 DEF Pick
<1>6. s \ {Pick(s)} \notin Bad
  BY <1>2, <1>5
<1>7. SumFunctionOnSet(f, s \ {Pick(s)}) \in Int
  BY <1>2, <1>6
<1>8. f[Pick(s)] \in Int
  BY <1>2, <1>5
<1>9. SumFunctionOnSet(f, s) = f[Pick(s)] + SumFunctionOnSet(f, s \ {Pick(s)})
  BY <1>3, <1>4, SumUnfold
<1> QED BY <1>2, <1>7, <1>8, <1>9

\* Any element can be taken out first.
LEMMA SumRemove ==
  ASSUME NEW S, IsFiniteSet(S), NEW f, \A x \in S : f[x] \in Int, NEW a \in S
  PROVE  SumFunctionOnSet(f, S) = f[a] + SumFunctionOnSet(f, S \ {a})
<1> DEFINE Good(s) == \A x \in s : SumFunctionOnSet(f, s) = f[x] + SumFunctionOnSet(f, s \ {x})
           Bad == {s \in SUBSET S : ~Good(s)}
<1>1. SUFFICES ASSUME Bad # {} PROVE FALSE
  OBVIOUS
<1>2. PICK s \in Bad : \A y \in Bad : y \subseteq s => y = s
  <2>1. Bad \subseteq SUBSET S
    OBVIOUS
  <2> HIDE DEF Bad
  <2> QED BY <1>1, <2>1, MinimalSubset
<1>3. \A t \in SUBSET S : IsFiniteSet(t) /\ SumFunctionOnSet(f, t) \in Int
  BY FS_Subset, SumInt
<1>4. PICK x \in s : SumFunctionOnSet(f, s) # f[x] + SumFunctionOnSet(f, s \ {x})
  BY <1>2
<1> DEFINE p == Pick(s)
<1>5. p \in s
  BY <1>4 DEF Pick
<1>6. SumFunctionOnSet(f, s) = f[p] + SumFunctionOnSet(f, s \ {p})
  BY <1>2, <1>3, <1>4, SumUnfold
<1>7. p # x
  BY <1>4, <1>6
<1> HIDE DEF p
<1>8. Good(s \ {p}) /\ Good(s \ {x})
  BY <1>2, <1>4, <1>5
<1>9. SumFunctionOnSet(f, s \ {p}) = f[x] + SumFunctionOnSet(f, (s \ {p}) \ {x})
  BY <1>4, <1>7, <1>8
<1>10. SumFunctionOnSet(f, s \ {x}) = f[p] + SumFunctionOnSet(f, (s \ {x}) \ {p})
  BY <1>5, <1>7, <1>8
<1>11. (s \ {p}) \ {x} = (s \ {x}) \ {p}
  OBVIOUS
<1>12. /\ f[x] \in Int /\ f[p] \in Int
       /\ SumFunctionOnSet(f, (s \ {p}) \ {x}) \in Int
  <2>1. (s \ {p}) \ {x} \in SUBSET S
    BY <1>2
  <2> QED BY <1>2, <1>3, <1>4, <1>5, <2>1
<1>13. \A fx, fp, c \in Int : fp + (fx + c) = fx + (fp + c)
  OBVIOUS
<1>14. f[p] + (f[x] + SumFunctionOnSet(f, (s \ {p}) \ {x}))
         = f[x] + (f[p] + SumFunctionOnSet(f, (s \ {p}) \ {x}))
  BY <1>12, <1>13
<1> QED BY <1>4, <1>6, <1>9, <1>10, <1>11, <1>14

\* A sum of naturals is a natural.
LEMMA SumNat ==
  ASSUME NEW S, IsFiniteSet(S), NEW f, \A x \in S : f[x] \in Nat
  PROVE  SumFunctionOnSet(f, S) \in Nat
<1> DEFINE Bad == {s \in SUBSET S : SumFunctionOnSet(f, s) \notin Nat}
<1>1. SUFFICES ASSUME Bad # {} PROVE FALSE
  OBVIOUS
<1>2. PICK s \in Bad : \A y \in Bad : y \subseteq s => y = s
  <2>1. Bad \subseteq SUBSET S
    OBVIOUS
  <2> HIDE DEF Bad
  <2> QED BY <1>1, <2>1, MinimalSubset
<1>3. IsFiniteSet(s)
  BY <1>2, FS_Subset
<1>4. s # {}
  <2>1. SumFunctionOnSet(f, {}) = 0
    BY FS_EmptySet, SumUnfold
  <2>2. SumFunctionOnSet(f, {}) \in Nat
    BY <2>1
  <2> QED BY <1>2, <2>2
<1>5. PICK x \in s : TRUE
  BY <1>4
<1>6. s \ {x} \notin Bad
  BY <1>2, <1>5
<1>7. SumFunctionOnSet(f, s \ {x}) \in Nat
  BY <1>2, <1>6
<1>8. f[x] \in Nat
  BY <1>2, <1>5
<1>9. SumFunctionOnSet(f, s) = f[x] + SumFunctionOnSet(f, s \ {x})
  <2>1. \A y \in s : f[y] \in Int
    BY <1>2
  <2> QED BY <1>3, <1>5, <2>1, SumRemove
<1> QED BY <1>2, <1>7, <1>8, <1>9

\* The sum of a pointwise sum is the sum of the sums.
LEMMA SumAdd ==
  ASSUME NEW S, IsFiniteSet(S), NEW f, NEW g, NEW h,
         \A x \in S : f[x] \in Int /\ g[x] \in Int /\ h[x] = f[x] + g[x]
  PROVE  SumFunctionOnSet(h, S) = SumFunctionOnSet(f, S) + SumFunctionOnSet(g, S)
<1> DEFINE Good(s) == SumFunctionOnSet(h, s) = SumFunctionOnSet(f, s) + SumFunctionOnSet(g, s)
           Bad == {s \in SUBSET S : ~Good(s)}
<1>1. SUFFICES ASSUME Bad # {} PROVE FALSE
  OBVIOUS
<1>2. PICK s \in Bad : \A y \in Bad : y \subseteq s => y = s
  <2>1. Bad \subseteq SUBSET S
    OBVIOUS
  <2> HIDE DEF Bad
  <2> QED BY <1>1, <2>1, MinimalSubset
<1>3. IsFiniteSet(s)
  BY <1>2, FS_Subset
<1>4. s # {}
  <2>1. /\ SumFunctionOnSet(f, {}) = 0 /\ SumFunctionOnSet(g, {}) = 0
        /\ SumFunctionOnSet(h, {}) = 0
    BY FS_EmptySet, SumUnfold
  <2>2. Good({})
    BY <2>1
  <2> QED BY <1>2, <2>2
<1>5. PICK x \in s : TRUE
  BY <1>4
<1> DEFINE r == s \ {x}
<1>6. Good(r) /\ IsFiniteSet(r) /\ r \in SUBSET S
  BY <1>2, <1>3, <1>5, FS_RemoveElement
<1>7. \A y \in s : f[y] \in Int /\ g[y] \in Int /\ h[y] \in Int
  BY <1>2
<1>8. /\ SumFunctionOnSet(f, s) = f[x] + SumFunctionOnSet(f, r)
      /\ SumFunctionOnSet(g, s) = g[x] + SumFunctionOnSet(g, r)
      /\ SumFunctionOnSet(h, s) = h[x] + SumFunctionOnSet(h, r)
  BY <1>3, <1>5, <1>7, SumRemove
<1>9. SumFunctionOnSet(f, r) \in Int /\ SumFunctionOnSet(g, r) \in Int
  BY <1>6, <1>7, SumInt
<1>10. h[x] = f[x] + g[x] /\ f[x] \in Int /\ g[x] \in Int
  BY <1>2, <1>5
<1>11. \A a, b, c, d \in Int : (a + b) + (c + d) = (a + c) + (b + d)
  OBVIOUS
<1>12. (f[x] + g[x]) + (SumFunctionOnSet(f, r) + SumFunctionOnSet(g, r))
        = (f[x] + SumFunctionOnSet(f, r)) + (g[x] + SumFunctionOnSet(g, r))
  BY <1>9, <1>10, <1>11
<1>13. Good(s)
  BY <1>6, <1>8, <1>10, <1>12
<1> QED BY <1>2, <1>13

\* Functions that agree on a set have the same sum over it.
LEMMA SumCong ==
  ASSUME NEW S, IsFiniteSet(S), NEW f, NEW g,
         \A x \in S : f[x] \in Int /\ g[x] = f[x]
  PROVE  SumFunctionOnSet(g, S) = SumFunctionOnSet(f, S)
<1> DEFINE z == [x \in S |-> 0]
<1>1. \A x \in S : f[x] \in Int /\ z[x] \in Int /\ z[x] = z[x] + z[x] /\ g[x] = f[x] + z[x]
  OBVIOUS
<1>2. SumFunctionOnSet(z, S) \in Int /\ SumFunctionOnSet(f, S) \in Int
  BY <1>1, SumInt
<1> HIDE DEF z
<1>3. SumFunctionOnSet(z, S) = SumFunctionOnSet(z, S) + SumFunctionOnSet(z, S)
  BY <1>1, SumAdd
<1>4. SumFunctionOnSet(g, S) = SumFunctionOnSet(f, S) + SumFunctionOnSet(z, S)
  BY <1>1, SumAdd
<1>5. SumFunctionOnSet(z, S) = 0
  <2>1. \A a \in Int : a = a + a => a = 0
    OBVIOUS
  <2> QED BY <1>2, <1>3, <2>1
<1>6. SumFunctionOnSet(f, S) + 0 = SumFunctionOnSet(f, S)
  BY <1>2
<1> QED BY <1>4, <1>5, <1>6

\* Smaller values have a smaller sum.
LEMMA SumLe ==
  ASSUME NEW S, IsFiniteSet(S), NEW f, NEW g,
         \A x \in S : f[x] \in Int /\ g[x] \in Int /\ f[x] <= g[x]
  PROVE  SumFunctionOnSet(f, S) <= SumFunctionOnSet(g, S)
<1> DEFINE d == [x \in S |-> g[x] - f[x]]
<1>1. \A x \in S : f[x] \in Int /\ d[x] \in Int /\ g[x] = f[x] + d[x] /\ d[x] \in Nat
  OBVIOUS
<1> HIDE DEF d
<1>2. SumFunctionOnSet(d, S) \in Nat
  BY <1>1, SumNat
<1>3. SumFunctionOnSet(f, S) \in Int
  BY SumInt
<1>4. SumFunctionOnSet(g, S) = SumFunctionOnSet(f, S) + SumFunctionOnSet(d, S)
  BY <1>1, SumAdd
<1>5. \A a \in Int, b \in Nat : a <= a + b
  OBVIOUS
<1> QED BY <1>2, <1>3, <1>4, <1>5

\* A function that is nowhere but at a changed value changes the sum by the
\* difference there.
LEMMA SumChange ==
  ASSUME NEW S, IsFiniteSet(S), NEW f, NEW g, NEW a \in S,
         \A x \in S : f[x] \in Int /\ g[x] \in Int,
         \A x \in S \ {a} : g[x] = f[x]
  PROVE  SumFunctionOnSet(g, S) = SumFunctionOnSet(f, S) + (g[a] - f[a])
<1> DEFINE r == S \ {a}
<1>1. IsFiniteSet(r)
  BY FS_RemoveElement
<1>2. SumFunctionOnSet(g, r) = SumFunctionOnSet(f, r)
  BY <1>1, SumCong
<1>3. SumFunctionOnSet(f, r) \in Int
  BY <1>1, SumInt
<1>4. /\ SumFunctionOnSet(f, S) = f[a] + SumFunctionOnSet(f, r)
      /\ SumFunctionOnSet(g, S) = g[a] + SumFunctionOnSet(g, r)
  BY SumRemove
<1>5. \A u, v, w \in Int : u + w = (v + w) + (u - v)
  OBVIOUS
<1> QED BY <1>2, <1>3, <1>4, <1>5

\* The sum of a constant over a set counts its elements.
LEMMA SumConst ==
  ASSUME NEW S, IsFiniteSet(S), NEW f, NEW c \in Int, \A x \in S : f[x] = c
  PROVE  SumFunctionOnSet(f, S) = c * Cardinality(S)
<1> DEFINE Good(s) == SumFunctionOnSet(f, s) = c * Cardinality(s)
           Bad == {s \in SUBSET S : ~Good(s)}
<1>1. SUFFICES ASSUME Bad # {} PROVE FALSE
  OBVIOUS
<1>2. PICK s \in Bad : \A y \in Bad : y \subseteq s => y = s
  <2>1. Bad \subseteq SUBSET S
    OBVIOUS
  <2> HIDE DEF Bad
  <2> QED BY <1>1, <2>1, MinimalSubset
<1>3. IsFiniteSet(s)
  BY <1>2, FS_Subset
<1>4. s # {}
  <2>1. SumFunctionOnSet(f, {}) = 0 /\ Cardinality({}) = 0
    BY FS_EmptySet, SumUnfold
  <2>2. c * 0 = 0
    OBVIOUS
  <2>3. Good({})
    BY <2>1, <2>2
  <2> QED BY <1>2, <2>3
<1>5. PICK x \in s : TRUE
  BY <1>4
<1> DEFINE r == s \ {x}
<1>6. Good(r) /\ IsFiniteSet(r)
  BY <1>2, <1>3, <1>5, FS_RemoveElement
<1>7. \A y \in s : f[y] = c /\ f[y] \in Int
  BY <1>2
<1>8. SumFunctionOnSet(f, s) = c + SumFunctionOnSet(f, r)
  BY <1>3, <1>5, <1>7, SumRemove
<1>9. Cardinality(s) \in Nat /\ Cardinality(r) = Cardinality(s) - 1
  BY <1>3, <1>5, FS_RemoveElement, FS_CardinalityType
<1>10. \A n \in Nat : c + c * (n - 1) = c * n
  <2>1. \A n \in Nat : c * (n - 1) = c * n - c
    OBVIOUS
  <2> QED BY <2>1
<1>11. c + c * Cardinality(r) = c * Cardinality(s)
  BY <1>9, <1>10
<1>12. Good(s)
  BY <1>6, <1>8, <1>11
<1> QED BY <1>2, <1>12

\* A sum over S of a function that is 0 outside W is the sum over W.
LEMMA SumSupport ==
  ASSUME NEW S, IsFiniteSet(S), NEW f, \A x \in S : f[x] \in Int,
         NEW W \in SUBSET S, \A x \in S \ W : f[x] = 0
  PROVE  SumFunctionOnSet(f, S) = SumFunctionOnSet(f, W)
<1> DEFINE Good(t) == SumFunctionOnSet(f, W \cup t) = SumFunctionOnSet(f, W)
           Bad == {t \in SUBSET (S \ W) : ~Good(t)}
<1>1. Bad = {}
  <2>1. SUFFICES ASSUME Bad # {} PROVE FALSE
    OBVIOUS
  <2>2. IsFiniteSet(S \ W)
    BY FS_Difference
  <2>3. PICK t \in Bad : \A y \in Bad : y \subseteq t => y = t
    <3>1. Bad \subseteq SUBSET (S \ W)
      OBVIOUS
    <3> HIDE DEF Bad
    <3> QED BY <2>1, <2>2, <3>1, MinimalSubset
  <2>4. t # {}
    <3>1. W \cup {} = W
      OBVIOUS
    <3> QED BY <2>3, <3>1
  <2>5. PICK x \in t : TRUE
    BY <2>4
  <2>6. Good(t \ {x})
    <3>1. t \ {x} \in SUBSET (S \ W) /\ t \ {x} \subseteq t /\ t \ {x} # t
      BY <2>3, <2>5
    <3> HIDE DEF Good
    <3>2. t \ {x} \notin Bad
      BY <2>3, <3>1
    <3> QED BY <3>1, <3>2
  <2>7. /\ IsFiniteSet(W \cup t) /\ x \in W \cup t
        /\ \A y \in W \cup t : f[y] \in Int
    <3>1. W \cup t \in SUBSET S
      BY <2>3
    <3> QED BY <2>3, <2>5, <3>1, FS_Subset
  <2>8. SumFunctionOnSet(f, W \cup t) = f[x] + SumFunctionOnSet(f, (W \cup t) \ {x})
    BY <2>7, SumRemove
  <2>9. (W \cup t) \ {x} = W \cup (t \ {x}) /\ f[x] = 0
    BY <2>3, <2>5
  <2>10. SumFunctionOnSet(f, W) \in Int
    BY FS_Subset, SumInt
  <2>11. 0 + SumFunctionOnSet(f, W) = SumFunctionOnSet(f, W)
    BY <2>10
  <2>12. Good(t)
    BY <2>6, <2>8, <2>9, <2>11
  <2> QED BY <2>3, <2>12
<1>2. Good(S \ W)
  BY <1>1
<1>3. W \cup (S \ W) = S
  OBVIOUS
<1> QED BY <1>2, <1>3

\* One value is at most the sum of naturals it is part of.
LEMMA SumMember ==
  ASSUME NEW S, IsFiniteSet(S), NEW f, \A x \in S : f[x] \in Nat, NEW a \in S
  PROVE  f[a] <= SumFunctionOnSet(f, S)
<1>1. IsFiniteSet(S \ {a})
  BY FS_RemoveElement
<1>2. SumFunctionOnSet(f, S \ {a}) \in Nat
  BY <1>1, SumNat
<1>3. SumFunctionOnSet(f, S) = f[a] + SumFunctionOnSet(f, S \ {a})
  BY SumRemove
<1>4. \A u, v \in Nat : u <= u + v
  OBVIOUS
<1> QED BY <1>2, <1>3, <1>4

\* A factor comes out of a sum.
LEMMA SumScale ==
  ASSUME NEW S, IsFiniteSet(S), NEW c \in Int, NEW f, NEW g,
         \A x \in S : f[x] \in Int /\ g[x] = c * f[x]
  PROVE  SumFunctionOnSet(g, S) = c * SumFunctionOnSet(f, S)
<1> DEFINE Good(s) == SumFunctionOnSet(g, s) = c * SumFunctionOnSet(f, s)
           Bad == {s \in SUBSET S : ~Good(s)}
<1>1. SUFFICES ASSUME Bad # {} PROVE FALSE
  OBVIOUS
<1>2. PICK s \in Bad : \A y \in Bad : y \subseteq s => y = s
  <2>1. Bad \subseteq SUBSET S
    OBVIOUS
  <2> HIDE DEF Bad
  <2> QED BY <1>1, <2>1, MinimalSubset
<1>3. IsFiniteSet(s)
  BY <1>2, FS_Subset
<1>4. s # {}
  <2>1. SumFunctionOnSet(f, {}) = 0 /\ SumFunctionOnSet(g, {}) = 0
    BY FS_EmptySet, SumUnfold
  <2>2. c * 0 = 0
    OBVIOUS
  <2>3. Good({})
    BY <2>1, <2>2
  <2> QED BY <1>2, <2>3
<1>5. PICK x \in s : TRUE
  BY <1>4
<1> DEFINE r == s \ {x}
<1>6. Good(r) /\ IsFiniteSet(r)
  BY <1>2, <1>3, <1>5, FS_RemoveElement
<1>7. \A y \in s : f[y] \in Int /\ g[y] \in Int /\ g[y] = c * f[y]
  BY <1>2
<1>8. /\ SumFunctionOnSet(f, s) = f[x] + SumFunctionOnSet(f, r)
      /\ SumFunctionOnSet(g, s) = g[x] + SumFunctionOnSet(g, r)
  BY <1>3, <1>5, <1>7, SumRemove
<1>9. SumFunctionOnSet(f, r) \in Int
  BY <1>6, <1>7, SumInt
<1>10. \A a, b \in Int : c * a + c * b = c * (a + b)
  OBVIOUS
<1>11. Good(s)
  BY <1>5, <1>6, <1>7, <1>8, <1>9, <1>10
<1> QED BY <1>2, <1>11

=============================================================================
