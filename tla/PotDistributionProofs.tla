----------------------- MODULE PotDistributionProofs -----------------------
(***************************************************************************)
(* The division of the pot for any number of players, any contributions    *)
(* and any ranking of the hands: the types, that no chip is made or lost   *)
(* in any pass of the loop, and that each player is paid what the layers   *)
(* of the pot give him.                                                    *)
(***************************************************************************)
EXTENDS PotDistribution, SidePotTheorems

\* The invariant: types, no chip astray, an input somebody can win, and an empty
\* pot once the sweep is done.
PotInv ==
    /\ TypeOK
    /\ ChipsConserved
    /\ \E p \in Live : bet[p] > 0
    /\ pc = "done" => \A p \in Players : t.rem[p] = 0

\* The seats to the left of the dealer are counted once each.
LEMMA DistType ==
  /\ dist \in [Players -> Nat]
  /\ \A p, q \in Players : dist[p] = dist[q] => p = q
<1>1. Cardinality(Players) \in Nat
  BY PlayersFinite, FS_CardinalityType
<1> QED BY <1>1, DistAssumption

\* Every call starts in the invariant.
LEMMA PotInit == Init => PotInv
<1> SUFFICES ASSUME Init PROVE PotInv
  OBVIOUS
<1>1. bet \in [Players -> Nat] /\ rank \in [Players -> Nat] /\ folded \in SUBSET Players
  <2>1. Cardinality(Players) \in Nat /\ MaxBet \in Nat
    BY PlayersFinite, FS_CardinalityType, MaxBetAssumption
  <2> QED BY <2>1 DEF Init
<1>2. t = LoopStart(bet) /\ pc = "loop" /\ \E p \in Live : bet[p] > 0
  BY DEF Init, Live
<1>3. t \in LoopState /\ Chips(t) = SumFunction(bet)
  BY <1>1, <1>2, LoopStartType
<1> QED BY <1>1, <1>2, <1>3 DEF PotInv, TypeOK, ChipsConserved

\* Every step of the loop keeps it.
LEMMA PotNext == PotInv /\ [Next]_vars => PotInv'
<1> SUFFICES ASSUME PotInv, [Next]_vars PROVE PotInv'
  OBVIOUS
<1> USE DEF PotInv, TypeOK, ChipsConserved, Live
<1>1. CASE ContestTier
  <2>1. Eligible(t, folded) # {} /\ UNCHANGED <<bet, folded, rank, pc>>
    BY <1>1 DEF ContestTier, LoopDone
  <2>2. t' \in LoopState /\ Chips(t') = Chips(t)
    BY <1>1, <2>1, DistType, DistAssumption, ContestedTierKeeps DEF ContestTier
  <2> QED BY <1>1, <2>1, <2>2 DEF ContestTier
<1>2. CASE SettleLoneTier
  <2>1. UNCHANGED <<bet, folded, rank, pc>> /\ pc = "loop"
    BY <1>2 DEF SettleLoneTier
  <2>2. t' \in LoopState /\ Chips(t') = Chips(t)
    BY <1>2, LoneTierKeeps DEF SettleLoneTier
  <2> QED BY <2>1, <2>2
<1>3. CASE LeaveLoop
  BY <1>3 DEF LeaveLoop
<1>4. CASE Sweep
  <2>1. UNCHANGED <<bet, folded, rank>> /\ t' = Swept(t) /\ pc' = "done"
    BY <1>4 DEF Sweep
  <2>2. t' \in LoopState /\ Chips(t') = Chips(t) /\ \A p \in Players : t'.rem[p] = 0
    BY <2>1, SweptKeeps
  <2> QED BY <2>1, <2>2
<1>5. CASE UNCHANGED vars
  BY <1>5 DEF vars
<1> QED BY <1>1, <1>2, <1>3, <1>4, <1>5 DEF Next

\* The invariant holds in every pass of every call.
THEOREM PotInvariant == Spec => []PotInv
BY PotInit, PotNext, PTL DEF Spec

\* Every value determine_winner works with keeps its type: no contribution or
\* payout ever becomes negative.
THEOREM PotTypeCorrect == Spec => []TypeOK
<1>1. PotInv => TypeOK
  BY DEF PotInv
<1> QED BY <1>1, PotInvariant, PTL

\* No pass of the loop makes or loses a chip, whatever the number of players,
\* the side pots, the ties and the odd chips.
THEOREM PotChipsConserved == Spec => []ChipsConserved
<1>1. PotInv => ChipsConserved
  BY DEF PotInv
<1> QED BY <1>1, PotInvariant, PTL

-----------------------------------------------------------------------------
(***************************************************************************)
(* The payouts against the definition by layers.  Before each pass the     *)
(* stakes that are left are what the contributions have above some level   *)
(* L, the height the tiers have reached, and what has been paid is the     *)
(* shares of the layers up to L: exactly, unless there is a tie, and then  *)
(* to a chip for each tier.                                                *)
(***************************************************************************)

\* What a number has above a level, and what p's contribution has.
Over(x, L) == IF x > L THEN x - L ELSE 0
Stake(p, L) == Over(bet[p], L)

\* The tiers p takes part in that lie below a level.
Heights(p, L) ==
    {bet[q] : q \in {r \in Live : 0 < bet[r] /\ bet[r] <= bet[p] /\ bet[r] <= L}}

\* The shares of p, scaled, in the layers up to a level.
ShareTable(p) == [k \in 1..MaxBet |-> Share(p, k)]
Shares(p, L) == SumFunctionOnSet(ShareTable(p), 1..L)

\* What the loop has paid p, and by how much it is off the shares.
Got(u, p) == u.won[p] + u.returned[p]
Off(u, p, L) == Scale * Got(u, p) - Shares(p, L)

\* The payouts so far are those of the layers up to L.
Accounted(u, L) ==
    /\ \A p \in Players :
          /\ Off(u, p, L) = 0 \/ \E q \in Live \ {p} : rank[q] = rank[p]
          /\ Off(u, p, L) <= Scale * Cardinality(Heights(p, L))
          /\ -Off(u, p, L) <= Scale * Cardinality(Heights(p, L))
    /\ \A p, q \in Live :
          bet[p] = bet[q] /\ rank[p] = rank[q] /\ dist[p] < dist[q] =>
              Got(u, p) - Got(u, q) \in 0..Cardinality(Heights(p, L))

\* The tiers have been dealt with up to the height L.
AtLevel(u, L) ==
    /\ L \in 0..MaxBet
    /\ \A p \in Players : u.rem[p] = Stake(p, L)
    /\ Accounted(u, L)

\* A whole multiple divides without a remainder.
LEMMA DivWhole ==
  ASSUME NEW a \in Nat, NEW n \in Nat \ {0}
  PROVE  (a * n) \div n = a
<1> DEFINE q == (a * n) \div n
           r == (a * n) % n
<1>1. a * n \in Nat
  OBVIOUS
<1>2. q \in Nat /\ r \in 0..(n - 1) /\ a * n = q * n + r
  BY <1>1, DivMod
<1> HIDE DEF q, r
<1>3. \A x, y, m \in Nat : x > y => x * m >= y * m + m
  <2> SUFFICES ASSUME NEW x \in Nat, NEW y \in Nat, NEW m \in Nat, x > y PROVE x * m >= y * m + m
    OBVIOUS
  <2>1. PICK z \in Nat : x = y + 1 + z
    <3>1. x - y - 1 \in Nat /\ x = y + 1 + (x - y - 1)
      OBVIOUS
    <3> QED BY <3>1
  <2>2. x * m = y * m + m + z * m /\ z * m \in Nat /\ y * m \in Nat
    BY <2>1
  <2> QED BY <2>2
<1>4. a * n \in Nat /\ q * n \in Nat
  BY <1>2
<1>5. CASE a > q
  <2>1. a * n >= q * n + n
    BY <1>2, <1>3, <1>5
  <2> QED BY <1>2, <1>4, <2>1
<1>6. CASE q > a
  <2>1. q * n >= a * n + n
    BY <1>2, <1>3, <1>6
  <2> QED BY <1>2, <1>4, <2>1
<1> QED BY <1>2, <1>5, <1>6 DEF q

\* Any number of winners divides the scale.
LEMMA ScaleDivides ==
  ASSUME NEW n \in 1..Cardinality(Players)
  PROVE  /\ Scale \div n \in Nat /\ Scale = (Scale \div n) * n
         /\ \A c \in Nat : (Scale * c) \div n = (Scale \div n) * c
<1>1. Cardinality(Players) \in Nat
  BY PlayersFinite, FS_CardinalityType
<1>2. n \in Nat \ {0} /\ Scale \in Nat /\ Scale % n = 0
  BY <1>1, ScaleAssumption
<1> DEFINE m == Scale \div n
<1>3. m \in Nat /\ Scale = m * n + 0
  BY <1>2, DivMod
<1> HIDE DEF m
<1>4. Scale = m * n
  BY <1>2, <1>3
<1>5. ASSUME NEW c \in Nat PROVE (Scale * c) \div n = m * c
  <2>1. Scale * c = (m * c) * n /\ m * c \in Nat
    BY <1>2, <1>3, <1>4
  <2> QED BY <1>2, <2>1, DivWhole
<1> QED BY <1>3, <1>4, <1>5 DEF m

\* What a winner of a pot of a * n + r chips gets, a + o of them, is off his n-th part by
\* less than a chip.
LEMMA SplitError ==
  ASSUME NEW m \in Nat, NEW n \in Nat, NEW a \in Nat, NEW r \in Nat, NEW o \in {0, 1},
         r <= n
  PROVE  LET off == (m * n) * (a + o) - m * (a * n + r)
         IN  off <= m * n /\ -off <= m * n /\ (r = 0 /\ o = 0 => off = 0)
<1>1. (m * n) * (a + o) = m * n * a + (m * n) * o /\ m * (a * n + r) = m * n * a + m * r
  OBVIOUS
<1>2. m * r \in Nat /\ m * n \in Nat /\ m * r <= m * n /\ m * n * a \in Nat
  <2>1. PICK z \in Nat : n = r + z
    <3>1. n - r \in Nat /\ n = r + (n - r)
      OBVIOUS
    <3> QED BY <3>1
  <2>2. m * n = m * r + m * z /\ m * z \in Nat /\ m * r \in Nat
    BY <2>1
  <2> QED BY <2>2
<1>3. (m * n) * o = IF o = 0 THEN 0 ELSE m * n
  BY <1>2
<1>4. r = 0 => m * r = 0
  OBVIOUS
<1> QED BY <1>1, <1>2, <1>3, <1>4

\* The number of members with a property, as a sum.
LEMMA CountIsSum ==
  ASSUME NEW S, IsFiniteSet(S), NEW T \in SUBSET S, NEW f, \A q \in S : f[q] = IF q \in T THEN 1 ELSE 0
  PROVE  Cardinality(T) \in Nat /\ SumFunctionOnSet(f, S) = Cardinality(T)
<1>1. IsFiniteSet(T)
  BY FS_Subset
<1>2. Cardinality(T) \in Nat
  BY <1>1, FS_CardinalityType
<1>3. SumFunctionOnSet(f, S) = SumFunctionOnSet(f, T)
  BY SumSupport
<1>4. SumFunctionOnSet(f, T) = 1 * Cardinality(T)
  BY <1>1, SumConst
<1> QED BY <1>2, <1>3, <1>4

\* The members that put in k or more.
Above(S, b, k) == {q \in S : b[q] >= k}

\* f[k] is m times the number of contributions that reach k, for the D layers above
\* L; g[q] is what the contribution of q has in these layers.
Layered(S, b, L, D, m, f, g) ==
    /\ \A k \in 1..(L + D) : f[k] \in Int
    /\ \A k \in (L + 1)..(L + D) : f[k] = m * Cardinality(Above(S, b, k))
    /\ \A q \in S : g[q] = Lesser(Over(b[q], L), D)

\* Counting the chips of the layers above L player by player.
LEMMA LayerSum ==
  ASSUME NEW S, IsFiniteSet(S), NEW b \in [S -> Nat], NEW L \in Nat, NEW D \in Nat, NEW m \in Nat,
         NEW f, NEW g, Layered(S, b, L, D, m, f, g)
  PROVE  SumFunctionOnSet(f, 1..(L + D)) = SumFunctionOnSet(f, 1..L) + m * SumFunctionOnSet(g, S)
<1> DEFINE G(d) == [q \in S |-> Lesser(Over(b[q], L), d)]
           Good(d) == SumFunctionOnSet(f, 1..(L + d)) = SumFunctionOnSet(f, 1..L) + m * SumFunctionOnSet(G(d), S)
           Bad == {d \in 0..D : ~Good(d)}
<1>0. /\ \A k \in 1..(L + D) : f[k] \in Int
      /\ \A k \in (L + 1)..(L + D) : f[k] = m * Cardinality(Above(S, b, k))
      /\ \A q \in S : g[q] = Lesser(Over(b[q], L), D)
  BY DEF Layered
<1>1. ASSUME NEW d \in 0..D PROVE \A q \in S : G(d)[q] \in Nat
  BY DEF Lesser, Over
<1>2. \A d \in 0..D : SumFunctionOnSet(G(d), S) \in Nat
  <2> SUFFICES ASSUME NEW d \in 0..D PROVE SumFunctionOnSet(G(d), S) \in Nat
    OBVIOUS
  <2>1. \A q \in S : G(d)[q] \in Nat
    BY <1>1
  <2> HIDE DEF G
  <2> QED BY <2>1, SumNat
<1>3. \A d \in 0..D : SumFunctionOnSet(f, 1..(L + d)) \in Int
  <2> SUFFICES ASSUME NEW d \in 0..D PROVE SumFunctionOnSet(f, 1..(L + d)) \in Int
    OBVIOUS
  <2>1. IsFiniteSet(1..(L + d)) /\ \A k \in 1..(L + d) : f[k] \in Int
    BY <1>0, FS_Interval
  <2> QED BY <2>1, SumInt
<1>4. Good(0)
  <2>1. \A q \in S : G(0)[q] = 0
    BY DEF Lesser, Over
  <2>2. SumFunctionOnSet(G(0), S) = 0 * Cardinality(S)
    <3> HIDE DEF G
    <3> QED BY <2>1, SumConst
  <2>3. Cardinality(S) \in Nat /\ L + 0 = L
    BY FS_CardinalityType
  <2>4. m * SumFunctionOnSet(G(0), S) = 0
    <3> HIDE DEF G
    <3> QED BY <2>2, <2>3
  <2>5. SumFunctionOnSet(f, 1..L) \in Int
    BY <1>3, <2>3
  <2> HIDE DEF G
  <2> QED BY <2>3, <2>4, <2>5
<1>5. ASSUME NEW d \in 0..D, d # D, Good(d) PROVE Good(d + 1)
  <2> DEFINE T == {q \in S : b[q] >= L + d + 1}
             one == [q \in S |-> IF q \in T THEN 1 ELSE 0]
  <2>1. d + 1 \in 0..D /\ L + d + 1 \in (L + 1)..(L + D) /\ L + d + 1 \in 1..(L + (d + 1))
    BY <1>5
  <2>2. SumFunctionOnSet(f, 1..(L + (d + 1))) = f[L + d + 1] + SumFunctionOnSet(f, 1..(L + d))
    <3> DEFINE K == 1..(L + (d + 1))
    <3>1. IsFiniteSet(K) /\ (\A k \in K : f[k] \in Int) /\ L + d + 1 \in K
      BY <1>0, <2>1, FS_Interval
    <3>2. K \ {L + d + 1} = 1..(L + d)
      BY <2>1
    <3> HIDE DEF K
    <3>3. SumFunctionOnSet(f, K) = f[L + d + 1] + SumFunctionOnSet(f, K \ {L + d + 1})
      BY <3>1, SumRemove
    <3> QED BY <3>2, <3>3 DEF K
  <2>3. f[L + d + 1] = m * Cardinality(T)
    BY <1>0, <2>1 DEF Above
  <2>4. Cardinality(T) \in Nat /\ SumFunctionOnSet(one, S) = Cardinality(T)
    <3>1. T \in SUBSET S /\ \A q \in S : one[q] = IF q \in T THEN 1 ELSE 0
      OBVIOUS
    <3> HIDE DEF T, one
    <3> QED BY <3>1, CountIsSum
  <2>5. SumFunctionOnSet(G(d + 1), S) = SumFunctionOnSet(G(d), S) + SumFunctionOnSet(one, S)
    <3>1. \A q \in S : G(d)[q] \in Int /\ one[q] \in Int /\ G(d + 1)[q] = G(d)[q] + one[q]
      BY DEF Lesser, Over
    <3> HIDE DEF G, one
    <3> QED BY <3>1, SumAdd
  <2>6. SumFunctionOnSet(G(d), S) \in Nat /\ SumFunctionOnSet(f, 1..(L + d)) \in Int
        /\ SumFunctionOnSet(f, 1..L) \in Int
    <3>1. 0 \in 0..D /\ L + 0 = L
      OBVIOUS
    <3> HIDE DEF G
    <3> QED BY <1>2, <1>3, <3>1
  <2>7. \A x, y, z, c, s \in Int : x = y + m * s => m * c + x = y + m * (s + c)
    OBVIOUS
  <2> HIDE DEF G, T, one
  <2> QED BY <1>5, <2>2, <2>3, <2>4, <2>5, <2>6, <2>7
<1> HIDE DEF Good
<1>6. Bad = {}
  <2>1. SUFFICES ASSUME Bad # {} PROVE FALSE
    OBVIOUS
  <2>2. PICK d \in Bad : \A e \in Bad : d <= e
    <3>1. Bad \in SUBSET Nat
      OBVIOUS
    <3> HIDE DEF Bad
    <3> QED BY <2>1, <3>1, NatMin
  <2>3. d # 0 /\ d \in 0..D
    BY <1>4, <2>2
  <2>4. d - 1 \in 0..D /\ d - 1 # D /\ d - 1 \notin Bad /\ (d - 1) + 1 = d
    BY <2>2, <2>3
  <2> QED BY <1>5, <2>2, <2>4
<1>7. Good(D)
  BY <1>6
<1>8. SumFunctionOnSet(G(D), S) = SumFunctionOnSet(g, S)
  <2>1. \A q \in S : g[q] \in Int /\ G(D)[q] = g[q]
    BY <1>0 DEF Lesser, Over
  <2> HIDE DEF G
  <2> QED BY <2>1, SumCong
<1> HIDE DEF G
<1> QED BY <1>7, <1>8 DEF Good

\* One pass of the loop, seen from the players: everyone gives up to the tier, its
\* winners share what was given, the odd chips from the dealer's left.
Split(u, v) ==
    LET tier == TierContribution(u, folded)
        pot  == SumFunction(Taken(u, tier))
        W    == TierWinners(Eligible(u, folded), rank)
        n    == Cardinality(W)
    IN  /\ v \in LoopState
        /\ \A p \in Players : v.rem[p] = u.rem[p] - Lesser(u.rem[p], tier)
        /\ \A p \in Players : Got(v, p) = Got(u, p)
              + IF p \in W THEN (pot \div n) + OddChip(p, W, pot % n, dist) ELSE 0

\* Somebody in the tier has exactly what it takes.
LEMMA TierContributionHeld ==
  ASSUME NEW u \in LoopState, NEW gone, Eligible(u, gone) # {}
  PROVE  \E p \in Eligible(u, gone) : u.rem[p] = TierContribution(u, gone)
<1> DEFINE R == {u.rem[p] : p \in Eligible(u, gone)}
<1>1. R \in SUBSET Nat /\ R # {}
  BY DEF LoopState, Eligible
<1>2. TierContribution(u, gone) = Min(R)
  BY DEF TierContribution
<1>3. \A r \in R : \E p \in Eligible(u, gone) : u.rem[p] = r
  OBVIOUS
<1> HIDE DEF R
<1>4. Min(R) \in R
  BY <1>1, NatMin
<1> QED BY <1>2, <1>3, <1>4

\* A contested tier is a split.
LEMMA ContestedSplits ==
  ASSUME TypeOK, NEW u \in LoopState, Eligible(u, folded) # {}
  PROVE  Split(u, ContestedTier(u, folded, rank, dist))
<1> DEFINE E     == Eligible(u, folded)
           tier  == TierContribution(u, folded)
           taken == Taken(u, tier)
           pot   == SumFunction(taken)
           W     == TierWinners(E, rank)
           n     == Cardinality(W)
           v     == ContestedTier(u, folded, rank, dist)
<1>1. v \in LoopState
  BY DistType, ContestedTierKeeps DEF TypeOK
<1>2. /\ u.rem \in [Players -> Nat] /\ u.won \in [Players -> Nat]
      /\ u.returned \in [Players -> Nat] /\ u.pots \in Nat
  BY DEF LoopState
<1>3. /\ v.rem = [p \in Players |-> u.rem[p] - taken[p]]
      /\ v.won = [p \in Players |-> IF p \in W
                     THEN u.won[p] + (pot \div n) + OddChip(p, W, pot % n, dist)
                     ELSE u.won[p]]
      /\ v.returned = u.returned
  <2> HIDE DEF tier, taken, pot, W, n
  <2> QED BY DEF ContestedTier, LoopState, tier, taken, pot, W, n, E
<1>4. \A p \in Players : v.rem[p] = u.rem[p] - Lesser(u.rem[p], tier)
  BY <1>3 DEF Taken
<1>5. W \in SUBSET Players /\ W # {}
  <2>1. E \in SUBSET Players /\ \A p \in E : rank[p] \in Nat
    BY DEF Eligible, TypeOK
  <2> QED BY <2>1, TierWinnersSome
<1>6. pot \in Nat
  <2>1. tier \in Nat
    BY TierContributionType
  <2>2. taken \in [Players -> Nat]
    BY <2>1, TakenType
  <2> QED BY <2>2, TotalNat
<1>7. n \in Nat \ {0}
  BY <1>5, PlayersFinite, FS_Subset, FS_CardinalityType, FS_EmptySet
<1> HIDE DEF E, tier, taken, pot, W, n, v
<1>8. pot \div n \in Nat /\ \A p \in Players : OddChip(p, W, pot % n, dist) \in {0, 1}
  BY <1>6, <1>7, DivMod DEF OddChip
<1>9. ASSUME NEW p \in Players
      PROVE  Got(v, p) = Got(u, p) + IF p \in W THEN (pot \div n) + OddChip(p, W, pot % n, dist) ELSE 0
  <2> DEFINE a == pot \div n
             o == OddChip(p, W, pot % n, dist)
  <2>1. a \in Nat /\ o \in Nat
    BY <1>8
  <2>2. v.won[p] = IF p \in W THEN u.won[p] + a + o ELSE u.won[p]
    BY <1>3
  <2> HIDE DEF a, o
  <2>3. Got(v, p) = Got(u, p) + IF p \in W THEN a + o ELSE 0
    BY <1>2, <1>3, <2>1, <2>2 DEF Got
  <2> QED BY <2>3 DEF a, o
<1> QED BY <1>1, <1>4, <1>9 DEF Split, E, tier, taken, pot, W, n, v

\* So is the tier of a lone player: he wins it all, whatever part of it the code calls a
\* return.
LEMMA LoneSplits ==
  ASSUME TypeOK, NEW u \in LoopState, NEW p \in Players, Eligible(u, folded) = {p}
  PROVE  Split(u, LoneTier(u, p))
<1> DEFINE v     == LoneTier(u, p)
           tier  == TierContribution(u, folded)
           taken == Taken(u, tier)
           pot   == SumFunction(taken)
           W     == TierWinners({p}, rank)
<1>1. v \in LoopState /\ Chips(v) = Chips(u)
  BY LoneTierKeeps
<1>2. /\ u.rem \in [Players -> Nat] /\ u.won \in [Players -> Nat] /\ u.returned \in [Players -> Nat]
      /\ v.rem \in [Players -> Nat] /\ v.won \in [Players -> Nat] /\ v.returned \in [Players -> Nat]
  BY <1>1 DEF LoopState
<1>3. tier = u.rem[p] /\ tier \in Nat \ {0}
  BY TierContributionHeld, TierContributionType
<1>4. taken \in [Players -> Nat] /\ pot \in Nat /\ \A q \in Players : taken[q] = Lesser(u.rem[q], tier)
  <2>1. taken \in [Players -> Nat]
    BY <1>3, TakenType
  <2> QED BY <2>1, TotalNat DEF Taken
<1>5. W = {p}
  BY DEF TierWinners, TypeOK
<1>6. /\ \A q \in Players : v.rem[q] = u.rem[q] - Lesser(u.rem[q], tier)
      /\ \A q \in Players \ {p} : v.won[q] = u.won[q] /\ v.returned[q] = u.returned[q]
  <2> DEFINE mine == u.rem[p]
             dead == {q \in Players \ {p} : u.rem[q] > 0}
             took == [q \in dead |-> Lesser(u.rem[q], mine)]
             rem  == [q \in Players |->
                        CASE q = p       -> 0
                          [] q \in dead  -> u.rem[q] - took[q]
                          [] OTHER       -> u.rem[q]]
  <2>1. PICK x, y, z : v = [u EXCEPT !.rem = rem, !.won = [u.won EXCEPT ![p] = x],
                               !.returned = [u.returned EXCEPT ![p] = y], !.pots = z]
    BY Zenon DEF LoneTier
  <2>2. /\ v.rem = rem /\ v.won = [u.won EXCEPT ![p] = x]
        /\ v.returned = [u.returned EXCEPT ![p] = y]
    <3> HIDE DEF rem, v
    <3> QED BY <2>1 DEF LoopState
  <2> HIDE DEF v, tier
  <2>3. ASSUME NEW q \in Players PROVE rem[q] = u.rem[q] - Lesser(u.rem[q], tier)
    <3>1. CASE q = p
      BY <1>2, <1>3, <3>1 DEF Lesser
    <3>2. CASE q # p /\ q \in dead
      BY <1>2, <1>3, <3>2
    <3>3. CASE q # p /\ q \notin dead
      BY <1>2, <1>3, <3>3 DEF Lesser
    <3> QED BY <3>1, <3>2, <3>3
  <2> HIDE DEF rem
  <2> QED BY <1>2, <2>2, <2>3
<1> HIDE DEF v, tier, taken, pot, W
<1> DEFINE gu == [q \in Players |-> Got(u, q)]
           gv == [q \in Players |-> Got(v, q)]
<1>7. /\ gu \in [Players -> Nat] /\ gv \in [Players -> Nat]
      /\ \A q \in Players \ {p} : gv[q] = gu[q]
  BY <1>2, <1>6 DEF Got
<1>8. SumFunction(gv) = SumFunction(gu) + (gv[p] - gu[p])
  <2> HIDE DEF gu, gv
  <2> QED BY <1>7, TotalChange
<1>9. ASSUME NEW f \in [Players -> Nat], NEW g \in [Players -> Nat], NEW h \in [Players -> Nat],
             \A q \in Players : h[q] = f[q] + g[q]
      PROVE  SumFunction(h) = SumFunction(f) + SumFunction(g)
  <2>1. DOMAIN f = Players /\ DOMAIN g = Players /\ DOMAIN h = Players
    OBVIOUS
  <2>2. \A q \in Players : f[q] \in Int /\ g[q] \in Int /\ h[q] = f[q] + g[q]
    BY <1>9
  <2> QED BY <2>1, <2>2, PlayersFinite, SumAdd, TotalIsSum
<1>10. /\ SumFunction(gu) = SumFunction(u.won) + SumFunction(u.returned)
       /\ SumFunction(gv) = SumFunction(v.won) + SumFunction(v.returned)
  <2>1. \A q \in Players : gu[q] = u.won[q] + u.returned[q] /\ gv[q] = v.won[q] + v.returned[q]
    BY DEF Got
  <2> HIDE DEF gu, gv
  <2> QED BY <1>2, <1>7, <1>9, <2>1
<1>11. SumFunction(u.rem) = SumFunction(v.rem) + pot
  <2>1. \A q \in Players : u.rem[q] = v.rem[q] + taken[q]
    BY <1>2, <1>3, <1>4, <1>6
  <2> QED BY <1>2, <1>4, <1>9, <2>1 DEF pot
<1>12. /\ SumFunction(gu) \in Nat /\ SumFunction(gv) \in Nat /\ SumFunction(v.rem) \in Nat
       /\ SumFunction(u.won) \in Nat /\ SumFunction(v.won) \in Nat
       /\ SumFunction(u.returned) \in Nat /\ SumFunction(v.returned) \in Nat
       /\ gv[p] \in Nat /\ gu[p] \in Nat
  <2>0. gv[p] \in Nat /\ gu[p] \in Nat
    BY <1>7
  <2> HIDE DEF gu, gv
  <2> QED BY <1>2, <1>7, <2>0, TotalNat
<1>13. gv[p] = gu[p] + pot
  <2> HIDE DEF gu, gv
  <2> QED BY <1>1, <1>4, <1>8, <1>10, <1>11, <1>12 DEF Chips
<1>14. Cardinality(W) = 1 /\ pot \div 1 = pot /\ pot % 1 = 0
  <2>1. pot \div 1 = pot /\ pot % 1 = 0
    BY <1>4
  <2>2. Cardinality({p}) = 1
    BY FS_Singleton
  <2> QED BY <1>5, <2>1, <2>2
<1>15. OddChip(p, W, 0, dist) = 0
  <2>1. {q \in W : dist[q] < dist[p]} = {}
    BY <1>5, DistType
  <2>2. Cardinality({}) = 0
    BY FS_EmptySet
  <2> QED BY <2>1, <2>2 DEF OddChip
<1>16. ASSUME NEW q \in Players
       PROVE  Got(v, q) = Got(u, q)
                + IF q \in W THEN (pot \div Cardinality(W)) + OddChip(q, W, pot % Cardinality(W), dist) ELSE 0
  <2>1. CASE q = p
    BY <1>4, <1>5, <1>13, <1>14, <1>15, <2>1
  <2>2. CASE q # p
    <3>1. gv[q] = gu[q] /\ gu[q] \in Nat
      BY <1>7, <2>2
    <3> QED BY <1>5, <2>2, <3>1
  <2> QED BY <2>1, <2>2
<1> QED BY <1>1, <1>6, <1>16 DEF Split, v, tier, taken, pot, W

\* The heights below a level are finitely many.
LEMMA HeightsFinite ==
  ASSUME TypeOK, NEW p \in Players, NEW L
  PROVE  IsFiniteSet(Heights(p, L)) /\ Cardinality(Heights(p, L)) \in Nat
<1>1. bet[p] \in Nat /\ Heights(p, L) \subseteq 0..bet[p]
  BY DEF TypeOK, Heights, Live
<1>2. IsFiniteSet(0..bet[p])
  BY <1>1, FS_Interval
<1>3. IsFiniteSet(Heights(p, L))
  BY <1>1, <1>2, FS_Subset
<1> QED BY <1>3, FS_CardinalityType

\* Raising the level adds heights; the level itself is one to whoever reaches it.
LEMMA HeightsRise ==
  ASSUME TypeOK, NEW p \in Players, NEW L \in Nat, NEW K \in Nat, L < K
  PROVE  /\ Cardinality(Heights(p, L)) <= Cardinality(Heights(p, K))
         /\ (p \in Live /\ bet[p] >= K /\ \E q \in Live : bet[q] = K)
               => Cardinality(Heights(p, L)) + 1 <= Cardinality(Heights(p, K))
<1>0. bet \in [Players -> Nat] /\ Live \subseteq Players
  BY DEF TypeOK, Live
<1>1. Heights(p, L) \subseteq Heights(p, K)
  <2> SUFFICES ASSUME NEW h \in Heights(p, L) PROVE h \in Heights(p, K)
    OBVIOUS
  <2>1. PICK q \in Live : h = bet[q] /\ 0 < bet[q] /\ bet[q] <= bet[p] /\ bet[q] <= L
    BY DEF Heights
  <2>2. bet[q] <= K
    BY <1>0, <2>1
  <2> QED BY <2>1, <2>2 DEF Heights
<1>2. Cardinality(Heights(p, L)) <= Cardinality(Heights(p, K))
  BY <1>1, HeightsFinite, FS_Subset
<1>3. ASSUME NEW q \in Live, bet[q] = K, bet[p] >= K
      PROVE  Cardinality(Heights(p, L)) + 1 <= Cardinality(Heights(p, K))
  <2>1. K \notin Heights(p, L)
    BY <1>0 DEF Heights
  <2>2. K \in Heights(p, K)
    BY <1>0, <1>3 DEF Heights
  <2>3. Cardinality(Heights(p, L) \cup {K}) = Cardinality(Heights(p, L)) + 1
    BY <2>1, HeightsFinite, FS_AddElement
  <2>4. Cardinality(Heights(p, L) \cup {K}) <= Cardinality(Heights(p, K))
    BY <1>1, <2>2, HeightsFinite, FS_Subset
  <2> QED BY <2>3, <2>4
<1> QED BY <1>2, <1>3

\* Shares are natural numbers.
LEMMA SharesType ==
  ASSUME TypeOK, bet \in [Players -> 0..MaxBet], NEW p \in Players
  PROVE  /\ \A k \in 1..MaxBet : Share(p, k) \in Nat
         /\ \A L \in 0..MaxBet : Shares(p, L) \in Nat
<1>0. Scale \in Nat /\ MaxBet \in Nat
  BY ScaleAssumption, MaxBetAssumption
<1>1. ASSUME NEW k \in 1..MaxBet PROVE Share(p, k) \in Nat
  <2> DEFINE C == Contenders(k)
             W == {q \in C : \A r \in C : rank[q] <= rank[r]}
  <2>1. IsFiniteSet(Contributors(k)) /\ Cardinality(Contributors(k)) \in Nat
    BY PlayersFinite, FS_Subset, FS_CardinalityType DEF Contributors
  <2>2. CASE p \in W
    <3>1. W \in SUBSET Players /\ W # {}
      BY <2>2 DEF Contenders, Contributors
    <3>2. Cardinality(W) \in Nat \ {0}
      <4> HIDE DEF W
      <4> QED BY <3>1, PlayersFinite, FS_Subset, FS_CardinalityType, FS_EmptySet
    <3>3. Share(p, k) = (Scale * Cardinality(Contributors(k))) \div Cardinality(W)
      BY <2>2 DEF Share
    <3>4. Scale * Cardinality(Contributors(k)) \in Nat
      BY <1>0, <2>1
    <3> HIDE DEF W
    <3> QED BY <3>2, <3>3, <3>4, DivMod
  <2>3. CASE p \notin W
    <3>1. Share(p, k) = IF C = {} THEN IF p \in Contributors(k) THEN Scale ELSE 0 ELSE 0
      BY <2>3 DEF Share
    <3> QED BY <1>0, <3>1
  <2> QED BY <2>2, <2>3
<1>2. ASSUME NEW L \in 0..MaxBet PROVE Shares(p, L) \in Nat
  <2>1. \A k \in 1..L : ShareTable(p)[k] \in Nat
    BY <1>0, <1>1 DEF ShareTable
  <2>2. IsFiniteSet(1..L)
    BY <1>0, FS_Interval
  <2> QED BY <2>1, <2>2, SumNat DEF Shares
<1> QED BY <1>1, <1>2

\* A tier is as many layers as it is high, with the same contenders in each.
LEMMA TierLayers ==
  ASSUME TypeOK, bet \in [Players -> 0..MaxBet], NEW u \in LoopState, NEW L \in 0..MaxBet,
         \A p \in Players : u.rem[p] = Stake(p, L), Eligible(u, folded) # {}
  PROVE  LET tier == TierContribution(u, folded)
             E    == Eligible(u, folded)
             W    == TierWinners(E, rank)
             pot  == SumFunction(Taken(u, tier))
             m    == Scale \div Cardinality(W)
         IN  /\ E = {p \in Live : bet[p] > L} /\ W \subseteq E /\ W # {}
             /\ tier \in Nat \ {0} /\ L + tier \in 1..MaxBet
             /\ \A p \in E : bet[p] >= L + tier
             /\ \E p \in Live : bet[p] = L + tier
             /\ pot \in Nat /\ Cardinality(W) \in 1..Cardinality(Players)
             /\ \A p \in Players : Shares(p, L + tier) = Shares(p, L) + IF p \in W THEN m * pot ELSE 0
<1> DEFINE tier == TierContribution(u, folded)
           E    == Eligible(u, folded)
           W    == TierWinners(E, rank)
           taken == Taken(u, tier)
           pot  == SumFunction(taken)
           n    == Cardinality(W)
           m    == Scale \div n
<1>0. bet \in [Players -> Nat] /\ MaxBet \in Nat /\ L \in Nat /\ Live = Players \ folded
  BY MaxBetAssumption DEF TypeOK, Live
<1>1. E = {p \in Live : bet[p] > L}
  BY <1>0 DEF Eligible, Stake, Over
<1>2. W \subseteq E /\ W # {}
  <2>1. E \in SUBSET Players /\ \A p \in E : rank[p] \in Nat
    BY DEF Eligible, TypeOK
  <2> QED BY <2>1, TierWinnersSome
<1>3. tier \in Nat \ {0} /\ \A p \in E : tier <= u.rem[p]
  BY TierContributionType
<1>4. \A p \in E : p \in Players /\ u.rem[p] = bet[p] - L
  BY <1>0, <1>1 DEF Stake, Over
<1> HIDE DEF E, tier, W
<1>5. \A p \in E : bet[p] >= L + tier
  BY <1>0, <1>3, <1>4
<1>6. PICK e \in E : bet[e] = L + tier
  <2>1. PICK e \in E : u.rem[e] = tier
    BY TierContributionHeld DEF E, tier
  <2> QED BY <1>0, <1>3, <1>4, <2>1
<1>7. L + tier \in 1..MaxBet /\ e \in Live
  <2>1. bet[e] \in 0..MaxBet
    BY <1>4
  <2> QED BY <1>0, <1>1, <1>3, <1>6, <2>1
<1>8. taken \in [Players -> Nat] /\ pot \in Nat
  <2>1. taken \in [Players -> Nat]
    BY <1>3, TakenType
  <2> QED BY <2>1, TotalNat
<1>9. n \in 1..Cardinality(Players)
  <2>1. W \in SUBSET Players
    BY <1>2, <1>4
  <2>2. IsFiniteSet(W) /\ n <= Cardinality(Players) /\ Cardinality(Players) \in Nat
    BY <2>1, PlayersFinite, FS_Subset, FS_CardinalityType
  <2>3. n \in Nat /\ n # 0
    BY <1>2, <2>2, FS_EmptySet, FS_CardinalityType
  <2> QED BY <2>2, <2>3
<1>10. m \in Nat /\ \A c \in Nat : (Scale * c) \div n = m * c
  <2> HIDE DEF n
  <2> QED BY <1>9, ScaleDivides
<1>11. ASSUME NEW k \in (L + 1)..(L + tier) PROVE Contenders(k) = E
  <2>1. ASSUME NEW p \in Players PROVE p \in Contenders(k) <=> p \in E
    <3>1. CASE p \in E
      BY <1>0, <1>1, <1>3, <1>5, <3>1 DEF Contenders, Contributors
    <3>2. CASE p \notin E
      BY <1>0, <1>1, <1>3, <3>2 DEF Contenders, Contributors
    <3> QED BY <3>1, <3>2
  <2> QED BY <1>4, <2>1 DEF Contenders, Contributors
<1> HIDE DEF m, n, pot, taken
<1>12. ASSUME NEW p \in Players PROVE Shares(p, L + tier) = Shares(p, L) + IF p \in W THEN m * pot ELSE 0
  <2> DEFINE c == IF p \in W THEN m ELSE 0
             f == ShareTable(p)
  <2>1. \A k \in 1..(L + tier) : f[k] \in Int
    BY <1>0, <1>3, <1>7, SharesType DEF ShareTable
  <2>2. ASSUME NEW k \in (L + 1)..(L + tier)
        PROVE  f[k] = c * Cardinality(Above(Players, bet, k))
    <3> DEFINE C == Contributors(k)
    <3>1. Cardinality(C) \in Nat /\ C = Above(Players, bet, k)
      <4>1. C = Above(Players, bet, k) /\ C \subseteq Players
        BY DEF Contributors, Above
      <4> HIDE DEF C
      <4> QED BY <4>1, PlayersFinite, FS_Subset, FS_CardinalityType
    <3>2. k \in 1..MaxBet
      BY <1>0, <1>3, <1>7
    <3>3. W = {q \in Contenders(k) : \A r \in Contenders(k) : rank[q] <= rank[r]}
      BY <1>11 DEF W, TierWinners
    <3>4. Contenders(k) # {}
      BY <1>2, <1>11
    <3>5. Share(p, k) = IF p \in W THEN (Scale * Cardinality(C)) \div n ELSE 0
      BY <3>3, <3>4 DEF Share, n
    <3>6. f[k] = Share(p, k)
      BY <3>2 DEF ShareTable
    <3>7. \A x \in Nat : 0 * x = 0
      OBVIOUS
    <3> HIDE DEF C, f
    <3> QED BY <1>10, <3>1, <3>5, <3>6, <3>7
  <2>3. \A q \in Players : taken[q] = Lesser(Over(bet[q], L), tier)
    BY DEF taken, Taken, Stake, Over
  <2>4. c \in Nat
    BY <1>10
  <2> HIDE DEF c, f
  <2>5. SumFunctionOnSet(f, 1..(L + tier)) = SumFunctionOnSet(f, 1..L) + c * SumFunctionOnSet(taken, Players)
    <3>1. tier \in Nat
      BY <1>3
    <3>2. \A k \in (L + 1)..(L + tier) : f[k] = c * Cardinality(Above(Players, bet, k))
      BY <2>2
    <3>3. Layered(Players, bet, L, tier, c, f, taken)
      BY <2>1, <2>3, <3>2 DEF Layered
    <3> QED BY <1>0, <2>4, <3>1, <3>3, PlayersFinite, LayerSum
  <2>6. SumFunctionOnSet(taken, Players) = pot
    BY <1>8, TotalIsSum DEF pot
  <2>7. Shares(p, L + tier) = Shares(p, L) + c * pot
    BY <2>5, <2>6 DEF Shares, f
  <2>8. c * pot = IF p \in W THEN m * pot ELSE 0
    BY <1>8 DEF c
  <2> QED BY <2>7, <2>8
<1> QED BY <1>1, <1>2, <1>3, <1>5, <1>7, <1>6, <1>8, <1>9, <1>12 DEF E, tier, W, taken, pot, n, m

\* Nearer to the dealer's left is no worse in odd chips, and at most one better.
LEMMA OddChipOrder ==
  ASSUME NEW W \in SUBSET Players, NEW p \in Players, NEW q \in Players, dist[p] < dist[q], NEW odd \in Nat
  PROVE  OddChip(p, W, odd, dist) - OddChip(q, W, odd, dist) \in {0, 1}
<1> DEFINE P == {x \in W : dist[x] < dist[p]}
           Q == {x \in W : dist[x] < dist[q]}
<1>1. P \subseteq Q /\ Q \in SUBSET Players
  BY DistType
<1>2. IsFiniteSet(Q) /\ IsFiniteSet(P)
  BY <1>1, PlayersFinite, FS_Subset
<1>3. Cardinality(P) <= Cardinality(Q) /\ Cardinality(P) \in Nat /\ Cardinality(Q) \in Nat
  BY <1>1, <1>2, FS_Subset, FS_CardinalityType
<1>4. /\ OddChip(p, W, odd, dist) = IF Cardinality(P) < odd THEN 1 ELSE 0
      /\ OddChip(q, W, odd, dist) = IF Cardinality(Q) < odd THEN 1 ELSE 0
  BY DEF OddChip
<1> HIDE DEF P, Q
<1> QED BY <1>3, <1>4

\* A split takes the call from a level to the next.
LEMMA LevelUp ==
  ASSUME TypeOK, bet \in [Players -> 0..MaxBet], NEW u \in LoopState, NEW L, AtLevel(u, L),
         Eligible(u, folded) # {}, NEW v, Split(u, v)
  PROVE  AtLevel(v, L + TierContribution(u, folded))
<1> DEFINE tier == TierContribution(u, folded)
           E    == Eligible(u, folded)
           W    == TierWinners(E, rank)
           pot  == SumFunction(Taken(u, tier))
           n    == Cardinality(W)
           m    == Scale \div n
           K    == L + tier
           gain(p) == (pot \div n) + OddChip(p, W, pot % n, dist)
<1>0. /\ bet \in [Players -> Nat] /\ MaxBet \in Nat /\ L \in 0..MaxBet /\ L \in Nat
      /\ Live = Players \ folded /\ Scale \in Nat
      /\ \A p \in Players : u.rem[p] = Stake(p, L)
      /\ Accounted(u, L)
  BY MaxBetAssumption, ScaleAssumption DEF TypeOK, Live, AtLevel
<1>1. /\ E = {p \in Live : bet[p] > L} /\ W \subseteq E /\ W # {}
      /\ tier \in Nat \ {0} /\ K \in 1..MaxBet
      /\ \A p \in E : bet[p] >= K
      /\ \E p \in Live : bet[p] = K
      /\ pot \in Nat /\ n \in 1..Cardinality(Players)
      /\ \A p \in Players : Shares(p, K) = Shares(p, L) + IF p \in W THEN m * pot ELSE 0
  BY <1>0, TierLayers
<1>2. /\ v \in LoopState
      /\ \A p \in Players : v.rem[p] = u.rem[p] - Lesser(u.rem[p], tier)
      /\ \A p \in Players : Got(v, p) = Got(u, p) + IF p \in W THEN gain(p) ELSE 0
  BY DEF Split
<1>3. n \in Nat \ {0} /\ m \in Nat /\ Scale = m * n
  <2>1. Cardinality(Players) \in Nat
    BY PlayersFinite, FS_CardinalityType
  <2> HIDE DEF n
  <2> QED BY <1>1, <2>1, ScaleDivides
<1>4. W \in SUBSET Players
  BY <1>0, <1>1
<1> DEFINE a == pot \div n
           r == pot % n
           o(p) == OddChip(p, W, r, dist)
<1>5. a \in Nat /\ r \in 0..(n - 1) /\ pot = a * n + r
  <2> HIDE DEF n, pot
  <2> QED BY <1>1, <1>3, DivMod
<1>6. \A p \in Players : o(p) \in {0, 1} /\ gain(p) = a + o(p)
  BY DEF OddChip
<1>7. \A p \in Players : Got(u, p) \in Nat /\ Got(v, p) \in Nat
  BY <1>2 DEF Got, LoopState
<1>8. \A p \in Players : Shares(p, L) \in Nat /\ Shares(p, K) \in Nat
  BY <1>0, <1>1, SharesType
<1>9. ASSUME NEW p \in Players
      PROVE  /\ Cardinality(Heights(p, L)) \in Nat /\ Cardinality(Heights(p, K)) \in Nat
             /\ Cardinality(Heights(p, L)) <= Cardinality(Heights(p, K))
             /\ p \in W => Cardinality(Heights(p, L)) + 1 <= Cardinality(Heights(p, K))
  <2>1. L < K /\ K \in Nat
    BY <1>0, <1>1
  <2>2. p \in W => p \in Live /\ bet[p] >= K
    BY <1>1
  <2> HIDE DEF K, W
  <2> QED BY <1>0, <1>1, <2>1, <2>2, HeightsFinite, HeightsRise
<1> HIDE DEF E, W, tier, pot, n, m, K, a, r, gain, o
<1>10. \A p \in Players : v.rem[p] = Stake(p, K)
  BY <1>0, <1>1, <1>2 DEF Stake, Over, Lesser, K
<1>11. ASSUME NEW p \in Players
       PROVE  /\ Off(v, p, K) = 0 \/ \E q \in Live \ {p} : rank[q] = rank[p]
              /\ Off(v, p, K) <= Scale * Cardinality(Heights(p, K))
              /\ -Off(v, p, K) <= Scale * Cardinality(Heights(p, K))
  <2> DEFINE h == Cardinality(Heights(p, L))
             k == Cardinality(Heights(p, K))
             x == Off(u, p, L)
             y == Off(v, p, K)
  <2>1. h \in Nat /\ k \in Nat /\ h <= k /\ (p \in W => h + 1 <= k)
    BY <1>9
  <2>2. x \in Int /\ y \in Int
    BY <1>0, <1>7, <1>8 DEF Off
  <2>3. (x = 0 \/ \E q \in Live \ {p} : rank[q] = rank[p]) /\ x <= Scale * h /\ -x <= Scale * h
    BY <1>0 DEF Accounted
  <2>4. Scale * h \in Nat /\ Scale * k \in Nat /\ Scale * h <= Scale * k
        /\ (p \in W => Scale * h + Scale <= Scale * k)
    <3>1. \A i, j \in Nat : i <= j => Scale * i <= Scale * j
      <4> SUFFICES ASSUME NEW i \in Nat, NEW j \in Nat, i <= j PROVE Scale * i <= Scale * j
        OBVIOUS
      <4>1. j - i \in Nat /\ j = i + (j - i)
        OBVIOUS
      <4>2. PICK z \in Nat : j = i + z
        BY <4>1
      <4>3. Scale * j = Scale * i + Scale * z /\ Scale * z \in Nat /\ Scale * i \in Nat
        BY <1>0, <4>2
      <4> QED BY <4>3
    <3>2. Scale * (h + 1) = Scale * h + Scale /\ Scale * h \in Nat /\ Scale * k \in Nat
      BY <1>0, <2>1
    <3> HIDE DEF h, k
    <3> QED BY <2>1, <3>1, <3>2
  <2>5. CASE p \notin W
    <3>1. y = x
      <4>1. Got(v, p) = Got(u, p) /\ Shares(p, K) = Shares(p, L)
        BY <1>1, <1>2, <1>7, <1>8, <2>5
      <4> QED BY <4>1 DEF Off
    <3> HIDE DEF x, y, h, k
    <3>2. y <= Scale * k /\ -y <= Scale * k
      BY <1>0, <2>1, <2>2, <2>3, <2>4, <3>1
    <3> QED BY <2>3, <3>1, <3>2 DEF y, k
  <2>6. CASE p \in W
    <3> DEFINE e == (m * n) * (a + o(p)) - m * (a * n + r)
    <3>1. y = x + e
      <4>1. Off(v, p, K) = (m * n) * (Got(u, p) + (a + o(p))) - (Shares(p, L) + m * (a * n + r))
        BY <1>1, <1>2, <1>3, <1>5, <1>6, <2>6 DEF Off
      <4>2. Off(u, p, L) = (m * n) * Got(u, p) - Shares(p, L)
        BY <1>3 DEF Off
      <4>3. \A b, g, c, s, d \in Int : b * (g + c) - (s + d) = (b * g - s) + (b * c - d)
        OBVIOUS
      <4>4. m * n \in Int /\ a + o(p) \in Int /\ m * (a * n + r) \in Int
        BY <1>3, <1>5, <1>6
      <4> QED BY <1>7, <1>8, <4>1, <4>2, <4>3, <4>4
    <3>2. e <= Scale /\ -e <= Scale /\ (r = 0 /\ o(p) = 0 => e = 0)
      <4>1. n \in Nat /\ r \in Nat /\ r <= n
        BY <1>3, <1>5
      <4> HIDE DEF e
      <4> QED BY <1>3, <1>5, <1>6, <4>1, SplitError DEF e
    <3>3. e \in Int
      <4>1. m * n \in Int /\ a + o(p) \in Int /\ m * (a * n + r) \in Int
        BY <1>3, <1>5, <1>6
      <4> QED BY <4>1
    <3>4. e = 0 \/ \E q \in Live \ {p} : rank[q] = rank[p]
      <4>1. CASE W = {p}
        <5>1. n = 1
          BY <4>1, FS_Singleton DEF n
        <5>2. r = 0
          BY <1>5, <5>1
        <5>3. o(p) = 0
          <6>1. {q \in W : dist[q] < dist[p]} = {} /\ Cardinality({}) = 0
            BY <4>1, DistType, FS_EmptySet
          <6> QED BY <5>2, <6>1 DEF o, OddChip
        <5> QED BY <3>2, <5>2, <5>3
      <4>2. CASE W # {p}
        <5>1. PICK q \in W : q # p
          BY <2>6, <4>2
        <5>2. rank[q] <= rank[p] /\ rank[p] <= rank[q] /\ q \in Live
          BY <1>1, <2>6, <5>1 DEF W, TierWinners
        <5>3. rank[q] \in Nat /\ rank[p] \in Nat
          BY <1>0, <5>2 DEF TypeOK
        <5> QED BY <5>1, <5>2, <5>3
      <4> QED BY <4>1, <4>2
    <3> HIDE DEF e, x, y, h, k
    <3>5. y <= Scale * k /\ -y <= Scale * k
      BY <1>0, <2>1, <2>2, <2>3, <2>4, <2>6, <3>1, <3>2, <3>3
    <3>6. y = 0 \/ \E q \in Live \ {p} : rank[q] = rank[p]
      BY <2>2, <2>3, <3>1, <3>3, <3>4
    <3> QED BY <3>5, <3>6 DEF y, k
  <2> QED BY <2>5, <2>6
<1>12. ASSUME NEW p \in Live, NEW q \in Live, bet[p] = bet[q], rank[p] = rank[q], dist[p] < dist[q]
       PROVE  Got(v, p) - Got(v, q) \in 0..Cardinality(Heights(p, K))
  <2>1. p \in Players /\ q \in Players
    BY <1>0
  <2>2. Got(u, p) - Got(u, q) \in 0..Cardinality(Heights(p, L))
    BY <1>0, <1>12 DEF Accounted
  <2>3. p \in W <=> q \in W
    BY <1>1, <1>12 DEF W, TierWinners
  <2>4. CASE p \in W
    <3>1. o(p) - o(q) \in {0, 1}
      <4>1. r \in Nat
        BY <1>3, <1>5
      <4> QED BY <1>4, <1>12, <2>1, <4>1, OddChipOrder DEF o
    <3>2. Got(v, p) = Got(u, p) + (a + o(p)) /\ Got(v, q) = Got(u, q) + (a + o(q))
      BY <1>2, <1>6, <2>1, <2>3, <2>4
    <3> QED BY <1>5, <1>6, <1>7, <1>9, <2>1, <2>2, <2>4, <3>1, <3>2
  <2>5. CASE p \notin W
    <3>1. Got(v, p) = Got(u, p) /\ Got(v, q) = Got(u, q)
      BY <1>2, <1>7, <2>1, <2>3, <2>5
    <3> QED BY <1>7, <1>9, <2>1, <2>2, <3>1
  <2> QED BY <2>4, <2>5
<1>13. K \in 0..MaxBet
  BY <1>0, <1>1
<1>14. Accounted(v, K)
  BY <1>11, <1>12 DEF Accounted
<1> QED BY <1>10, <1>13, <1>14 DEF AtLevel, K, tier

\* A call starts at the level 0.
LEMMA LevelZero ==
  ASSUME TypeOK, bet \in [Players -> 0..MaxBet]
  PROVE  AtLevel(LoopStart(bet), 0)
<1> DEFINE u == LoopStart(bet)
<1>0. bet \in [Players -> Nat] /\ MaxBet \in Nat /\ Scale \in Nat /\ Live \subseteq Players
  BY MaxBetAssumption, ScaleAssumption DEF TypeOK, Live
<1>1. \A p \in Players : u.rem[p] = Stake(p, 0) /\ Got(u, p) = 0
  BY <1>0 DEF LoopStart, Stake, Over, Got
<1>2. ASSUME NEW p \in Players PROVE Shares(p, 0) = 0 /\ Cardinality(Heights(p, 0)) \in Nat
  <2>1. IsFiniteSet({}) /\ 1..0 = {}
    BY FS_EmptySet
  <2> QED BY <2>1, SumUnfold, HeightsFinite DEF Shares
<1> HIDE DEF u
<1>3. \A p \in Players : Off(u, p, 0) = 0
  <2>1. Scale * 0 - 0 = 0
    BY <1>0
  <2> QED BY <1>1, <1>2, <2>1 DEF Off
<1>4. \A p \in Players : Scale * Cardinality(Heights(p, 0)) \in Nat
  BY <1>0, <1>2
<1>5. Accounted(u, 0)
  BY <1>0, <1>1, <1>2, <1>3, <1>4 DEF Accounted
<1> QED BY <1>0, <1>1, <1>5 DEF AtLevel, u

\* What no live player could match goes back where it came from.
LEMMA LevelEnd ==
  ASSUME TypeOK, bet \in [Players -> 0..MaxBet], NEW u \in LoopState, NEW L, AtLevel(u, L),
         Eligible(u, folded) = {}
  PROVE  Accounted(Swept(u), MaxBet)
<1> DEFINE v == Swept(u)
           D == MaxBet - L
<1>0. /\ bet \in [Players -> Nat] /\ MaxBet \in Nat /\ L \in 0..MaxBet /\ L \in Nat
      /\ Live = Players \ folded /\ Scale \in Nat /\ D \in Nat /\ MaxBet = L + D
      /\ \A p \in Players : u.rem[p] = Stake(p, L)
      /\ Accounted(u, L)
  BY MaxBetAssumption, ScaleAssumption DEF TypeOK, Live, AtLevel
<1> HIDE DEF D
<1>1. \A p \in Live : bet[p] <= L
  BY <1>0 DEF Eligible, Stake, Over
<1>2. \A p \in Players : Got(v, p) = Got(u, p) + Stake(p, L) /\ Got(u, p) \in Nat /\ Stake(p, L) \in Nat
  <2>1. v.won = u.won /\ v.returned = [p \in Players |-> u.returned[p] + u.rem[p]]
    BY DEF Swept, LoopState
  <2>2. /\ u.rem \in [Players -> Nat] /\ u.won \in [Players -> Nat] /\ u.returned \in [Players -> Nat]
    BY DEF LoopState
  <2> HIDE DEF v
  <2> SUFFICES ASSUME NEW p \in Players
               PROVE  Got(v, p) = Got(u, p) + Stake(p, L) /\ Got(u, p) \in Nat /\ Stake(p, L) \in Nat
    OBVIOUS
  <2>3. v.won[p] = u.won[p] /\ v.returned[p] = u.returned[p] + u.rem[p]
    BY <2>1
  <2>4. u.won[p] \in Nat /\ u.returned[p] \in Nat /\ u.rem[p] \in Nat /\ u.rem[p] = Stake(p, L)
    BY <1>0, <2>2
  <2> QED BY <2>3, <2>4 DEF Got
<1> HIDE DEF v
<1>3. ASSUME NEW p \in Players PROVE Heights(p, MaxBet) = Heights(p, L)
  BY <1>0, <1>1 DEF Heights
<1>4. ASSUME NEW k \in (L + 1)..(L + D) PROVE Contenders(k) = {}
  BY <1>0, <1>1 DEF Contenders, Contributors
<1>5. ASSUME NEW p \in Players PROVE Shares(p, MaxBet) = Shares(p, L) + Scale * Stake(p, L)
  <2> DEFINE f == ShareTable(p)
             b == [q \in {p} |-> bet[p]]
             g == [q \in {p} |-> Lesser(Over(b[q], L), D)]
  <2>1. \A k \in 1..(L + D) : f[k] \in Int
    BY <1>0, SharesType DEF ShareTable
  <2>2. ASSUME NEW k \in (L + 1)..(L + D) PROVE f[k] = Scale * Cardinality(Above({p}, b, k))
    <3>1. f[k] = IF bet[p] >= k THEN Scale ELSE 0
      BY <1>0, <1>4 DEF ShareTable, Share, Contributors
    <3>2. Above({p}, b, k) = IF bet[p] >= k THEN {p} ELSE {}
      BY DEF Above
    <3>3. Cardinality({p}) = 1 /\ Cardinality({}) = 0
      BY FS_Singleton, FS_EmptySet
    <3>4. Scale * 1 = Scale /\ Scale * 0 = 0
      BY <1>0
    <3> HIDE DEF f, b
    <3> QED BY <3>1, <3>2, <3>3, <3>4
  <2>3. IsFiniteSet({p}) /\ b \in [{p} -> Nat]
    BY <1>0, FS_Singleton
  <2>4. SumFunctionOnSet(g, {p}) = Stake(p, L)
    <3>1. g[p] = Stake(p, L) /\ Stake(p, L) \in Nat
      <4>1. bet[p] \in 0..MaxBet
        OBVIOUS
      <4> QED BY <1>0, <4>1 DEF Stake, Over, Lesser
    <3>2. \A q \in {p} : g[q] = Stake(p, L)
      BY <3>1
    <3>3. Cardinality({p}) = 1
      BY FS_Singleton
    <3>4. \A x \in Nat : x * 1 = x
      OBVIOUS
    <3> HIDE DEF g
    <3> QED BY <2>3, <3>1, <3>2, <3>3, <3>4, SumConst
  <2>5. Layered({p}, b, L, D, Scale, f, g)
    BY <2>1, <2>2 DEF Layered
  <2> HIDE DEF f, b, g
  <2>6. SumFunctionOnSet(f, 1..(L + D)) = SumFunctionOnSet(f, 1..L) + Scale * SumFunctionOnSet(g, {p})
    BY <1>0, <2>3, <2>5, LayerSum
  <2> QED BY <1>0, <2>4, <2>6 DEF Shares, f
<1>6. ASSUME NEW p \in Players PROVE Off(v, p, MaxBet) = Off(u, p, L)
  <2>1. Shares(p, L) \in Nat
    BY <1>0, SharesType
  <2>2. \A x, y, z \in Nat : Scale * (x + z) - (y + Scale * z) = Scale * x - y
    BY <1>0
  <2> QED BY <1>2, <1>5, <2>1, <2>2 DEF Off
<1>7. ASSUME NEW p \in Live PROVE Got(v, p) = Got(u, p)
  BY <1>0, <1>1, <1>2 DEF Stake, Over
<1>8. \A p \in Live : p \in Players
  BY <1>0
<1> QED BY <1>0, <1>3, <1>6, <1>7, <1>8 DEF Accounted, v

\* Accounted for up to the largest stake, the payouts are those of the definition by layers.
LEMMA AccountedMatches ==
  ASSUME TypeOK, bet \in [Players -> 0..MaxBet], Accounted(t, MaxBet), NEW p \in Players
  PROVE  LET off == Scale * Paid(p) - Exact(p)
         IN  /\ off = 0 \/ \E q \in Live \ {p} : rank[q] = rank[p]
             /\ off <= Scale * Tiers(p) /\ -off <= Scale * Tiers(p)
             /\ \A q \in Live : (p \in Live /\ bet[p] = bet[q] /\ rank[p] = rank[q] /\ dist[p] < dist[q])
                                   => Paid(p) - Paid(q) \in 0..Tiers(p)
<1>1. Exact(p) = Shares(p, MaxBet)
  BY DEF Exact, Shares, ShareTable, SumFunction
<1>2. \A q \in Players : Paid(q) = Got(t, q)
  BY DEF Paid, Got
<1>3. Heights(p, MaxBet) = {bet[q] : q \in {r \in Live : 0 < bet[r] /\ bet[r] <= bet[p]}}
  BY MaxBetAssumption DEF Heights, Live
<1>4. Tiers(p) = Cardinality(Heights(p, MaxBet))
  BY <1>3 DEF Tiers
<1>5. Live \subseteq Players
  BY DEF Live
<1> QED BY <1>1, <1>2, <1>4, <1>5 DEF Accounted, Off

\* The passes of the whole call, as Payout makes them.
Pass == [u \in LoopState |->
           IF LoopDone(u, folded) THEN u ELSE Tier(u, folded, rank, dist)]
Run == Iterates(Pass, LoopStart(bet), Passes)

\* Payout is what the passes of a call pay.
LEMMA PayoutRuns ==
  ASSUME TypeOK, ~LoopDone(LoopStart(bet), folded), Swept(Run[Passes]) \in LoopState, NEW p \in Players
  PROVE  Payout(bet, folded, rank, dist)[p] = Got(Swept(Run[Passes]), p)
<1> DEFINE Loop[k \in 0..Passes] == IF k = 0 THEN LoopStart(bet) ELSE Pass[Loop[k - 1]]
           P == [u \in LoopState |-> [q \in Players |-> u.won[q] + u.returned[q]]]
<1>1. Loop = Run
  <2> HIDE DEF Pass
  <2> QED BY DEF Run, Iterates
<1>2. Payout(bet, folded, rank, dist) =
        IF LoopDone(LoopStart(bet), folded) THEN [q \in Players |-> 0] ELSE P[Swept(Loop[Passes])]
  BY DEF Payout, Pass
<1> HIDE DEF Loop
<1> QED BY <1>1, <1>2 DEF Got

\* Every pass leaves at least one live player fewer.
LEMMA FewerEligible ==
  ASSUME TypeOK, NEW u \in LoopState, Eligible(u, folded) # {}, NEW v, Split(u, v)
  PROVE  /\ Cardinality(Eligible(u, folded)) \in Nat /\ Cardinality(Eligible(v, folded)) \in Nat
         /\ Cardinality(Eligible(v, folded)) < Cardinality(Eligible(u, folded))
<1> DEFINE E == Eligible(u, folded)
           F == Eligible(v, folded)
           tier == TierContribution(u, folded)
<1>1. PICK e \in E : u.rem[e] = tier
  BY TierContributionHeld
<1>2. /\ \A p \in Players : v.rem[p] = u.rem[p] - Lesser(u.rem[p], tier)
      /\ u.rem \in [Players -> Nat] /\ tier \in Nat \ {0} /\ e \in Players
  BY TierContributionType DEF Split, LoopState, Eligible
<1> HIDE DEF tier
<1>3. v.rem[e] = 0
  BY <1>1, <1>2 DEF Lesser
<1>4. F \subseteq E \ {e}
  BY <1>2, <1>3 DEF Eligible, Lesser
<1>5. E \subseteq Players
  BY DEF Eligible
<1> HIDE DEF E, F
<1>6. IsFiniteSet(E) /\ IsFiniteSet(E \ {e})
  BY <1>5, PlayersFinite, FS_Subset
<1>7. Cardinality(E \ {e}) = Cardinality(E) - 1 /\ Cardinality(E) \in Nat
  BY <1>1, <1>6, FS_RemoveElement, FS_CardinalityType
<1>8. Cardinality(F) <= Cardinality(E \ {e}) /\ Cardinality(F) \in Nat
  BY <1>4, <1>6, FS_Subset, FS_CardinalityType
<1> QED BY <1>7, <1>8 DEF E, F

\* The invariant of the layers.
LayInv ==
    /\ TypeOK
    /\ bet \in [Players -> 0..MaxBet]
    /\ ~LoopDone(LoopStart(bet), folded)
    /\ pc = "loop" =>
          /\ \E L \in 0..MaxBet : AtLevel(t, L)
          /\ \E j \in 0..Passes : /\ t = Run[j]
                                  /\ Cardinality(Eligible(t, folded)) <= Passes - j
    /\ pc = "sweep" =>
          /\ LoopDone(t, folded) /\ t = Run[Passes]
          /\ \E L \in 0..MaxBet : AtLevel(t, L)
    /\ pc = "done" =>
          /\ Accounted(t, MaxBet)
          /\ \A p \in Players : Paid(p) = Payout(bet, folded, rank, dist)[p]

\* The number of passes is a natural number.
LEMMA PassesNat == Passes \in Nat
BY PlayersFinite, FS_CardinalityType DEF Passes

\* A call starts in the invariant of the layers.
LEMMA LayersStart == Init => LayInv
<1> SUFFICES ASSUME Init PROVE LayInv
  OBVIOUS
<1>1. TypeOK
  BY PotInit DEF PotInv
<1>2. bet \in [Players -> 0..MaxBet] /\ t = LoopStart(bet) /\ pc = "loop"
  BY DEF Init
<1>3. ~LoopDone(LoopStart(bet), folded)
  BY DEF Init, LoopDone, LoopStart, Eligible
<1>4. AtLevel(t, 0) /\ 0 \in 0..MaxBet
  BY <1>1, <1>2, LevelZero, MaxBetAssumption
<1>5. t = Run[0] /\ 0 \in 0..Passes
  BY <1>2, PassesNat, Iterated DEF Run
<1>6. Cardinality(Eligible(t, folded)) <= Passes - 0
  <2>1. Eligible(t, folded) \subseteq Players
    BY DEF Eligible
  <2>2. Cardinality(Eligible(t, folded)) <= Cardinality(Players)
    BY <2>1, PlayersFinite, FS_Subset
  <2> QED BY <2>2, PassesNat DEF Passes
<1> QED BY <1>1, <1>2, <1>3, <1>4, <1>5, <1>6 DEF LayInv

\* One pass, of either kind.
LEMMA PassSplits ==
  ASSUME TypeOK, ContestTier \/ SettleLoneTier
  PROVE  /\ pc = "loop" /\ UNCHANGED <<bet, folded, rank, pc>>
         /\ Eligible(t, folded) # {} /\ Split(t, t') /\ t' = Tier(t, folded, rank, dist)
<1>1. CASE ContestTier
  <2>1. /\ pc = "loop" /\ UNCHANGED <<bet, folded, rank, pc>> /\ Eligible(t, folded) # {}
        /\ t' = ContestedTier(t, folded, rank, dist)
        /\ Cardinality(Eligible(t, folded)) > 1 \/ t.pots = 0
    BY <1>1 DEF ContestTier, LoopDone
  <2>2. Split(t, t')
    BY <2>1, ContestedSplits DEF TypeOK
  <2>3. ~(Cardinality(Eligible(t, folded)) = 1 /\ t.pots > 0)
    BY <2>1
  <2> QED BY <2>1, <2>2, <2>3 DEF Tier
<1>2. CASE SettleLoneTier
  <2>1. PICK p \in Players : Eligible(t, folded) = {p} /\ t' = LoneTier(t, p)
    BY <1>2 DEF SettleLoneTier
  <2>2. pc = "loop" /\ UNCHANGED <<bet, folded, rank, pc>> /\ t.pots > 0
    BY <1>2 DEF SettleLoneTier
  <2>3. Split(t, t')
    BY <2>1, LoneSplits DEF TypeOK
  <2>4. Cardinality(Eligible(t, folded)) = 1 /\ (CHOOSE x \in Eligible(t, folded) : TRUE) = p
    BY <2>1, FS_Singleton
  <2> QED BY <2>1, <2>2, <2>3, <2>4 DEF Tier
<1> QED BY <1>1, <1>2

\* While the bets, the folds and the ranks stand, what a level asks is the same.
LEMMA SameLevels ==
  ASSUME UNCHANGED <<bet, folded, rank>>, NEW L
  PROVE  /\ AtLevel(t, L)' <=> AtLevel(t', L)
         /\ Accounted(t, L)' <=> Accounted(t', L)
<1>1. Live' = Live
  BY DEF Live
<1>2. ASSUME NEW p
      PROVE  /\ Shares(p, L)' = Shares(p, L)
             /\ Heights(p, L)' = Heights(p, L)
             /\ Stake(p, L)' = Stake(p, L)
             /\ Got(t, p)' = Got(t', p)
  <2>1. ShareTable(p)' = ShareTable(p)
    <3>1. \A k : Contributors(k)' = Contributors(k) /\ Contenders(k)' = Contenders(k)
      BY <1>1 DEF Contributors, Contenders
    <3>2. \A k : Share(p, k)' = Share(p, k)
      BY <3>1 DEF Share
    <3> QED BY <3>2 DEF ShareTable
  <2>2. Heights(p, L)' = Heights(p, L)
    BY <1>1 DEF Heights
  <2> QED BY <2>1, <2>2 DEF Shares, Stake, Got
<1>3. \A p : Off(t, p, L)' = Off(t', p, L)
  BY <1>2 DEF Off
<1>4. Accounted(t, L)' <=> Accounted(t', L)
  BY <1>1, <1>2, <1>3 DEF Accounted
<1> QED BY <1>2, <1>4 DEF AtLevel

\* Every step of the call keeps the invariant of the layers.
LEMMA LayersStep == PotInv /\ LayInv /\ [Next]_vars => LayInv'
<1> SUFFICES ASSUME PotInv, LayInv, [Next]_vars PROVE LayInv'
  OBVIOUS
<1>0. TypeOK /\ TypeOK' /\ t \in LoopState /\ t' \in LoopState
  BY PotNext DEF PotInv, TypeOK
<1>1. CASE ContestTier \/ SettleLoneTier
  <2>1. /\ pc = "loop" /\ UNCHANGED <<bet, folded, rank, pc>>
        /\ Eligible(t, folded) # {} /\ Split(t, t') /\ t' = Tier(t, folded, rank, dist)
    BY <1>0, <1>1, PassSplits
  <2>2. PICK L \in 0..MaxBet : AtLevel(t, L)
    BY <2>1 DEF LayInv
  <2>3. bet \in [Players -> 0..MaxBet]
    BY DEF LayInv
  <2>4. AtLevel(t', L + TierContribution(t, folded))
    BY <1>0, <2>1, <2>2, <2>3, LevelUp
  <2>5. PICK K \in 0..MaxBet : AtLevel(t', K)
    BY <2>4 DEF AtLevel
  <2>6. AtLevel(t, K)'
    BY <2>1, <2>5, SameLevels
  <2>7. PICK j \in 0..Passes : t = Run[j] /\ Cardinality(Eligible(t, folded)) <= Passes - j
    BY <2>1 DEF LayInv
  <2>8. Cardinality(Eligible(t', folded)) < Cardinality(Eligible(t, folded))
        /\ Cardinality(Eligible(t', folded)) \in Nat /\ Cardinality(Eligible(t, folded)) \in Nat
    BY <1>0, <2>1, FewerEligible
  <2>9. j + 1 \in 0..Passes /\ Cardinality(Eligible(t', folded)) <= Passes - (j + 1)
    BY <2>7, <2>8, PassesNat
  <2>10. t' = Run[j + 1]
    <3>1. Run[j + 1] = Pass[Run[j]]
      BY <2>9, PassesNat, Iterated DEF Run
    <3>2. Pass[t] = t'
      BY <1>0, <2>1 DEF Pass, LoopDone
    <3> QED BY <2>7, <3>1, <3>2
  <2>11. Run' = Run
    BY <2>1 DEF Run, Pass
  <2>12. \E k \in 0..MaxBet : AtLevel(t, k)'
    BY <2>5, <2>6
  <2>13. \E k \in 0..Passes : t' = Run'[k] /\ Cardinality(Eligible(t', folded')) <= Passes - k
    BY <2>1, <2>9, <2>10, <2>11
  <2>14. ~LoopDone(LoopStart(bet), folded) /\ UNCHANGED <<bet, folded>>
    BY <2>1 DEF LayInv
  <2> QED BY <1>0, <2>1, <2>3, <2>12, <2>13, <2>14 DEF LayInv
<1>2. CASE LeaveLoop
  <2>1. pc = "loop" /\ LoopDone(t, folded) /\ pc' = "sweep" /\ UNCHANGED <<bet, folded, rank, t>>
    BY <1>2 DEF LeaveLoop
  <2>2. PICK j \in 0..Passes : t = Run[j]
    BY <2>1 DEF LayInv
  <2>3. Pass[t] = t
    BY <1>0, <2>1 DEF Pass
  <2>4. t = Run[Passes]
    BY <2>2, <2>3, PassesNat, Settled DEF Run
  <2>5. Run' = Run
    BY <2>1 DEF Run, Pass
  <2>6. \A L : AtLevel(t, L)' = AtLevel(t, L)
    BY <2>1 DEF AtLevel, Accounted, Off, Shares, ShareTable, Share, Contenders, Contributors,
       Live, Heights, Stake, Got
  <2> QED BY <1>0, <2>1, <2>4, <2>5, <2>6 DEF LayInv
<1>3. CASE Sweep
  <2>1. pc = "sweep" /\ t' = Swept(t) /\ pc' = "done" /\ UNCHANGED <<bet, folded, rank>>
    BY <1>3 DEF Sweep
  <2>2. LoopDone(t, folded) /\ t = Run[Passes] /\ bet \in [Players -> 0..MaxBet]
        /\ ~LoopDone(LoopStart(bet), folded)
    BY <2>1 DEF LayInv
  <2>3. PICK L \in 0..MaxBet : AtLevel(t, L)
    BY <2>1 DEF LayInv
  <2>4. Accounted(t', MaxBet)
    BY <1>0, <2>1, <2>2, <2>3, LevelEnd DEF LoopDone
  <2>5. Accounted(t, MaxBet)'
    BY <2>1, <2>4, SameLevels
  <2>6. \A p \in Players : Got(t', p) = Payout(bet, folded, rank, dist)[p]
    BY <1>0, <2>1, <2>2, PayoutRuns
  <2>7. \A p \in Players : Paid(p)' = Payout(bet, folded, rank, dist)'[p]
    BY <2>1, <2>6 DEF Paid, Got
  <2> QED BY <1>0, <2>1, <2>2, <2>5, <2>7 DEF LayInv
<1>4. CASE UNCHANGED vars
  <2>1. UNCHANGED <<bet, folded, rank, t, pc>>
    BY <1>4 DEF vars
  <2>2. \A L : AtLevel(t, L)' = AtLevel(t, L)
    BY <2>1 DEF AtLevel, Accounted, Off, Shares, ShareTable, Share, Contenders, Contributors,
       Live, Heights, Stake, Got
  <2>3. Accounted(t, MaxBet)' = Accounted(t, MaxBet) /\ Run' = Run
    BY <2>1 DEF Accounted, Off, Shares, ShareTable, Share, Contenders, Contributors,
       Live, Heights, Got, Run, Pass
  <2>4. \A p \in Players : Paid(p)' = Paid(p) /\ Payout(bet, folded, rank, dist)' = Payout(bet, folded, rank, dist)
    BY <2>1 DEF Paid
  <2> QED BY <1>0, <2>1, <2>2, <2>3, <2>4 DEF LayInv
<1> QED BY <1>1, <1>2, <1>3, <1>4 DEF Next

\* Whatever the contributions, the folds and the ranks, the payouts of the loop are those of
\* the definition by layers, to a chip for each tier a player takes part in and only where
\* another live player ties with him; and they are the payouts of the operator Payout that
\* the hand engine uses.
THEOREM PotMatchesLayers == Spec => []MatchesLayers
<1>1. LayInv => MatchesLayers
  BY AccountedMatches DEF LayInv, MatchesLayers
<1> QED BY <1>1, PotInit, PotNext, LayersStart, LayersStep, PTL DEF Spec

\* Of two players who tie with the same stake, the one nearer to the left of the dealer is
\* paid as much, and at most one chip more for each tier.
THEOREM PotOddChips == Spec => []OddChipsLeftOfDealer
<1>1. LayInv => OddChipsLeftOfDealer
  <2>1. Live \subseteq Players
    BY DEF Live
  <2> QED BY <2>1, AccountedMatches DEF LayInv, OddChipsLeftOfDealer
<1> QED BY <1>1, PotInit, PotNext, LayersStart, LayersStep, PTL DEF Spec
=============================================================================
