--------------------------- MODULE SidePotTheorems ---------------------------
(***************************************************************************)
(* Facts about the operators of SidePots, for every set of players: one    *)
(* pass of determine_winner's loop keeps the types and every chip of the   *)
(* pot, and so does the whole call.                                        *)
(***************************************************************************)
EXTENDS SidePots, SumTheorems

\* The sum over a function on the players is the sum over the players.
LEMMA TotalIsSum ==
  ASSUME NEW f, DOMAIN f = Players
  PROVE  SumFunction(f) = SumFunctionOnSet(f, Players)
BY DEF SumFunction

\* A total of naturals is a natural.
LEMMA TotalNat ==
  ASSUME NEW f \in [Players -> Nat]
  PROVE  SumFunction(f) \in Nat
<1>1. \A p \in Players : f[p] \in Nat
  OBVIOUS
<1> QED BY <1>1, SumNat, TotalIsSum, PlayersFinite

\* One player's share of a total changes the total by the difference.
LEMMA TotalChange ==
  ASSUME NEW f \in [Players -> Nat], NEW g \in [Players -> Nat], NEW p \in Players,
         \A q \in Players \ {p} : g[q] = f[q]
  PROVE  SumFunction(g) = SumFunction(f) + (g[p] - f[p])
<1>1. \A q \in Players : f[q] \in Int /\ g[q] \in Int
  OBVIOUS
<1>2. SumFunctionOnSet(g, Players) = SumFunctionOnSet(f, Players) + (g[p] - f[p])
  BY <1>1, PlayersFinite, SumChange
<1> QED BY <1>2, TotalIsSum

\* Somebody has the best of a non-empty set of hands.
LEMMA TierWinnersSome ==
  ASSUME NEW E \in SUBSET Players, E # {}, NEW rank, \A p \in E : rank[p] \in Nat
  PROVE  TierWinners(E, rank) \in SUBSET E /\ TierWinners(E, rank) # {}
<1> DEFINE R == {rank[p] : p \in E}
<1>1. R \in SUBSET Nat /\ R # {}
  OBVIOUS
<1> HIDE DEF R
<1>2. Min(R) \in R /\ \A x \in R : Min(R) <= x
  BY <1>1, NatMin
<1>3. PICK p \in E : rank[p] = Min(R)
  BY <1>2 DEF R
<1>4. p \in TierWinners(E, rank)
  BY <1>2, <1>3 DEF R, TierWinners
<1> QED BY <1>4 DEF TierWinners

\* The odd chips handed out are exactly the odd chips there are: the winners
\* stand at different distances from the dealer, so counting for each the
\* winners that come before numbers them 0, 1, 2, ...
LEMMA OddChipsDealt ==
  ASSUME NEW W \in SUBSET Players, NEW dist \in [Players -> Nat],
         \A p, q \in Players : dist[p] = dist[q] => p = q,
         NEW odd \in 0..Cardinality(W),
         NEW f, \A p \in W : f[p] = OddChip(p, W, odd, dist)
  PROVE  SumFunctionOnSet(f, W) = odd
<1> DEFINE n == Cardinality(W)
           Before(p) == {q \in W : dist[q] < dist[p]}
           r == [p \in W |-> Cardinality(Before(p))]
           L == {p \in W : r[p] < odd}
<1>1. IsFiniteSet(W) /\ n \in Nat
  BY PlayersFinite, FS_Subset, FS_CardinalityType
<1>2. \A p \in W : /\ IsFiniteSet(Before(p)) /\ Cardinality(Before(p)) \in Nat
                   /\ Cardinality(Before(p)) < n
  <2> SUFFICES ASSUME NEW p \in W
               PROVE  /\ IsFiniteSet(Before(p)) /\ Cardinality(Before(p)) \in Nat
                      /\ Cardinality(Before(p)) < n
    OBVIOUS
  <2>1. Before(p) \in SUBSET W /\ p \notin Before(p)
    OBVIOUS
  <2>2. Before(p) # W
    BY <2>1
  <2> HIDE DEF Before
  <2>3. /\ IsFiniteSet(Before(p)) /\ Cardinality(Before(p)) <= Cardinality(W)
        /\ Cardinality(W) = Cardinality(Before(p)) => W = Before(p)
    BY <1>1, <2>1, FS_Subset
  <2>4. Cardinality(Before(p)) \in Nat
    BY <2>3, FS_CardinalityType
  <2> QED BY <1>1, <2>2, <2>3, <2>4
<1>3. \A p, q \in W : dist[p] < dist[q] => Cardinality(Before(p)) < Cardinality(Before(q))
  <2> SUFFICES ASSUME NEW p \in W, NEW q \in W, dist[p] < dist[q]
               PROVE  Cardinality(Before(p)) < Cardinality(Before(q))
    OBVIOUS
  <2>1. Before(p) \in SUBSET Before(q) /\ p \in Before(q) /\ p \notin Before(p)
    OBVIOUS
  <2>2. Before(p) # Before(q)
    BY <2>1
  <2> HIDE DEF Before
  <2>3. IsFiniteSet(Before(q)) /\ Cardinality(Before(q)) \in Nat /\ Cardinality(Before(p)) \in Nat
    BY <1>2
  <2>4. /\ Cardinality(Before(p)) <= Cardinality(Before(q))
        /\ Cardinality(Before(q)) = Cardinality(Before(p)) => Before(q) = Before(p)
    BY <2>1, <2>3, FS_Subset
  <2> QED BY <2>2, <2>3, <2>4
<1> HIDE DEF Before
<1>4. r \in Injection(W, 0..(n - 1))
  <2>1. r \in [W -> 0..(n - 1)]
    BY <1>1, <1>2
  <2>2. \A p, q \in W : r[p] = r[q] => p = q
    <3> SUFFICES ASSUME NEW p \in W, NEW q \in W, p # q PROVE r[p] # r[q]
      OBVIOUS
    <3>1. dist[p] < dist[q] \/ dist[q] < dist[p]
      BY SMT
    <3> QED BY <1>2, <1>3, <3>1
  <2> QED BY <2>1, <2>2 DEF Injection, IsInjective
<1>5. IsFiniteSet(0..(n - 1)) /\ Cardinality(0..(n - 1)) = n
  <2> HIDE DEF n
  <2>1. n - 1 \in Int
    BY <1>1
  <2>2. /\ IsFiniteSet(0..(n - 1))
        /\ Cardinality(0..(n - 1)) = IF 0 > n - 1 THEN 0 ELSE (n - 1) - 0 + 1
    BY <2>1, FS_Interval
  <2> QED BY <1>1, <2>2
<1>6. r \in Surjection(W, 0..(n - 1))
  BY <1>4, <1>5, FS_Injection
<1>7. ExistsBijection(L, 0..(odd - 1))
  <2> DEFINE g == [p \in L |-> r[p]]
  <2>1. g \in [L -> 0..(odd - 1)]
    BY <1>1, <1>4 DEF Injection
  <2>2. \A p, q \in L : g[p] = g[q] => p = q
    BY <1>4 DEF Injection, IsInjective
  <2>3. \A k \in 0..(odd - 1) : \E p \in L : g[p] = k
    <3> SUFFICES ASSUME NEW k \in 0..(odd - 1) PROVE \E p \in L : g[p] = k
      OBVIOUS
    <3>1. k \in 0..(n - 1) /\ k < odd
      BY <1>1
    <3>2. PICK p \in W : r[p] = k
      BY <1>6, <3>1 DEF Surjection
    <3> HIDE DEF r
    <3>3. p \in L
      BY <3>1, <3>2
    <3> QED BY <3>2, <3>3
  <2> HIDE DEF g, L
  <2>4. g \in Bijection(L, 0..(odd - 1))
    BY <2>1, <2>2, <2>3 DEF Bijection, Injection, Surjection, IsInjective
  <2> QED BY <2>4 DEF ExistsBijection
<1>8. IsFiniteSet(L) /\ Cardinality(L) = odd
  <2>1. L \in SUBSET W
    OBVIOUS
  <2> HIDE DEF L
  <2>2. IsFiniteSet(L)
    BY <1>1, <2>1, FS_Subset
  <2>3. Cardinality(0..(odd - 1)) = Cardinality(L)
    BY <1>7, <2>2, FS_Bijection
  <2>4. Cardinality(0..(odd - 1)) = odd
    BY <1>1, FS_Interval
  <2> QED BY <2>2, <2>3, <2>4
<1>9. \A p \in W : f[p] = IF p \in L THEN 1 ELSE 0
  BY DEF OddChip, Before
<1>10. L \in SUBSET W
  OBVIOUS
<1> HIDE DEF L
<1>11. SumFunctionOnSet(f, W) = SumFunctionOnSet(f, L)
  <2>1. /\ \A p \in W : f[p] \in Int
        /\ \A p \in W \ L : f[p] = 0
    BY <1>9
  <2> QED BY <1>1, <1>10, <2>1, SumSupport
<1>12. SumFunctionOnSet(f, L) = 1 * Cardinality(L)
  <2>1. \A p \in L : f[p] = 1
    BY <1>9, <1>10
  <2> QED BY <1>8, <2>1, SumConst
<1> QED BY <1>8, <1>11, <1>12

\* Quotient and remainder.
LEMMA DivMod ==
  ASSUME NEW a \in Nat, NEW b \in Nat \ {0}
  PROVE  /\ a \div b \in Nat /\ a % b \in 0..(b - 1)
         /\ a = ((a \div b) * b) + (a % b)
OBVIOUS

\* The tier is as high as the smallest stake still in the hand, above zero.
LEMMA TierContributionType ==
  ASSUME NEW t \in LoopState, NEW folded, Eligible(t, folded) # {}
  PROVE  /\ TierContribution(t, folded) \in Nat \ {0}
         /\ \A p \in Eligible(t, folded) : TierContribution(t, folded) <= t.rem[p]
<1> DEFINE R == {t.rem[p] : p \in Eligible(t, folded)}
<1>1. R \in SUBSET Nat /\ R # {} /\ 0 \notin R
  BY DEF LoopState, Eligible
<1>2. TierContribution(t, folded) = Min(R)
  BY DEF TierContribution
<1>3. \A p \in Eligible(t, folded) : t.rem[p] \in R
  OBVIOUS
<1> HIDE DEF R
<1>4. Min(R) \in R /\ \A x \in R : Min(R) <= x
  BY <1>1, NatMin
<1> QED BY <1>1, <1>2, <1>3, <1>4

\* What a tier takes from the contributions leaves naturals behind.
LEMMA TakenType ==
  ASSUME NEW t \in LoopState, NEW tier \in Nat
  PROVE  /\ Taken(t, tier) \in [Players -> Nat]
         /\ \A p \in Players : Taken(t, tier)[p] <= t.rem[p]
BY DEF LoopState, Taken, Lesser

\* A pass over a contested tier keeps the types and every chip.
LEMMA ContestedTierKeeps ==
  ASSUME NEW t \in LoopState, NEW folded, Eligible(t, folded) # {},
         NEW rank, \A p \in Players \ folded : rank[p] \in Nat,
         NEW dist \in [Players -> Nat],
         \A p, q \in Players : dist[p] = dist[q] => p = q
  PROVE  /\ ContestedTier(t, folded, rank, dist) \in LoopState
         /\ Chips(ContestedTier(t, folded, rank, dist)) = Chips(t)
<1> DEFINE E     == Eligible(t, folded)
           tier  == TierContribution(t, folded)
           taken == Taken(t, tier)
           pot   == SumFunction(taken)
           W     == TierWinners(E, rank)
           n     == Cardinality(W)
           share == pot \div n
           odd   == pot % n
           rem   == [p \in Players |-> t.rem[p] - taken[p]]
           gain  == [p \in Players |->
                       IF p \in W THEN share + OddChip(p, W, odd, dist) ELSE 0]
           won   == [p \in Players |-> IF p \in W
                                      THEN t.won[p] + share + OddChip(p, W, odd, dist)
                                      ELSE t.won[p]]
           u     == ContestedTier(t, folded, rank, dist)
<1>1. /\ t.rem \in [Players -> Nat] /\ t.won \in [Players -> Nat]
      /\ t.returned \in [Players -> Nat] /\ t.pots \in Nat
  BY DEF LoopState
<1>2. u = [t EXCEPT !.rem = rem, !.won = won, !.pots = t.pots + 1]
  BY DEF ContestedTier
<1>3. tier \in Nat
  BY TierContributionType
<1>4. taken \in [Players -> Nat] /\ \A p \in Players : taken[p] <= t.rem[p]
  BY <1>3, TakenType
<1>5. W \in SUBSET Players /\ W # {}
  <2>1. E \in SUBSET Players /\ \A p \in E : rank[p] \in Nat
    BY DEF Eligible
  <2> QED BY <2>1, TierWinnersSome
<1> HIDE DEF E, tier, taken, W, u
<1>6. pot \in Nat
  BY <1>4, TotalNat
<1>7. IsFiniteSet(W) /\ n \in Nat \ {0}
  BY <1>5, PlayersFinite, FS_Subset, FS_CardinalityType, FS_EmptySet
<1> HIDE DEF pot, n
<1>8. share \in Nat /\ odd \in 0..(n - 1) /\ pot = share * n + odd
  BY <1>6, <1>7, DivMod
<1> HIDE DEF share, odd
<1>9. \A p \in Players : OddChip(p, W, odd, dist) \in {0, 1}
  BY DEF OddChip
<1>10. rem \in [Players -> Nat] /\ won \in [Players -> Nat] /\ gain \in [Players -> Nat]
  BY <1>1, <1>4, <1>8, <1>9
<1>11. u \in LoopState
  <2>1. u = [rem |-> rem, won |-> won, returned |-> t.returned, pots |-> t.pots + 1]
    BY <1>2 DEF LoopState
  <2> HIDE DEF rem, won
  <2> QED BY <1>1, <1>10, <2>1 DEF LoopState
<1>12. u.rem = rem /\ u.won = won /\ u.returned = t.returned
  BY <1>2 DEF LoopState
<1>13. SumFunction(t.rem) = SumFunction(rem) + pot
  <2>1. \A p \in Players : rem[p] \in Int /\ taken[p] \in Int /\ t.rem[p] = rem[p] + taken[p]
    BY <1>1, <1>4
  <2>2. DOMAIN rem = Players /\ DOMAIN taken = Players /\ DOMAIN t.rem = Players
    BY <1>1, <1>4
  <2> HIDE DEF rem
  <2> QED BY <2>1, <2>2, PlayersFinite, SumAdd, TotalIsSum DEF pot
<1>14. SumFunction(gain) = pot
  <2> DEFINE even == [p \in W |-> share]
             chip == [p \in W |-> OddChip(p, W, odd, dist)]
  <2>1. SumFunction(gain) = SumFunctionOnSet(gain, W)
    <3>1. /\ DOMAIN gain = Players
          /\ \A p \in Players : gain[p] \in Int
          /\ \A p \in Players \ W : gain[p] = 0
      BY <1>10
    <3> HIDE DEF gain
    <3> QED BY <1>5, <3>1, PlayersFinite, SumSupport, TotalIsSum
  <2>2. SumFunctionOnSet(gain, W) = SumFunctionOnSet(even, W) + SumFunctionOnSet(chip, W)
    <3>1. \A p \in W : even[p] \in Int /\ chip[p] \in Int /\ gain[p] = even[p] + chip[p]
      BY <1>5, <1>8, <1>9
    <3> HIDE DEF gain, even, chip
    <3> QED BY <1>7, <3>1, SumAdd
  <2>3. SumFunctionOnSet(even, W) = share * n
    <3>1. \A p \in W : even[p] = share
      OBVIOUS
    <3> HIDE DEF even
    <3> QED BY <1>7, <1>8, <3>1, SumConst DEF n
  <2>4. SumFunctionOnSet(chip, W) = odd
    <3>1. odd \in 0..Cardinality(W)
      BY <1>7, <1>8 DEF n
    <3>2. \A p \in W : chip[p] = OddChip(p, W, odd, dist)
      OBVIOUS
    <3> HIDE DEF chip
    <3> QED BY <1>5, <3>1, <3>2, OddChipsDealt
  <2> QED BY <1>8, <2>1, <2>2, <2>3, <2>4
<1>15. SumFunction(won) = SumFunction(t.won) + pot
  <2>1. \A p \in Players : t.won[p] \in Int /\ gain[p] \in Int /\ won[p] = t.won[p] + gain[p]
    BY <1>1, <1>8, <1>9
  <2>2. DOMAIN won = Players /\ DOMAIN gain = Players /\ DOMAIN t.won = Players
    BY <1>1
  <2> HIDE DEF won, gain
  <2> QED BY <1>14, <2>1, <2>2, PlayersFinite, SumAdd, TotalIsSum
<1>16. /\ SumFunction(rem) \in Nat /\ SumFunction(t.won) \in Nat
       /\ SumFunction(t.returned) \in Nat
  <2> HIDE DEF rem
  <2> QED BY <1>1, <1>10, TotalNat
<1>17. Chips(u) = SumFunction(rem) + (SumFunction(t.won) + pot) + SumFunction(t.returned)
  BY <1>12, <1>15 DEF Chips
<1>18. Chips(t) = (SumFunction(rem) + pot) + SumFunction(t.won) + SumFunction(t.returned)
  BY <1>13 DEF Chips
<1>19. Chips(u) = Chips(t)
  <2>1. \A a, b, c, d \in Nat : a + (b + c) + d = (a + c) + b + d
    OBVIOUS
  <2> QED BY <1>6, <1>16, <1>17, <1>18, <2>1
<1> QED BY <1>11, <1>19 DEF u

\* A pass over a tier only p can reach keeps the types and every chip.
LEMMA LoneTierKeeps ==
  ASSUME NEW t \in LoopState, NEW p \in Players
  PROVE  LoneTier(t, p) \in LoopState /\ Chips(LoneTier(t, p)) = Chips(t)
<1> DEFINE mine  == t.rem[p]
           dead  == {q \in Players \ {p} : t.rem[q] > 0}
           taken == [q \in dead |-> Lesser(t.rem[q], mine)]
           cover == IF dead = {} THEN 0 ELSE Max({taken[q] : q \in dead})
           total == SumFunction(taken)
           prize == IF dead = {} THEN 0 ELSE cover + total
           rem   == [q \in Players |-> CASE q = p      -> 0
                                         [] q \in dead -> t.rem[q] - taken[q]
                                         [] OTHER      -> t.rem[q]]
           won   == [t.won EXCEPT ![p] = @ + prize]
           returned == [t.returned EXCEPT ![p] = @ + (mine - cover)]
           pots  == IF dead = {} THEN t.pots ELSE t.pots + 1
           u     == [rem |-> rem, won |-> won, returned |-> returned, pots |-> pots]
           loss  == [q \in Players |-> IF q \in dead THEN taken[q] ELSE 0]
           gone  == [loss EXCEPT ![p] = mine]
<1>1. /\ t.rem \in [Players -> Nat] /\ t.won \in [Players -> Nat]
      /\ t.returned \in [Players -> Nat] /\ t.pots \in Nat
  BY DEF LoopState
<1>2. LoneTier(t, p) = u
  <2>1. LoneTier(t, p) = [t EXCEPT !.rem = rem, !.won = won, !.returned = returned,
                                   !.pots = pots]
    BY Zenon DEF LoneTier
  <2> HIDE DEF rem, won, returned, pots
  <2> QED BY <2>1 DEF LoopState
<1>3. \A q \in dead : taken[q] \in Nat /\ taken[q] <= mine /\ taken[q] <= t.rem[q]
  BY <1>1 DEF Lesser
<1>4. cover \in Nat /\ cover <= mine
  <2>1. CASE dead = {}
    BY <1>1, <2>1
  <2>2. CASE dead # {}
    <3> DEFINE T == {taken[q] : q \in dead}
    <3>1. T \in SUBSET Nat /\ T # {} /\ \A x \in T : x <= mine
      <4> HIDE DEF dead, taken, mine
      <4> QED BY <1>3, <2>2
    <3>2. IsFiniteSet(T)
      <4> HIDE DEF T, mine
      <4>1. mine \in Nat
        BY <1>1 DEF mine
      <4> QED BY <3>1, <4>1, FS_BoundedSetOfNaturals
    <3> HIDE DEF T
    <3>3. Max(T) \in T
      BY <3>1, <3>2, NatMax
    <3>4. cover = Max(T)
      BY <2>2 DEF T
    <3> HIDE DEF cover, mine
    <3> QED BY <3>1, <3>3, <3>4
  <2> QED BY <2>1, <2>2
<1>5. dead \in SUBSET Players /\ p \notin dead /\ IsFiniteSet(dead)
  <2>1. dead \in SUBSET Players /\ p \notin dead
    OBVIOUS
  <2> HIDE DEF dead
  <2> QED BY <2>1, PlayersFinite, FS_Subset
<1>6. total \in Nat /\ total = SumFunctionOnSet(taken, dead)
  <2>1. DOMAIN taken = dead
    OBVIOUS
  <2> HIDE DEF taken, dead
  <2>2. SumFunction(taken) = SumFunctionOnSet(taken, dead)
    BY <2>1 DEF SumFunction
  <2> QED BY <1>3, <1>5, <2>2, SumNat
<1>7. loss \in [Players -> Nat] /\ gone \in [Players -> Nat]
  <2> HIDE DEF taken, dead
  <2> QED BY <1>1, <1>3
<1>8. SumFunctionOnSet(loss, Players) = total
  <2>1. /\ \A q \in Players : loss[q] \in Int
        /\ \A q \in Players \ dead : loss[q] = 0
        /\ \A q \in dead : taken[q] \in Int /\ loss[q] = taken[q]
    <3> HIDE DEF taken, dead
    <3> QED BY <1>3, <1>5
  <2> HIDE DEF loss, taken, dead
  <2>2. SumFunctionOnSet(loss, Players) = SumFunctionOnSet(loss, dead)
    BY <1>5, <2>1, PlayersFinite, SumSupport
  <2>3. SumFunctionOnSet(loss, dead) = SumFunctionOnSet(taken, dead)
    BY <1>5, <2>1, SumCong
  <2> QED BY <1>6, <2>2, <2>3
<1>9. SumFunctionOnSet(gone, Players) = total + mine
  <2>1. \A q \in Players \ {p} : gone[q] = loss[q]
    <3> HIDE DEF taken
    <3> QED BY <1>1, <1>5, <1>7
  <2>2. gone[p] - loss[p] = mine
    BY <1>1, <1>5
  <2> HIDE DEF loss, gone
  <2>3. SumFunction(gone) = SumFunction(loss) + (gone[p] - loss[p])
    BY <1>7, <2>1, TotalChange
  <2>4. DOMAIN gone = Players /\ DOMAIN loss = Players
    BY <1>7
  <2> QED BY <1>8, <2>2, <2>3, <2>4, TotalIsSum
<1>10. /\ rem \in [Players -> Nat]
       /\ \A q \in Players : t.rem[q] = rem[q] + gone[q]
  <2> HIDE DEF taken, dead
  <2>1. ASSUME NEW q \in Players PROVE rem[q] \in Nat /\ t.rem[q] = rem[q] + gone[q]
    <3>1. CASE q = p
      BY <1>1, <1>5, <3>1
    <3>2. CASE q # p /\ q \in dead
      BY <1>1, <1>3, <3>2
    <3>3. CASE q # p /\ q \notin dead
      BY <1>1, <3>3
    <3> QED BY <3>1, <3>2, <3>3
  <2> QED BY <2>1
<1>11. SumFunction(t.rem) = SumFunction(rem) + (total + mine)
  <2>1. /\ DOMAIN rem = Players /\ DOMAIN t.rem = Players
        /\ \A q \in Players : rem[q] \in Int /\ gone[q] \in Int
    <3> HIDE DEF rem, gone
    <3> QED BY <1>1, <1>7, <1>10
  <2> HIDE DEF rem, gone, total, mine
  <2>2. SumFunctionOnSet(t.rem, Players)
          = SumFunctionOnSet(rem, Players) + SumFunctionOnSet(gone, Players)
    BY <1>10, <2>1, PlayersFinite, SumAdd
  <2> QED BY <1>9, <2>1, <2>2, TotalIsSum
<1>12. prize \in Nat /\ mine - cover \in Nat /\ mine \in Nat
  <2> HIDE DEF total, cover
  <2> QED BY <1>1, <1>4, <1>6
<1>13. /\ won \in [Players -> Nat] /\ returned \in [Players -> Nat]
       /\ SumFunction(won) = SumFunction(t.won) + prize
       /\ SumFunction(returned) = SumFunction(t.returned) + (mine - cover)
  <2> HIDE DEF prize, mine, cover
  <2>1. ASSUME NEW f \in [Players -> Nat], NEW v \in Nat
        PROVE  /\ [f EXCEPT ![p] = @ + v] \in [Players -> Nat]
               /\ SumFunction([f EXCEPT ![p] = @ + v]) = SumFunction(f) + v
    <3> DEFINE g == [f EXCEPT ![p] = @ + v]
    <3>1. /\ g \in [Players -> Nat] /\ DOMAIN g = Players /\ DOMAIN f = Players
          /\ \A q \in Players : f[q] \in Int /\ g[q] \in Int
          /\ \A q \in Players \ {p} : g[q] = f[q]
          /\ g[p] - f[p] = v
      OBVIOUS
    <3> HIDE DEF g
    <3>2. SumFunctionOnSet(g, Players) = SumFunctionOnSet(f, Players) + (g[p] - f[p])
      BY <3>1, PlayersFinite, SumChange
    <3> QED BY <3>1, <3>2, TotalIsSum DEF g
  <2> QED BY <1>1, <1>12, <2>1
<1>14. prize + (mine - cover) = total + mine
  <2>1. CASE dead = {}
    <3>1. total = 0
      <4> HIDE DEF taken, dead
      <4> QED BY <1>6, <2>1, FS_EmptySet, SumUnfold
    <3> HIDE DEF total
    <3> QED BY <1>12, <2>1, <3>1
  <2>2. CASE dead # {}
    <3> HIDE DEF total, cover, mine
    <3> QED BY <1>4, <1>6, <1>12, <2>2
  <2> QED BY <2>1, <2>2
<1>15. u \in LoopState
  <2>1. pots \in Nat
    BY <1>1
  <2> HIDE DEF rem, won, returned, pots
  <2> QED BY <1>10, <1>13, <2>1 DEF LoopState
<1>16. /\ SumFunction(rem) \in Nat /\ SumFunction(t.won) \in Nat
       /\ SumFunction(t.returned) \in Nat
  <2> HIDE DEF rem
  <2> QED BY <1>1, <1>10, TotalNat
<1>17. /\ Chips(u) = SumFunction(rem) + SumFunction(won) + SumFunction(returned)
       /\ Chips(t) = SumFunction(t.rem) + SumFunction(t.won) + SumFunction(t.returned)
  <2> HIDE DEF rem, won, returned, pots
  <2> QED BY DEF Chips
<1> HIDE DEF rem, won, returned, pots, mine, cover, total, prize
<1>18. Chips(u) = Chips(t)
  <2>1. \A a, b, c, x, y, z \in Nat : x + y = z => a + (b + x) + (c + y) = (a + z) + b + c
    OBVIOUS
  <2>2. total + mine \in Nat
    BY <1>6, <1>12
  <2> QED BY <1>11, <1>12, <1>13, <1>14, <1>16, <1>17, <2>1, <2>2
<1> QED BY <1>2, <1>15, <1>18

\* So does the sweep after the loop, which leaves nothing in the pot.
LEMMA SweptKeeps ==
  ASSUME NEW t \in LoopState
  PROVE  /\ Swept(t) \in LoopState /\ Chips(Swept(t)) = Chips(t)
         /\ \A p \in Players : Swept(t).rem[p] = 0
         /\ Swept(t).won = t.won
<1> DEFINE rem      == [p \in Players |-> 0]
           returned == [p \in Players |-> t.returned[p] + t.rem[p]]
           u        == [rem |-> rem, won |-> t.won, returned |-> returned, pots |-> t.pots]
<1>1. /\ t.rem \in [Players -> Nat] /\ t.won \in [Players -> Nat]
      /\ t.returned \in [Players -> Nat] /\ t.pots \in Nat
  BY DEF LoopState
<1>2. Swept(t) = u
  <2>1. Swept(t) = [t EXCEPT !.rem = rem, !.returned = returned]
    BY DEF Swept
  <2> HIDE DEF rem, returned
  <2> QED BY <2>1 DEF LoopState
<1>3. rem \in [Players -> Nat] /\ returned \in [Players -> Nat]
  BY <1>1
<1>4. SumFunction(rem) = 0
  <2>1. \A p \in Players : rem[p] = 0
    OBVIOUS
  <2> HIDE DEF rem
  <2>2. SumFunctionOnSet(rem, Players) = 0 * Cardinality(Players)
    BY <2>1, PlayersFinite, SumConst
  <2>3. Cardinality(Players) \in Nat
    BY PlayersFinite, FS_CardinalityType
  <2>4. \A n \in Nat : 0 * n = 0
    OBVIOUS
  <2> QED BY <1>3, <2>2, <2>3, <2>4, TotalIsSum
<1>5. SumFunction(returned) = SumFunction(t.returned) + SumFunction(t.rem)
  <2>1. /\ DOMAIN returned = Players /\ DOMAIN t.returned = Players /\ DOMAIN t.rem = Players
        /\ \A p \in Players : /\ t.returned[p] \in Int /\ t.rem[p] \in Int
                              /\ returned[p] = t.returned[p] + t.rem[p]
    BY <1>1
  <2> HIDE DEF returned
  <2> QED BY <2>1, PlayersFinite, SumAdd, TotalIsSum
<1>6. /\ SumFunction(t.rem) \in Nat /\ SumFunction(t.won) \in Nat
      /\ SumFunction(t.returned) \in Nat
  BY <1>1, TotalNat
<1>7. Chips(u) = Chips(t)
  <2>1. /\ Chips(u) = SumFunction(rem) + SumFunction(t.won) + SumFunction(returned)
        /\ Chips(t) = SumFunction(t.rem) + SumFunction(t.won) + SumFunction(t.returned)
    <3> HIDE DEF rem, returned
    <3> QED BY DEF Chips
  <2> HIDE DEF rem, returned, u
  <2> QED BY <1>4, <1>5, <1>6, <2>1
<1>8. u \in LoopState
  <2> HIDE DEF rem, returned
  <2> QED BY <1>1, <1>3 DEF LoopState
<1> QED BY <1>2, <1>7, <1>8

\* A pass of the loop over a pot somebody can win keeps the types and every chip.
LEMMA TierKeeps ==
  ASSUME NEW t \in LoopState, NEW folded, ~LoopDone(t, folded),
         NEW rank, \A p \in Players \ folded : rank[p] \in Nat,
         NEW dist \in [Players -> Nat],
         \A p, q \in Players : dist[p] = dist[q] => p = q
  PROVE  /\ Tier(t, folded, rank, dist) \in LoopState
         /\ Chips(Tier(t, folded, rank, dist)) = Chips(t)
<1>1. Eligible(t, folded) # {} /\ (CHOOSE p \in Eligible(t, folded) : TRUE) \in Players
  BY DEF LoopDone, Eligible
<1>2. CASE Cardinality(Eligible(t, folded)) = 1 /\ t.pots > 0
  <2>1. Tier(t, folded, rank, dist) = LoneTier(t, CHOOSE p \in Eligible(t, folded) : TRUE)
    BY <1>2 DEF Tier
  <2> QED BY <1>1, <2>1, LoneTierKeeps
<1>3. CASE ~(Cardinality(Eligible(t, folded)) = 1 /\ t.pots > 0)
  <2>1. Tier(t, folded, rank, dist) = ContestedTier(t, folded, rank, dist)
    BY <1>3 DEF Tier
  <2> QED BY <1>1, <2>1, ContestedTierKeeps
<1> QED BY <1>2, <1>3

\* G applied again and again, from s on.
Iterates(G, s, n) == CHOOSE f : f = [k \in 0..n |-> IF k = 0 THEN s ELSE G[f[k - 1]]]

\* What an iteration is, step by step.
LEMMA Iterated ==
  ASSUME NEW G, NEW s, NEW n \in Nat
  PROVE  \A k \in 0..n : Iterates(G, s, n)[k] = IF k = 0 THEN s ELSE G[Iterates(G, s, n)[k - 1]]
<1> DEFINE Table(g, m) == g = [k \in 0..m |-> IF k = 0 THEN s ELSE G[g[k - 1]]]
           Bad == {m \in Nat : ~ \E g : Table(g, m)}
           f == CHOOSE g : Table(g, n)
<1>1. Bad = {}
  <2>1. SUFFICES ASSUME Bad # {} PROVE FALSE
    OBVIOUS
  <2>2. PICK m \in Bad : \A j \in Bad : m <= j
    <3>1. Bad \in SUBSET Nat
      OBVIOUS
    <3> HIDE DEF Bad
    <3> QED BY <2>1, <3>1, NatMin
  <2>3. CASE m = 0
    <3> DEFINE g == [k \in 0..0 |-> s]
    <3>1. g = [k \in 0..0 |-> IF k = 0 THEN s ELSE G[g[k - 1]]]
      OBVIOUS
    <3> QED BY <2>2, <2>3, <3>1
  <2>4. CASE m # 0
    <3>1. m - 1 \in Nat /\ m - 1 \notin Bad
      <4>1. m \in Nat
        BY <2>2
      <4>2. m - 1 \in Nat /\ ~(m <= m - 1)
        BY <2>4, <4>1
      <4> HIDE DEF Bad
      <4> QED BY <2>2, <4>2
    <3>2. PICK h : Table(h, m - 1)
      BY <3>1
    <3> DEFINE g == [k \in 0..m |-> IF k = m THEN G[h[m - 1]] ELSE h[k]]
    <3>3. \A k \in 0..(m - 1) : h[k] = IF k = 0 THEN s ELSE G[h[k - 1]]
      BY <3>2
    <3>4. ASSUME NEW k \in 0..m PROVE g[k] = IF k = 0 THEN s ELSE G[g[k - 1]]
      <4>1. m \in Nat /\ m - 1 \in 0..(m - 1)
        BY <2>2, <2>4
      <4>2. CASE k = m
        BY <2>4, <4>1, <4>2
      <4>3. CASE k # m
        <5>1. k \in 0..(m - 1) /\ (k # 0 => k - 1 \in 0..m /\ k - 1 # m)
          BY <4>1, <4>3
        <5> QED BY <3>3, <4>3, <5>1
      <4> QED BY <4>2, <4>3
    <3>5. Table(g, m)
      <4>1. g = [k \in 0..m |-> g[k]]
        OBVIOUS
      <4> HIDE DEF g
      <4>2. [k \in 0..m |-> g[k]] = [k \in 0..m |-> IF k = 0 THEN s ELSE G[g[k - 1]]]
        BY <3>4
      <4> QED BY <4>1, <4>2
    <3> HIDE DEF g, Table
    <3> QED BY <2>2, <3>5
  <2> QED BY <2>3, <2>4
<1>2. Table(f, n)
  <2>1. \E g : Table(g, n)
    BY <1>1
  <2> HIDE DEF Table
  <2> QED BY <2>1
<1> HIDE DEF f
<1>3. \A k \in 0..n : f[k] = IF k = 0 THEN s ELSE G[f[k - 1]]
  BY <1>2
<1> QED BY <1>3 DEF f, Iterates

\* A function that maps a set into itself never leaves the set.
LEMMA Repeated ==
  ASSUME NEW T, NEW G, NEW s \in T, \A x \in T : G[x] \in T, NEW n \in Nat
  PROVE  Iterates(G, s, n)[n] \in T
<1> DEFINE f == Iterates(G, s, n)
           Out == {k \in 0..n : f[k] \notin T}
<1>1. \A k \in 0..n : f[k] = IF k = 0 THEN s ELSE G[f[k - 1]]
  BY Iterated
<1> HIDE DEF f
<1>2. Out = {}
  <2>1. SUFFICES ASSUME Out # {} PROVE FALSE
    OBVIOUS
  <2>2. PICK k \in Out : \A j \in Out : k <= j
    <3>1. Out \in SUBSET Nat
      OBVIOUS
    <3> HIDE DEF Out
    <3> QED BY <2>1, <3>1, NatMin
  <2>3. k # 0
    BY <1>1, <2>2
  <2>4. k - 1 \in 0..n /\ k - 1 \notin Out
    BY <2>2, <2>3
  <2>5. f[k - 1] \in T
    BY <2>4
  <2> QED BY <1>1, <2>2, <2>3, <2>5
<1>3. f[n] \in T
  BY <1>2
<1> QED BY <1>3 DEF f

\* Where an iteration stands still it stands still to the end.
LEMMA Settled ==
  ASSUME NEW G, NEW s, NEW n \in Nat, NEW j \in 0..n, NEW x, Iterates(G, s, n)[j] = x, G[x] = x
  PROVE  Iterates(G, s, n)[n] = x
<1> DEFINE f == Iterates(G, s, n)
           Out == {k \in j..n : f[k] # x}
<1>1. \A k \in 0..n : f[k] = IF k = 0 THEN s ELSE G[f[k - 1]]
  BY Iterated
<1>2. f[j] = x
  OBVIOUS
<1> HIDE DEF f
<1>3. Out = {}
  <2>1. SUFFICES ASSUME Out # {} PROVE FALSE
    OBVIOUS
  <2>2. PICK k \in Out : \A i \in Out : k <= i
    <3>1. Out \in SUBSET Nat
      OBVIOUS
    <3> HIDE DEF Out
    <3> QED BY <2>1, <3>1, NatMin
  <2>3. k # j
    BY <1>2, <2>2
  <2>4. k - 1 \in j..n /\ k - 1 \notin Out /\ k \in 0..n /\ k # 0
    BY <2>2, <2>3
  <2>5. f[k - 1] = x
    BY <2>4
  <2> QED BY <1>1, <2>2, <2>4, <2>5
<1>4. f[n] = x
  BY <1>3
<1> QED BY <1>4 DEF f

\* The loop starts with every chip of the pot in the contributions.
LEMMA LoopStartType ==
  ASSUME NEW bet \in [Players -> Nat]
  PROVE  LoopStart(bet) \in LoopState /\ Chips(LoopStart(bet)) = SumFunction(bet)
<1> DEFINE zero == [p \in Players |-> 0]
<1>1. /\ zero \in [Players -> Nat] /\ DOMAIN zero = Players
      /\ \A p \in Players : zero[p] = 0
  OBVIOUS
<1>2. LoopStart(bet) = [rem |-> bet, won |-> zero, returned |-> zero, pots |-> 0]
  BY DEF LoopStart
<1> HIDE DEF zero
<1>3. SumFunction(zero) = 0
  <2>1. SumFunctionOnSet(zero, Players) = 0 * Cardinality(Players)
    BY <1>1, PlayersFinite, SumConst
  <2>2. Cardinality(Players) \in Nat
    BY PlayersFinite, FS_CardinalityType
  <2>3. \A n \in Nat : 0 * n = 0
    OBVIOUS
  <2> QED BY <1>1, <2>1, <2>2, <2>3, TotalIsSum
<1>4. SumFunction(bet) \in Nat
  BY TotalNat
<1>5. SumFunction(bet) + 0 + 0 = SumFunction(bet)
  BY <1>4
<1>6. Chips(LoopStart(bet)) = SumFunction(bet)
  BY <1>2, <1>3, <1>5 DEF Chips
<1> QED BY <1>1, <1>2, <1>6 DEF LoopState

\* What determine_winner pays is a number of chips for each player, and all
\* together every chip of the pot.
LEMMA PayoutKeeps ==
  ASSUME NEW bet \in [Players -> Nat], NEW folded,
         NEW rank, \A p \in Players \ folded : rank[p] \in Nat,
         NEW dist \in [Players -> Nat],
         \A p, q \in Players : dist[p] = dist[q] => p = q
  PROVE  /\ Payout(bet, folded, rank, dist) \in [Players -> Nat]
         /\ (\E p \in Players \ folded : bet[p] > 0) =>
               SumFunction(Payout(bet, folded, rank, dist)) = SumFunction(bet)
<1> DEFINE T == {u \in LoopState : Chips(u) = SumFunction(bet)}
           Pass == [t \in LoopState |->
                      IF LoopDone(t, folded) THEN t ELSE Tier(t, folded, rank, dist)]
           Loop[k \in 0..Passes] == IF k = 0 THEN LoopStart(bet) ELSE Pass[Loop[k - 1]]
           Paid == [t \in LoopState |-> [p \in Players |-> t.won[p] + t.returned[p]]]
           last == Loop[Passes]
<1>1. LoopStart(bet) \in T
  BY LoopStartType
<1>2. \A u \in T : Pass[u] \in T
  <2> SUFFICES ASSUME NEW u \in T PROVE Pass[u] \in T
    OBVIOUS
  <2>1. CASE LoopDone(u, folded)
    BY <2>1
  <2>2. CASE ~LoopDone(u, folded)
    <3>1. /\ Tier(u, folded, rank, dist) \in LoopState
          /\ Chips(Tier(u, folded, rank, dist)) = Chips(u)
      BY <2>2, TierKeeps
    <3> QED BY <2>2, <3>1
  <2> QED BY <2>1, <2>2
<1>3. Passes \in Nat
  BY PlayersFinite, FS_CardinalityType DEF Passes
<1>4. last \in T
  <2> HIDE DEF T, Pass
  <2>1. Loop = Iterates(Pass, LoopStart(bet), Passes)
    BY DEF Iterates
  <2> HIDE DEF Loop
  <2> QED BY <1>1, <1>2, <1>3, <2>1, Repeated
<1>5. Payout(bet, folded, rank, dist) =
        IF LoopDone(LoopStart(bet), folded) THEN [p \in Players |-> 0]
        ELSE Paid[Swept(last)]
  BY DEF Payout
<1> HIDE DEF last
<1> DEFINE u == Swept(last)
<1>6. /\ u \in LoopState /\ Chips(u) = SumFunction(bet) /\ \A p \in Players : u.rem[p] = 0
  BY <1>4, SweptKeeps
<1> HIDE DEF u
<1>7. /\ u.rem \in [Players -> Nat] /\ u.won \in [Players -> Nat]
      /\ u.returned \in [Players -> Nat]
  BY <1>6 DEF LoopState
<1> DEFINE pay == [p \in Players |-> u.won[p] + u.returned[p]]
<1>8. Paid[u] = pay /\ pay \in [Players -> Nat] /\ DOMAIN pay = Players
  BY <1>6, <1>7
<1>9. SumFunction(pay) = SumFunction(bet)
  <2>1. SumFunction(pay) = SumFunction(u.won) + SumFunction(u.returned)
    <3>1. /\ DOMAIN u.won = Players /\ DOMAIN u.returned = Players
          /\ \A p \in Players : /\ u.won[p] \in Int /\ u.returned[p] \in Int
                                /\ pay[p] = u.won[p] + u.returned[p]
      BY <1>7
    <3> HIDE DEF pay
    <3> QED BY <1>8, <3>1, PlayersFinite, SumAdd, TotalIsSum
  <2>2. SumFunction(u.rem) = 0
    <3>1. SumFunctionOnSet(u.rem, Players) = 0 * Cardinality(Players)
      BY <1>6, PlayersFinite, SumConst
    <3>2. Cardinality(Players) \in Nat
      BY PlayersFinite, FS_CardinalityType
    <3>3. \A n \in Nat : 0 * n = 0
      OBVIOUS
    <3> QED BY <1>7, <3>1, <3>2, <3>3, TotalIsSum
  <2>3. SumFunction(u.won) \in Nat /\ SumFunction(u.returned) \in Nat
    BY <1>7, TotalNat
  <2>4. \A a, b \in Nat : 0 + a + b = a + b
    OBVIOUS
  <2>5. Chips(u) = 0 + SumFunction(u.won) + SumFunction(u.returned)
    BY <2>2 DEF Chips
  <2> HIDE DEF pay
  <2> QED BY <1>6, <2>1, <2>3, <2>4, <2>5
<1>10. (\E p \in Players \ folded : bet[p] > 0) => ~LoopDone(LoopStart(bet), folded)
  BY DEF LoopDone, LoopStart, Eligible
<1> HIDE DEF pay, Paid
<1>11. Payout(bet, folded, rank, dist) =
         IF LoopDone(LoopStart(bet), folded) THEN [p \in Players |-> 0] ELSE pay
  BY <1>5, <1>8 DEF u
<1>12. [p \in Players |-> 0] \in [Players -> Nat]
  OBVIOUS
<1> QED BY <1>8, <1>9, <1>10, <1>11, <1>12

=============================================================================
