--------------------------- MODULE PrizeSchedule ---------------------------
(***************************************************************************)
(* The prize structure of a tournament: tournament/economy.py.             *)
(*                                                                         *)
(* A curve is the sequence of front fractions, in hundredths; what it      *)
(* leaves of 100 is shared by the other paid places.  The code divides in  *)
(* floating point and truncates.  A quotient that is not whole is too far  *)
(* from the next integer for the rounding error to matter; one that is     *)
(* whole may come out a hair below it and lose a chip.                     *)
(***************************************************************************)
EXTENDS Integers, Sequences, FiniteSets, Functions, FiniteSetsExt

CONSTANTS
    Curve,              \* DEFAULT_PAYOUT_CURVE, in hundredths
    MaxField, MaxPool   \* bounds: the fields and pools compared

Total(s) == SumFunction(s)

\* The default curve, which every caller uses, gives the winner something, nobody
\* more, and leaves no more than that to the places it does not name.
ASSUME CurveAssumption ==
    /\ Curve \in Seq(Nat) /\ Curve # <<>> /\ Curve[1] > 0
    /\ \A i \in DOMAIN Curve : Curve[i] <= Curve[1]
    /\ 100 - Total(Curve) <= Curve[1]
    /\ MaxField \in Nat /\ MaxPool \in Nat

\* Python's round of n / 10: to the nearest, a half to the even neighbour.
RoundTenths(n) ==
    LET q == n \div 10
        r == n % 10
    IN IF r > 5 \/ (r = 5 /\ q % 2 = 1) THEN q + 1 ELSE q

\* PAYOUT_FRACTION is 0.30; at least one place is paid, at most the field.
PaidPlaces(n) ==
    IF n < 1 THEN 0 ELSE Min({n, Max({1, RoundTenths(3 * n)})})

\* _resolve_fractions: the share of each place, all over the denominator
\* Total(Weights(paid)).
Weights(paid) ==
    LET front == Len(Curve)
        rest  == Max({0, 100 - Total(Curve)})
    IN [i \in 1..paid |->
            IF paid <= front THEN Curve[i]
            ELSE IF i <= front THEN Curve[i] * (paid - front)
            ELSE rest]

Quotient(w, pool) == [i \in DOMAIN w |-> (w[i] * pool) \div Total(w)]

\* The places whose whole quotient may lose a chip to the rounding error.
MayFallShort(w, pool) ==
    {i \in DOMAIN w : (w[i] * pool) % Total(w) = 0 /\ Quotient(w, pool)[i] > 0}

\* The list of int(f * prize_pool).
Truncated(w, pool, short) ==
    [i \in DOMAIN w |-> Quotient(w, pool)[i] - IF i \in short THEN 1 ELSE 0]

CrumbsToLast(a, pool) == [a EXCEPT ![Len(a)] = @ + (pool - Total(a))]

\* The rounding residual goes to the winner.
WithResidual(a, pool) == [a EXCEPT ![1] = @ + (pool - Total(a))]

\* compute_payout_schedule: the amounts it may come to.
Schedules(n, pool) ==
    LET w == Weights(PaidPlaces(n))
    IN {WithResidual(Truncated(w, pool, short), pool) : short \in SUBSET MayFallShort(w, pool)}

-----------------------------------------------------------------------------
\* The paid places get the pool to the chip, nobody is charged, the winner earns most,
\* nobody else gets more than the share of the curve or lacks more than a chip of it,
\* and three tenths of the field are paid, give or take half a place.
IsFair(s, n, pool) ==
    LET w == Weights(PaidPlaces(n))
    IN  /\ Total(s) = pool
        /\ \A i \in DOMAIN s : 0 <= s[i] /\ s[i] <= s[1]
        /\ \A i \in DOMAIN s \ {1} : w[i] * pool - s[i] * Total(w) \in 0..Total(w)
        /\ Len(s) \in 1..n
        /\ Len(s) > 1 => 10 * Len(s) \in (3 * n - 5)..(3 * n + 5)

\* The fields and pools that may be given another schedule.
UnfairDraws ==
    {d \in (1..MaxField) \X (1..MaxPool) :
        \E s \in Schedules(d[1], d[2]) : ~IsFair(s, d[1], d[2])}
=============================================================================
