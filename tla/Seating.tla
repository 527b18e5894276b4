------------------------------- MODULE Seating -------------------------------
(***************************************************************************)
(* The tables of a tournament and the rules that keep them in shape:       *)
(* tournament/seating.py.  A table has fixed seats and a button, which is  *)
(* the number of a seat.  The tables are a function from the ids of the    *)
(* tables still open (the code keeps its list in the order of the ids).    *)
(*                                                                         *)
(* FirstSeat and FewestTables are faulty variants of the operators they    *)
(* stand before.                                                           *)
(***************************************************************************)
EXTENDS Integers, FiniteSets, Functions, FiniteSetsExt

CONSTANTS Players,
          NoOne,       \* an empty seat
          TableSize    \* config.table_size: seats at a table

ASSUME PlayersAssumption == IsFiniteSet(Players) /\ Cardinality(Players) >= 2
ASSUME NoOneAssumption == NoOne \notin Players
ASSUME TableSizeAssumption == TableSize \in Nat /\ TableSize >= 2

Seats == 0..(TableSize - 1)
Table == [seats : [Seats -> Players \cup {NoOne}], button : Seats]

Occupied(t) == {i \in Seats : t.seats[i] # NoOne}
Size(t) == Cardinality(Occupied(t))
PlayersAt(t) == {t.seats[i] : i \in Occupied(t)}

\* Steps forward from seat b to seat i; b itself is a whole lap away.
Ahead(b, i) == IF i > b THEN i - b ELSE i - b + TableSize

\* The first occupied seat after b.
NextOccupied(t, b) ==
    CHOOSE i \in Occupied(t) : \A j \in Occupied(t) : Ahead(b, i) <= Ahead(b, j)

\* dealer_index_in_occupied: the seat that deals.  A button left on an empty
\* seat snaps forward for the hand, and only for the hand.
DealerSeat(t) == IF t.button \in Occupied(t) THEN t.button ELSE NextOccupied(t, t.button)

\* advance_button, at a table where somebody sits
ButtonAdvanced(t) == [t EXCEPT !.button = NextOccupied(t, @)]

FirstSeat(t) == 0

\* first_open_seat
OpenSeat(t) == Min(Seats \ Occupied(t))

\* add.  The code raises at a full table; here the player is left without a
\* seat, which is as much of an error.
Add(t, p) ==
    IF Occupied(t) = Seats THEN t ELSE [t EXCEPT !.seats[OpenSeat(t)] = p]

\* remove, for each of S
Without(t, S) ==
    [t EXCEPT !.seats = [i \in Seats |-> IF t.seats[i] \in S THEN NoOne ELSE t.seats[i]]]

-----------------------------------------------------------------------------
(* Which table the rules of SeatingManager pick: the code's min and max over *)
(* a pair of size and id.                                                    *)

\* total_players
Total(ts) == SumFunction([i \in DOMAIN ts |-> Size(ts[i])])

FewestTables(n) == n \div TableSize

\* ceil(n / table_size)
TablesNeeded(n) == (n + TableSize - 1) \div TableSize

\* min by (size, table_id)
Smallest(ts) ==
    CHOOSE i \in DOMAIN ts : \A j \in DOMAIN ts :
        Size(ts[i]) < Size(ts[j]) \/ (Size(ts[i]) = Size(ts[j]) /\ i <= j)

\* max by (size, table_id)
Biggest(ts) ==
    CHOOSE i \in DOMAIN ts : \A j \in DOMAIN ts :
        Size(ts[i]) > Size(ts[j]) \/ (Size(ts[i]) = Size(ts[j]) /\ i >= j)

\* min by (size, -table_id): the table that is broken
BreakTable(ts) ==
    CHOOSE i \in DOMAIN ts : \A j \in DOMAIN ts :
        Size(ts[i]) < Size(ts[j]) \/ (Size(ts[i]) = Size(ts[j]) /\ i >= j)

\* max by (size, -table_id): the table that becomes the final one
FinalTable(ts) ==
    CHOOSE i \in DOMAIN ts : \A j \in DOMAIN ts :
        Size(ts[i]) > Size(ts[j]) \/ (Size(ts[i]) = Size(ts[j]) /\ i <= j)

\* build_initial_seating: the entrants dealt round to as few tables as hold
\* them, the button on each table's first seat.  entry[p] counts from 1.
InitialTables(entry) ==
    LET n == TablesNeeded(Cardinality(Players))
        Sits(p, i, s) == (entry[p] - 1) % n = i - 1 /\ (entry[p] - 1) \div n = s
    IN  [i \in 1..n |->
            [seats  |-> [s \in Seats |->
                            IF \E p \in Players : Sits(p, i, s)
                            THEN CHOOSE p \in Players : Sits(p, i, s)
                            ELSE NoOne],
             button |-> 0]]
=============================================================================
