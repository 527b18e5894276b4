------------------------------ MODULE Standings ------------------------------
(***************************************************************************)
(* What a tournament promises of its places (the docstrings of             *)
(* tournament/field.py): the field only shrinks, somebody is always left,  *)
(* and those who drop out together take the lowest places still open, each *)
(* one of them, for good.                                                  *)
(***************************************************************************)
EXTENDS Integers, FiniteSets

CONSTANT Players

VARIABLES
    remaining,   \* who is still in
    place        \* [Players -> places], 0 for those still in

vars == <<remaining, place>>

Init ==
    /\ remaining = Players
    /\ place = [p \in Players |-> 0]

DropOut(B) ==
    /\ B # {} /\ B # remaining
    /\ remaining' = remaining \ B
    /\ place' \in [Players -> 0..Cardinality(Players)]
    /\ {place'[p] : p \in B} = (Cardinality(remaining \ B) + 1)..Cardinality(remaining)
    /\ \A p \in Players \ B : place'[p] = place[p]

Next == \E B \in SUBSET remaining : DropOut(B)

Spec == Init /\ [][Next]_vars
=============================================================================
