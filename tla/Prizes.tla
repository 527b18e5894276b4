------------------------------- MODULE Prizes -------------------------------
(***************************************************************************)
(* What a tournament owes its finishers, and nothing else: each is paid    *)
(* what the final order gives them, once, and the books are closed when    *)
(* everybody has been paid.                                                *)
(***************************************************************************)
EXTENDS Integers

CONSTANTS Finishers,   \* the finishers with a bankroll of their own
          Debts        \* what each may be owed: one function per final order

VARIABLES owed,        \* the debts of the final order
          balance,     \* what each finisher has received
          closed       \* the books are closed

vars == <<owed, balance, closed>>

Init == /\ owed \in Debts
        /\ balance = [f \in Finishers |-> 0]
        /\ closed = FALSE

PayOff(f) == /\ balance[f] = 0
             /\ balance' = [balance EXCEPT ![f] = owed[f]]
             /\ UNCHANGED <<owed, closed>>

Close == /\ balance = owed
         /\ closed' = TRUE
         /\ UNCHANGED <<owed, balance>>

Next == Close \/ \E f \in Finishers : PayOff(f)

Spec == Init /\ [][Next]_vars
=============================================================================
