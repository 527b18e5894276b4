--------------------------- MODULE MCCashSession ---------------------------
(***************************************************************************)
(* Two sessions of one owner at the lowest table.                         *)
(***************************************************************************)
EXTENDS CashBooks

InHands(moved) == game'.there /\ game'.pot < game.pot => seats'.custody - seats.custody = moved

\* One fault at most, one bet a hand and none after a fault.  Nothing but the account
\* of the seats depends on what a hand moves on the ledger: here it moves nothing.
MCNext ==
    /\ BooksNext
    /\ game.there /\ game'.pot > game.pot => game.pot = 0 /\ ~marred.fault
    /\ InHands(0)
    /\ crashes' + raises' <= 1

MCSpec == BooksInit /\ [][MCNext]_books

\* The account of the seats when a hand moves all that its losers put in.
SeatsSpec == BooksInit /\ [][BooksNext /\ InHands(game'.rest - game.rest - game.theirs)]_books
=============================================================================
