-------------------------------- MODULE Books --------------------------------
(***************************************************************************)
(* What the book keeping record promises to the processes that share it:   *)
(* UpdateBooks counts a file, ClearBooks takes the counts away, and        *)
(* InitBookkeeper starts from nothing, each of them in one step.  Only the *)
(* fields first, last and numfiles are kept; filesize goes with numfiles.  *)
(***************************************************************************)
EXTENDS Naturals

CONSTANTS Clearers,     \* processes that call ClearBooks
          Times         \* time slots of the files

VARIABLES books,        \* the record
          taken         \* what each clearer got from its last ClearBooks

NoBooks == [first |-> 0, last |-> 0, numfiles |-> 0]

\* The record after a file of the slot when was counted.
Counted(b, when) == [first    |-> IF b.first = 0 THEN when ELSE b.first,
                     last     |-> when,
                     numfiles |-> b.numfiles + 1]

Init == books = NoBooks /\ taken = [p \in Clearers |-> NoBooks]

UpdateBooks == /\ \E when \in Times : books' = Counted(books, when)
               /\ UNCHANGED taken

ClearBooks(p) == /\ taken' = [taken EXCEPT ![p] = books]
                 /\ books' = NoBooks

InitBookkeeper == books' = NoBooks /\ UNCHANGED taken

Next == UpdateBooks \/ InitBookkeeper \/ \E p \in Clearers : ClearBooks(p)

Spec == Init /\ [][Next]_<<books, taken>>
=============================================================================
