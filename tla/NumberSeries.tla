------------------------------ MODULE NumberSeries ------------------------------
(****************************************************************************)
(* What a series of document numbers promises when it restarts with every   *)
(* period: the documents of a period are numbered 1, 2, 3, ..., in the      *)
(* order they commit, none missing and none twice.  It promises nothing     *)
(* from the moment a number is skipped.                                     *)
(****************************************************************************)
EXTENDS Integers

CONSTANTS Periods, Numbers

VARIABLES
  issued,  \* the numbers on documents, as <<period, number>>
  skipped  \* a number was spent without a document

Issued(p) == {number \in issued : number[1] = p}

Init == issued = {} /\ skipped = FALSE

Issue(p) ==
  \E n \in Numbers :
    /\ Issued(p) = {<<p, m>> : m \in 1 .. n - 1}
    /\ issued' = issued \cup {<<p, n>>}
    /\ ~skipped /\ ~skipped'

Skip ==
  /\ skipped'
  /\ skipped \/ issued' = issued

Next == Skip \/ \E p \in Periods : Issue(p)

Spec == Init /\ [][Next]_<<issued, skipped>>
================================================================================
