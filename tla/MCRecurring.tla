------------------------------ MODULE MCRecurring ------------------------------
(* Instances of Recurring for TLC: three short months of unequal length. *)
EXTENDS Recurring, TLC

CONSTANTS t1, t2

MonthLengths == <<3, 2, 2>>

\* Two bills of one job; two templates of different jobs, of which one starts on
\* day 3, after its run day and a day the second month does not have.
Plan(way, start, day, end) == [way |-> way, start |-> start, day |-> day, end |-> end]
Setups ==
  {(t1 :> Plan("byMonth", <<1, 1>>, 1, Never) @@ t2 :> Plan("bySeq", <<1, 2>>, 2, Never)),
   (t1 :> Plan("post", <<1, 1>>, 1, <<3, 1>>) @@ t2 :> Plan("draft", <<1, 3>>, 2, Never))}
LastOfFirst == <<1, 3>>
EndDates == {<<2, 2>>}
================================================================================
