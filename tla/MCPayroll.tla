-------------------------------- MODULE MCPayroll --------------------------------
(* An instance of Payroll for TLC: a loan of 6 at the highest rate, so that its *)
(* two instalments differ and the interest is 1.                                *)
(* A wage of 6 covers each of them, and both only with a claim of 2 reimbursed. *)
EXTENDS Payroll, TLC

CONSTANT l1

SmallLoan == [l \in {l1} |-> [principal |-> 6, rate |-> 10000, tenure |-> 2]]

Symmetry == Permutations(Requests) \cup Permutations(Runs)
================================================================================
