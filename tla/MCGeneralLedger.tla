---------------------------- MODULE MCGeneralLedger ----------------------------
(* Instances of GeneralLedger for TLC: one income and one expense account. *)
EXTENDS GeneralLedger, TLC

CONSTANTS sales, rent

Posting(income, expense) ==
  [a \in {sales, rent} |-> IF a = sales THEN income ELSE expense]

Sale == Posting(-1, 0)
Purchase == Posting(0, 1)
BigPurchase == Posting(0, 2)

SalesAndPurchases == {Sale, Purchase}
Manual == {Sale, Purchase, BigPurchase}
Large == {BigPurchase}
Sales == {Sale}
NoPostings == {}

Symmetry == Permutations(Requests)
================================================================================
