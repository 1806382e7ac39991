-------------------------------- MODULE MCStock --------------------------------
(* Instances of Stock for TLC: one item in two warehouses. *)
EXTENDS Stock, TLC

Tea(qty, cost) == [item |-> "tea", qty |-> qty, cost |-> cost]
Drafts == [b1 |-> <<Tea(1, 10)>>,
           i1 |-> <<Tea(2, 0), Tea(1, 0)>>,
           t1 |-> <<Tea(1, 0), Tea(2, 0)>>,
           c1 |-> <<Tea(1, 0)>>]

DocLines == [d \in Docs |-> Drafts[d]]
AtMain == [d \in Docs |-> "main"]
ToShop == [t \in Transfers |-> "shop"]
Start == [k \in Keys |-> IF k[2] = "main" THEN [qty |-> 3, value |-> 10]
                                          ELSE [qty |-> 0, value |-> 0]]

Interchangeable == Permutations(Requests)
================================================================================
