------------------------------- MODULE StockProofs -------------------------------
(****************************************************************************)
(* Theorems about Stock, for any items, warehouses and documents with any   *)
(* lines, any opening balances and any number of requests in flight.        *)
(*   DocInv    the lines of a document are the drafted ones, filled in: on  *)
(*             a count's sheet what is noted is what was read of the        *)
(*             balance, and the variance the gap that is owed               *)
(*   BlankInv  the sheet of a count that nobody began is empty              *)
(*   TxnInv    a request in flight has read such a version, in a status     *)
(*             that its handler asks for                                    *)
(*   RowsInv   no row of the stock ledger is of no units                    *)
(*   VoidInv   the rows of a void document come to nothing, item by item,   *)
(*             unless a later commit overwrote the void                     *)
(****************************************************************************)
EXTENDS Stock, SequenceTheorems, WellFoundedInduction, TLAPS

--------------------------------------------------------------------------------
(* Numbers.                                                                   *)

\* A set of numbers that has 0, and with each number the next, has them all.
LEMMA NumbersFromZero ==
  ASSUME NEW A \in SUBSET Nat, 0 \in A, \A n \in A : n + 1 \in A
  PROVE  A = Nat
<1> SUFFICES ASSUME Nat \ A # {} PROVE FALSE
  OBVIOUS
<1>1. IsWellFoundedOn(OpToRel(<, Nat), Nat)
  BY NatLessThanWellFounded
<1>2. \E x \in Nat \ A : \A y \in Nat \ A : ~ (<<y, x>> \in OpToRel(<, Nat))
  <2>1. Nat \ A \subseteq Nat
    OBVIOUS
  <2> QED BY <1>1, <2>1, WFMin
<1>3. PICK x \in Nat \ A : \A y \in Nat \ A : ~ (y < x)
  BY <1>2 DEF OpToRel
<1>4. x # 0 /\ x - 1 \in Nat /\ x - 1 < x
  BY <1>3
<1>5. x - 1 \in A
  BY <1>3, <1>4
<1> QED BY <1>4, <1>5, <1>3

\* What holds of 0, and with each number below N of the next, holds up to N.
LEMMA NumbersUpTo ==
  ASSUME NEW N \in Nat, NEW A \in SUBSET (0 .. N), 0 \in A,
         \A n \in A : n < N => n + 1 \in A
  PROVE  A = 0 .. N
<1> DEFINE B == {n \in Nat : n <= N => n \in A}
<1>1. B = Nat
  <2>1. 0 \in B /\ B \in SUBSET Nat
    OBVIOUS
  <2>2. \A n \in B : n + 1 \in B
    OBVIOUS
  <2> HIDE DEF B
  <2> QED BY <2>1, <2>2, NumbersFromZero
<1>2. ASSUME NEW n \in 0 .. N PROVE n \in A
  <2>1. n \in B
    BY <1>1
  <2> QED BY <2>1
<1> QED BY <1>2

\* A quotient of natural numbers is one.
LEMMA Quotient ==
  ASSUME NEW a \in Nat, NEW b \in Nat, b > 0
  PROVE  a \div b \in Nat
OBVIOUS

\* Products of natural numbers, and of a natural and a negative one.
LEMMA Products ==
  /\ \A a, b \in Int : a * b \in Int
  /\ \A a, b \in Nat : a * b \in Nat
  /\ \A a \in Int, b \in Nat : a < 0 => a * b <= 0
OBVIOUS

--------------------------------------------------------------------------------
(* The loop over the lines of a document.                                     *)

Balances == [Keys -> [qty : Nat, value : Nat]]
Row == [key : Keys, qty : Int, value : Int]
MoveSet == [key : Keys, qty : Int, value : Column]

\* g is what the loop has done before the first line, and after each.
Passes(g, moves) ==
  /\ g[0] = Untouched
  /\ \A n \in 1 .. Len(moves) : g[n] = Step(g[n - 1], moves[n])

\* The recursive function of the loop exists: it is built line by line.
LEMMA LoopPasses ==
  ASSUME NEW moves, Len(moves) \in Nat
  PROVE  \E g : Passes(g, moves) /\ Loop(moves) = g[Len(moves)]
<1> DEFINE N == Len(moves)
           Up(g, n) == /\ g[0] = Untouched
                       /\ \A m \in 1 .. n : g[m] = Step(g[m - 1], moves[m])
           A == {n \in 0 .. N : \E g : Up(g, n)}
           IsLoop(g) == g = [n \in 0 .. N |-> IF n = 0 THEN Untouched
                                              ELSE Step(g[n - 1], moves[n])]
<1>1. 0 \in A
  <2>1. Up([m \in 0 .. 0 |-> Untouched], 0)
    OBVIOUS
  <2>2. 0 \in 0 .. N
    OBVIOUS
  <2> HIDE DEF Up, N
  <2> QED BY <2>1, <2>2
<1>2. ASSUME NEW n \in A, n < N PROVE n + 1 \in A
  <2>1. PICK g : Up(g, n)
    BY <1>2
  <2>2. n \in Nat /\ n + 1 \in 0 .. N
    BY <1>2
  <2> DEFINE h == [m \in 0 .. (n + 1) |-> IF m <= n THEN g[m]
                                          ELSE Step(g[n], moves[n + 1])]
  <2>3. Up(h, n + 1)
    <3>1. h[0] = Untouched
      BY <2>1, <2>2
    <3>2. ASSUME NEW m \in 1 .. (n + 1) PROVE h[m] = Step(h[m - 1], moves[m])
      <4>1. CASE m <= n
        BY <2>1, <2>2, <4>1
      <4>2. CASE m = n + 1
        BY <2>2, <4>2
      <4> QED BY <2>2, <4>1, <4>2
    <3> QED BY <3>1, <3>2
  <2> QED BY <2>2, <2>3
<1>3. A = 0 .. N
  <2> HIDE DEF A
  <2>1. A \in SUBSET (0 .. N)
    BY DEF A
  <2> QED BY <1>1, <1>2, <2>1, NumbersUpTo
<1>4. PICK g : Up(g, N)
  <2>1. N \in A
    BY <1>3
  <2> QED BY <2>1
<1> DEFINE h == [n \in 0 .. N |-> g[n]]
<1>5. IsLoop(h)
  <2>1. ASSUME NEW n \in 0 .. N
        PROVE  h[n] = IF n = 0 THEN Untouched ELSE Step(h[n - 1], moves[n])
    BY <1>4
  <2> QED BY <2>1
<1> DEFINE c == CHOOSE x : IsLoop(x)
<1>6. IsLoop(c)
  <2> HIDE DEF h
  <2> QED BY <1>5
<1>7. Passes(c, moves)
  <2> HIDE DEF c
  <2>1. \A n \in 0 .. N : c[n] = IF n = 0 THEN Untouched ELSE Step(c[n - 1], moves[n])
    BY <1>6
  <2> QED BY <2>1 DEF Passes
<1>8. Loop(moves) = c[N]
  BY DEF Loop
<1> QED BY <1>7, <1>8

Outcome == [stock : Balances, rows : Seq(Row), refused : BOOLEAN]
Written(done, m) == [key |-> m.key, qty |-> m.qty, value |-> Worth(done.stock[m.key], m)]

\* The average cost of a balance is an amount.
LEMMA AverageType ==
  ASSUME NEW b \in [qty : Nat, value : Nat]
  PROVE  Average(b) \in Nat
<1>0. b.qty \in Nat /\ b.value \in Nat
  OBVIOUS
<1>1. CASE b.qty > 0
  <2>1. 2 * b.value + b.qty \in Nat /\ 2 * b.qty \in Nat /\ 2 * b.qty > 0
    BY <1>0, <1>1
  <2>2. (2 * b.value + b.qty) \div (2 * b.qty) \in Nat
    BY <2>1, Quotient
  <2> QED BY <1>1, <2>2 DEF Average
<1>2. CASE ~ (b.qty > 0)
  BY <1>2 DEF Average
<1> QED BY <1>1, <1>2

\* What a move is worth, and what it makes of a balance that covers it.
LEMMA MoveType ==
  ASSUME NEW b \in [qty : Nat, value : Nat], NEW m \in MoveSet
  PROVE  /\ Average(b) \in Nat
         /\ Worth(b, m) \in Int
         /\ m.value # Never => Worth(b, m) = m.value
         /\ m.value = Never /\ m.qty < 0 => Worth(b, m) <= 0
         /\ After(b, m).qty = b.qty + m.qty
         /\ b.qty + m.qty >= 0 => After(b, m) \in [qty : Nat, value : Nat]
<1>0. b.qty \in Nat /\ b.value \in Nat /\ m.qty \in Int /\ m.value \in Int \cup {Never}
  BY DEF MoveSet, Column
<1>1. Average(b) \in Nat
  BY AverageType
<1>2. m.qty * Average(b) \in Int /\ (m.qty < 0 => m.qty * Average(b) <= 0)
  BY <1>0, <1>1, Products
<1>3. Worth(b, m) \in Int
  BY <1>0, <1>2 DEF Worth
<1>4. b.qty + m.qty >= 0 => After(b, m) \in [qty : Nat, value : Nat]
  BY <1>0, <1>3 DEF After
<1> QED BY <1>1, <1>2, <1>3, <1>4 DEF Worth, After

\* A line is passed over, refused, or written and taken from the balance.
LEMMA StepCases ==
  ASSUME NEW done \in Outcome, NEW m \in MoveSet
  PROVE  /\ Step(done, m) \in Outcome
         /\ \/ /\ Step(done, m) = done
               /\ m.qty = 0 \/ done.refused
            \/ /\ Step(done, m).refused
               /\ Step(done, m).stock = done.stock
               /\ Step(done, m).rows = done.rows
            \/ /\ m.qty # 0 /\ ~ done.refused /\ ~ Step(done, m).refused
               /\ Step(done, m).stock =
                    [done.stock EXCEPT ![m.key] = After(done.stock[m.key], m)]
               /\ Step(done, m).rows = Append(done.rows, Written(done, m))
               /\ Written(done, m) \in Row
<1> DEFINE b == done.stock[m.key]
<1>0. /\ done.stock \in Balances /\ done.rows \in Seq(Row) /\ done.refused \in BOOLEAN
      /\ m.key \in Keys /\ b \in [qty : Nat, value : Nat] /\ m.qty \in Int
  BY DEF Outcome, Balances, MoveSet
<1>1. CASE m.qty = 0 \/ done.refused
  BY <1>1 DEF Step
<1>2. CASE ~ (m.qty = 0 \/ done.refused) /\ b.qty + m.qty < 0
  <2>1. Step(done, m) = [done EXCEPT !.refused = TRUE]
    BY <1>2 DEF Step
  <2>2. Step(done, m) = [stock |-> done.stock, rows |-> done.rows, refused |-> TRUE]
    BY <2>1 DEF Outcome
  <2> QED BY <1>0, <2>2 DEF Outcome
<1>3. CASE ~ (m.qty = 0 \/ done.refused) /\ ~ (b.qty + m.qty < 0)
  <2>1. Step(done, m) = [stock   |-> [done.stock EXCEPT ![m.key] = After(b, m)],
                         rows    |-> Append(done.rows, Written(done, m)),
                         refused |-> FALSE]
    BY <1>3 DEF Step, Written
  <2>2. After(b, m) \in [qty : Nat, value : Nat] /\ Worth(b, m) \in Int
    BY <1>0, <1>3, MoveType
  <2>3. Written(done, m) \in Row
    BY <1>0, <2>2 DEF Written, Row
  <2>4. [done.stock EXCEPT ![m.key] = After(b, m)] \in Balances
    BY <1>0, <2>2 DEF Balances
  <2>5. Append(done.rows, Written(done, m)) \in Seq(Row)
    BY <1>0, <2>3, AppendProperties
  <2>6. Step(done, m) \in Outcome
    BY <2>1, <2>4, <2>5 DEF Outcome
  <2> QED BY <1>3, <2>1, <2>3, <2>6
<1> QED BY <1>1, <1>2, <1>3

\* The loop keeps balances and rows in their types, and writes no row of nothing.
LEMMA LoopType ==
  ASSUME stock \in Balances, NEW moves \in Seq(MoveSet)
  PROVE  /\ Loop(moves) \in Outcome
         /\ \A i \in DOMAIN Loop(moves).rows : Loop(moves).rows[i].qty # 0
<1> DEFINE Good(done) == /\ done \in Outcome
                         /\ \A i \in DOMAIN done.rows : done.rows[i].qty # 0
           N == Len(moves)
<1>1. PICK g : Passes(g, moves) /\ Loop(moves) = g[N]
  BY LoopPasses, LenProperties
<1> DEFINE A == {n \in 0 .. N : Good(g[n])}
<1>2. N \in Nat /\ \A n \in 1 .. N : moves[n] \in MoveSet
  BY LenProperties, ElementOfSeq
<1>3. 0 \in A
  <2>1. Untouched \in Outcome /\ DOMAIN Untouched.rows = {}
    BY DEF Untouched, Outcome
  <2>2. Good(Untouched)
    BY <2>1
  <2> HIDE DEF Good, N
  <2> QED BY <1>1, <1>2, <2>2 DEF Passes
<1>4. ASSUME NEW n \in A, n < N PROVE n + 1 \in A
  <2>0. n \in Nat /\ n + 1 \in 1 .. N /\ Good(g[n])
    BY <1>2, <1>4
  <2> DEFINE m == moves[n + 1]
             done == g[n]
             next == Step(done, m)
  <2>1. g[n + 1] = next /\ m \in MoveSet
    BY <1>1, <1>2, <2>0 DEF Passes
  <2>2. Good(next)
    <3>1. done \in Outcome /\ done.rows \in Seq(Row) /\ Len(done.rows) \in Nat
      BY <2>0, LenProperties DEF Outcome
    <3>2. next \in Outcome
      BY <3>1, <2>1, StepCases
    <3>3. next.rows = done.rows \/ /\ m.qty # 0 /\ Written(done, m) \in Row
                                   /\ next.rows = Append(done.rows, Written(done, m))
      BY <3>1, <2>1, StepCases
    <3> HIDE DEF m, done, next
    <3>4. ASSUME NEW i \in DOMAIN next.rows PROVE next.rows[i].qty # 0
      <4>1. CASE next.rows = done.rows
        BY <2>0, <4>1 DEF done
      <4>2. CASE /\ m.qty # 0 /\ Written(done, m) \in Row
                 /\ next.rows = Append(done.rows, Written(done, m))
        <5>1. i \in 1 .. (Len(done.rows) + 1)
          BY <3>1, <4>2, AppendProperties
        <5>2. CASE i = Len(done.rows) + 1
          BY <3>1, <4>2, <5>2, AppendProperties DEF Written
        <5>3. CASE i # Len(done.rows) + 1
          <6>1. i \in 1 .. Len(done.rows)
            BY <3>1, <5>1, <5>3
          <6>2. i \in DOMAIN done.rows /\ next.rows[i] = done.rows[i]
            BY <3>1, <4>2, <6>1, AppendProperties, LenProperties
          <6> QED BY <6>2, <2>0 DEF done
        <5> QED BY <5>2, <5>3
      <4> QED BY <3>3, <4>1, <4>2
    <3> QED BY <3>2, <3>4
  <2> HIDE DEF Good, next, done, m
  <2> QED BY <2>0, <2>1, <2>2
<1>5. A = 0 .. N
  <2> HIDE DEF A
  <2>1. A \in SUBSET (0 .. N)
    BY DEF A
  <2> QED BY <1>2, <1>3, <1>4, <2>1, NumbersUpTo
<1>6. N \in A
  BY <1>2, <1>5
<1> QED BY <1>1, <1>6

\* The rows are the first moves, one by one, where every move is of something, and
\* all of them in the end, if none was refused.
LEMMA LoopRows ==
  ASSUME stock \in Balances, NEW moves \in Seq(MoveSet),
         \A n \in DOMAIN moves : moves[n].qty # 0
  PROVE  /\ \A i \in DOMAIN Loop(moves).rows :
              /\ i \in DOMAIN moves
              /\ Loop(moves).rows[i].key = moves[i].key
              /\ Loop(moves).rows[i].qty = moves[i].qty
              /\ moves[i].value # Never => Loop(moves).rows[i].value = moves[i].value
              /\ moves[i].value = Never /\ moves[i].qty < 0 =>
                   Loop(moves).rows[i].value <= 0
         /\ ~ Loop(moves).refused => Len(Loop(moves).rows) = Len(moves)
<1> DEFINE Like(row, m) == /\ row.key = m.key
                           /\ row.qty = m.qty
                           /\ m.value # Never => row.value = m.value
                           /\ m.value = Never /\ m.qty < 0 => row.value <= 0
           Good(done, n) == /\ done \in Outcome
                            /\ Len(done.rows) <= n
                            /\ ~ done.refused => Len(done.rows) = n
                            /\ \A i \in 1 .. Len(done.rows) : Like(done.rows[i], moves[i])
           N == Len(moves)
<1>1. PICK g : Passes(g, moves) /\ Loop(moves) = g[N]
  BY LoopPasses, LenProperties
<1> DEFINE A == {n \in 0 .. N : Good(g[n], n)}
<1>2. N \in Nat /\ DOMAIN moves = 1 .. N
      /\ \A n \in 1 .. N : moves[n] \in MoveSet /\ moves[n].qty # 0
  BY LenProperties, ElementOfSeq
<1>3. 0 \in A
  <2>1. Untouched \in Outcome /\ Len(Untouched.rows) = 0 /\ ~ Untouched.refused
    BY DEF Untouched, Outcome
  <2>2. Good(Untouched, 0)
    BY <2>1
  <2> HIDE DEF Good, N
  <2> QED BY <1>1, <1>2, <2>2 DEF Passes
<1>4. ASSUME NEW n \in A, n < N PROVE n + 1 \in A
  <2>0. n \in Nat /\ n + 1 \in 1 .. N /\ n + 1 \in 0 .. N /\ Good(g[n], n)
    BY <1>2, <1>4
  <2> DEFINE m == moves[n + 1]
             done == g[n]
             next == Step(done, m)
             last == Len(done.rows) + 1
  <2>1. g[n + 1] = next /\ m \in MoveSet /\ m.qty # 0
    BY <1>1, <1>2, <2>0 DEF Passes
  <2>2. Good(next, n + 1)
    <3>1. /\ done \in Outcome /\ done.rows \in Seq(Row) /\ Len(done.rows) \in Nat
          /\ Len(done.rows) <= n /\ (~ done.refused => Len(done.rows) = n)
      BY <2>0, LenProperties DEF Outcome
    <3>2. next \in Outcome
      BY <3>1, <2>1, StepCases
    <3>3. \/ next.rows = done.rows /\ next.refused
          \/ /\ ~ done.refused /\ Written(done, m) \in Row
             /\ next.rows = Append(done.rows, Written(done, m))
      BY <3>1, <2>1, StepCases
    <3>4. CASE next.rows = done.rows /\ next.refused
      BY <2>0, <3>1, <3>2, <3>4
    <3>5. CASE /\ ~ done.refused /\ Written(done, m) \in Row
               /\ next.rows = Append(done.rows, Written(done, m))
      <4>1. last = n + 1
        BY <3>1, <3>5
      <4>2. /\ Len(next.rows) = last /\ next.rows[last] = Written(done, m)
            /\ \A i \in 1 .. Len(done.rows) : next.rows[i] = done.rows[i]
        BY <3>1, <3>5, AppendProperties
      <4>3. Like(Written(done, m), m)
        <5>1. done.stock[m.key] \in [qty : Nat, value : Nat]
          BY <2>1, <3>1 DEF Outcome, Balances, MoveSet
        <5> QED BY <2>1, <5>1, MoveType DEF Written
      <4>4. ASSUME NEW i \in 1 .. Len(next.rows) PROVE Like(next.rows[i], moves[i])
        <5>1. CASE i = last
          <6> HIDE DEF Like
          <6> QED BY <4>1, <4>2, <4>3, <5>1
        <5>2. CASE i # last
          <6>1. i \in 1 .. Len(done.rows)
            BY <3>1, <4>2, <5>2
          <6>2. next.rows[i] = done.rows[i] /\ Like(done.rows[i], moves[i])
            BY <2>0, <4>2, <6>1
          <6> HIDE DEF Like
          <6> QED BY <6>2
        <5> QED BY <5>1, <5>2
      <4> HIDE DEF Like, next
      <4> QED BY <3>2, <4>1, <4>2, <4>4, <2>0
    <3> QED BY <3>3, <3>4, <3>5
  <2> HIDE DEF Good, next, done, m
  <2> QED BY <2>0, <2>1, <2>2
<1>5. A = 0 .. N
  <2> HIDE DEF A
  <2>1. A \in SUBSET (0 .. N)
    BY DEF A
  <2> QED BY <1>2, <1>3, <1>4, <2>1, NumbersUpTo
<1>6. Good(Loop(moves), N)
  <2>1. N \in A
    BY <1>2, <1>5
  <2> HIDE DEF Good
  <2> QED BY <1>1, <2>1
<1>7. Loop(moves).rows \in Seq(Row) /\ Len(Loop(moves).rows) \in Nat
      /\ DOMAIN Loop(moves).rows = 1 .. Len(Loop(moves).rows)
  BY <1>6, LenProperties DEF Outcome
<1>8. ASSUME NEW i \in DOMAIN Loop(moves).rows
      PROVE  i \in DOMAIN moves /\ Like(Loop(moves).rows[i], moves[i])
  BY <1>2, <1>6, <1>7
<1> QED BY <1>6, <1>8

\* Where no two moves are of one balance, and none is refused, each balance of a move
\* changes by that move.
LEMMA LoopAdds ==
  ASSUME stock \in Balances, NEW moves \in Seq(MoveSet),
         \A m, n \in DOMAIN moves : moves[m].key = moves[n].key => m = n,
         ~ Loop(moves).refused
  PROVE  \A n \in DOMAIN moves :
           Loop(moves).stock[moves[n].key].qty = stock[moves[n].key].qty + moves[n].qty
<1> DEFINE N == Len(moves)
           Qty(done, i) == done.stock[moves[i].key].qty
           Good(done, n) == /\ done \in Outcome
                            /\ ~ done.refused =>
                                 \A i \in 1 .. N :
                                   Qty(done, i) = Qty(Untouched, i)
                                                  + IF i <= n THEN moves[i].qty ELSE 0
<1>1. PICK g : Passes(g, moves) /\ Loop(moves) = g[N]
  BY LoopPasses, LenProperties
<1> DEFINE A == {n \in 0 .. N : Good(g[n], n)}
<1>2. /\ N \in Nat /\ DOMAIN moves = 1 .. N
      /\ \A n \in 1 .. N : /\ moves[n] \in MoveSet /\ moves[n].key \in Keys
                           /\ moves[n].qty \in Int
  <2>1. N \in Nat /\ DOMAIN moves = 1 .. N /\ \A n \in 1 .. N : moves[n] \in MoveSet
    BY LenProperties, ElementOfSeq
  <2>2. \A m \in MoveSet : m.key \in Keys /\ m.qty \in Int
    BY DEF MoveSet
  <2> QED BY <2>1, <2>2
<1>3. 0 \in A
  <2>1. Untouched \in Outcome /\ \A i \in 1 .. N : Qty(Untouched, i) \in Nat
    BY <1>2 DEF Untouched, Outcome, Balances
  <2>2. Good(Untouched, 0)
    <3> HIDE DEF Qty
    <3> QED BY <2>1
  <2> HIDE DEF Good, N
  <2> QED BY <1>1, <1>2, <2>2 DEF Passes
<1>4. ASSUME NEW n \in A, n < N PROVE n + 1 \in A
  <2>0. n \in Nat /\ n + 1 \in 1 .. N /\ n + 1 \in 0 .. N /\ Good(g[n], n)
    BY <1>2, <1>4
  <2> DEFINE m == moves[n + 1]
             done == g[n]
             next == Step(done, m)
  <2>1. g[n + 1] = next /\ m \in MoveSet
    BY <1>1, <1>2, <2>0 DEF Passes
  <2>2. Good(next, n + 1)
    <3>1. done \in Outcome /\ done.stock \in Balances
      BY <2>0 DEF Outcome
    <3>2. next \in Outcome
      BY <3>1, <2>1, StepCases
    <3>3. \A i \in 1 .. N : Qty(done, i) \in Nat /\ Qty(Untouched, i) \in Nat
      BY <1>2, <3>1 DEF Balances, Untouched
    <3> SUFFICES ASSUME ~ next.refused, NEW i \in 1 .. N
                 PROVE  Qty(next, i) = Qty(Untouched, i)
                                       + IF i <= n + 1 THEN moves[i].qty ELSE 0
      BY <3>2
    <3>4. \/ next = done /\ (m.qty = 0 \/ done.refused)
          \/ ~ done.refused /\ next.stock =
               [done.stock EXCEPT ![m.key] = After(done.stock[m.key], m)]
      BY <3>1, <2>1, StepCases
    <3>5. ~ done.refused
      BY <3>4
    <3>6. Qty(done, i) = Qty(Untouched, i) + IF i <= n THEN moves[i].qty ELSE 0
      BY <2>0, <3>5
    <3>7. i = n + 1 => Qty(next, i) = Qty(done, i) + moves[i].qty
      <4>1. CASE next = done /\ m.qty = 0
        <5> HIDE DEF Qty, next, done
        <5> QED BY <3>3, <4>1, <1>2
      <4>2. CASE next.stock = [done.stock EXCEPT ![m.key] = After(done.stock[m.key], m)]
        <5>1. done.stock[m.key] \in [qty : Nat, value : Nat] /\ m.key \in Keys
          BY <3>1, <2>1 DEF Balances, MoveSet
        <5>2. After(done.stock[m.key], m).qty = done.stock[m.key].qty + m.qty
          BY <2>1, <5>1, MoveType
        <5>3. next.stock[m.key].qty = done.stock[m.key].qty + m.qty
          BY <3>1, <4>2, <5>1, <5>2 DEF Balances
        <5> QED BY <5>3
      <4> QED BY <3>4, <3>5, <4>1, <4>2
    <3>8. i # n + 1 => Qty(next, i) = Qty(done, i)
      <4>1. i # n + 1 => moves[i].key # m.key
        BY <1>2, <2>0
      <4>2. moves[i].key \in Keys
        BY <1>2
      <4> QED BY <3>1, <3>4, <4>1, <4>2 DEF Balances
    <3>9. moves[i].qty \in Int
      BY <1>2
    <3> HIDE DEF Qty, next, done, Good, m
    <3> QED BY <2>0, <3>3, <3>6, <3>7, <3>8, <3>9
  <2> HIDE DEF Good, next, done, m
  <2> QED BY <2>0, <2>1, <2>2
<1>5. A = 0 .. N
  <2> HIDE DEF A
  <2>1. A \in SUBSET (0 .. N)
    BY DEF A
  <2> QED BY <1>2, <1>3, <1>4, <2>1, NumbersUpTo
<1>6. Good(Loop(moves), N)
  <2>1. N \in A
    BY <1>2, <1>5
  <2> HIDE DEF Good
  <2> QED BY <1>1, <2>1
<1>7. ASSUME NEW n \in DOMAIN moves
      PROVE  Qty(Loop(moves), n) = Qty(Untouched, n) + moves[n].qty
  BY <1>2, <1>6, <1>7
<1> QED BY <1>7 DEF Untouched

--------------------------------------------------------------------------------
(* What rows add up to.                                                       *)

\* p is what the numbers add up to, before the first and after each.
Adds(p, f) ==
  /\ p[0] = 0
  /\ \A n \in 1 .. Len(f) : p[n] = p[n - 1] + f[n]

\* The recursive function of a total exists.
LEMMA TotalAdds ==
  ASSUME NEW f, Len(f) \in Nat
  PROVE  \E p : Adds(p, f) /\ Total(f) = p[Len(f)]
<1> DEFINE N == Len(f)
           Up(g, n) == /\ g[0] = 0
                       /\ \A m \in 1 .. n : g[m] = g[m - 1] + f[m]
           A == {n \in 0 .. N : \E g : Up(g, n)}
           IsSum(g) == g = [n \in 0 .. N |-> IF n = 0 THEN 0 ELSE g[n - 1] + f[n]]
<1>1. 0 \in A
  <2>1. Up([m \in 0 .. 0 |-> 0], 0)
    OBVIOUS
  <2>2. 0 \in 0 .. N
    OBVIOUS
  <2> HIDE DEF Up, N
  <2> QED BY <2>1, <2>2
<1>2. ASSUME NEW n \in A, n < N PROVE n + 1 \in A
  <2>1. PICK g : Up(g, n)
    BY <1>2
  <2>2. n \in Nat /\ n + 1 \in 0 .. N
    BY <1>2
  <2> DEFINE h == [m \in 0 .. (n + 1) |-> IF m <= n THEN g[m] ELSE g[n] + f[n + 1]]
  <2>3. Up(h, n + 1)
    <3>1. h[0] = 0
      BY <2>1, <2>2
    <3>2. ASSUME NEW m \in 1 .. (n + 1) PROVE h[m] = h[m - 1] + f[m]
      <4>1. CASE m <= n
        BY <2>1, <2>2, <4>1
      <4>2. CASE m = n + 1
        BY <2>2, <4>2
      <4> QED BY <2>2, <4>1, <4>2
    <3> QED BY <3>1, <3>2
  <2> QED BY <2>2, <2>3
<1>3. A = 0 .. N
  <2> HIDE DEF A
  <2>1. A \in SUBSET (0 .. N)
    BY DEF A
  <2> QED BY <1>1, <1>2, <2>1, NumbersUpTo
<1>4. PICK g : Up(g, N)
  <2>1. N \in A
    BY <1>3
  <2> QED BY <2>1
<1> DEFINE h == [n \in 0 .. N |-> g[n]]
<1>5. IsSum(h)
  <2>1. ASSUME NEW n \in 0 .. N
        PROVE  h[n] = IF n = 0 THEN 0 ELSE h[n - 1] + f[n]
    BY <1>4
  <2> QED BY <2>1
<1> DEFINE c == CHOOSE x : IsSum(x)
<1>6. IsSum(c)
  <2> HIDE DEF h
  <2> QED BY <1>5
<1>7. Adds(c, f)
  <2> HIDE DEF c
  <2>1. \A n \in 0 .. N : c[n] = IF n = 0 THEN 0 ELSE c[n - 1] + f[n]
    BY <1>6
  <2> QED BY <2>1 DEF Adds
<1>8. Total(f) = c[N]
  BY DEF Total
<1> QED BY <1>7, <1>8

\* Numbers, and after them what takes each of them back, add up to nothing.
LEMMA TakenBack ==
  ASSUME NEW f, NEW n \in Nat, Len(f) = n + n,
         \A i \in 1 .. n : f[i] \in Int /\ f[n + i] = - f[i]
  PROVE  Total(f) = 0
<1>1. PICK p : Adds(p, f) /\ Total(f) = p[n + n]
  BY TotalAdds
<1>2. \A i \in 1 .. (n + n) : p[i] = p[i - 1] + f[i]
  BY <1>1 DEF Adds
<1>3. p[0] = 0
  BY <1>1 DEF Adds
<1> DEFINE A == {i \in 0 .. n : p[i] \in Int}
<1>4. A = 0 .. n
  <2>1. 0 \in A
    BY <1>3
  <2>2. ASSUME NEW i \in A, i < n PROVE i + 1 \in A
    <3>1. i \in Nat /\ i + 1 \in 1 .. n /\ i + 1 \in 1 .. (n + n) /\ (i + 1) - 1 = i
          /\ i + 1 \in 0 .. n /\ p[i] \in Int
      BY <2>2
    <3>2. p[i + 1] = p[i] + f[i + 1] /\ f[i + 1] \in Int
      BY <1>2, <3>1
    <3> QED BY <3>1, <3>2
  <2> HIDE DEF A
  <2>3. A \in SUBSET (0 .. n)
    BY DEF A
  <2> QED BY <2>1, <2>2, <2>3, NumbersUpTo
<1> DEFINE B == {i \in 0 .. n : p[n + i] = p[n] - p[i]}
<1>5. p[n] \in Int /\ \A i \in 0 .. n : p[i] \in Int
  <2>1. n \in 0 .. n
    OBVIOUS
  <2> QED BY <1>4, <2>1
<1>6. B = 0 .. n
  <2>1. 0 \in B
    BY <1>3, <1>5
  <2>2. ASSUME NEW i \in B, i < n PROVE i + 1 \in B
    <3>1. /\ i \in Nat /\ i + 1 \in 1 .. n /\ i + 1 \in 1 .. (n + n) /\ i + 1 \in 0 .. n
          /\ (i + 1) - 1 = i /\ n + (i + 1) \in 1 .. (n + n) /\ (n + (i + 1)) - 1 = n + i
          /\ p[n + i] = p[n] - p[i] /\ i \in 0 .. n
      BY <2>2
    <3>2. p[i + 1] = p[i] + f[i + 1] /\ f[i + 1] \in Int
      BY <1>2, <3>1
    <3>3. p[n + (i + 1)] = p[n + i] + f[n + (i + 1)]
      BY <1>2, <3>1
    <3>4. f[n + (i + 1)] = - f[i + 1]
      BY <3>1
    <3>5. p[n + (i + 1)] = p[n] - p[i + 1]
      <4>1. PICK a, b, c, e \in Int : a = p[n] /\ b = p[i] /\ c = f[i + 1] /\ e = p[i + 1]
        BY <1>5, <3>1, <3>2
      <4>2. p[n + (i + 1)] = (a - b) + (- c) /\ e = b + c
        BY <3>1, <3>2, <3>3, <3>4, <4>1
      <4>3. (a - b) + (- c) = a - (b + c)
        OBVIOUS
      <4> QED BY <4>1, <4>2, <4>3
    <3> QED BY <3>1, <3>5
  <2> HIDE DEF B
  <2>3. B \in SUBSET (0 .. n)
    BY DEF B
  <2> QED BY <2>1, <2>2, <2>3, NumbersUpTo
<1>7. p[n + n] = p[n] - p[n]
  <2>1. n \in 0 .. n
    OBVIOUS
  <2>2. n \in B
    <3> HIDE DEF B
    <3> QED BY <1>6, <2>1
  <2> QED BY <2>2
<1> QED BY <1>1, <1>5, <1>7

\* No numbers add up to nothing.
LEMMA TotalNothing == \A f : Len(f) = 0 => Total(f) = 0
<1> SUFFICES ASSUME NEW f, Len(f) = 0 PROVE Total(f) = 0
  OBVIOUS
<1>1. PICK p : Adds(p, f) /\ Total(f) = p[0]
  BY TotalAdds
<1> QED BY <1>1 DEF Adds

--------------------------------------------------------------------------------
(* The inductive invariant.                                                   *)

\* A document keeps the lines it was drafted with; only a count's sheet changes its
\* quantities, to those of the book.
LinesOf(d, lines) ==
  /\ DOMAIN lines = DOMAIN Lines[d]
  /\ \A n \in DOMAIN lines :
       /\ lines[n].item = Lines[d][n].item
       /\ d \notin Counts => lines[n].qty = Lines[d][n].qty

\* What a sheet says about a gap: the difference that was counted is the gap that was
\* seen, and the variance is the gap that is owed.
Sheet(lines) ==
  \A n \in DOMAIN lines :
    /\ lines[n].seen # Never =>
         lines[n].noted # Never /\ lines[n].noted - lines[n].qty = - lines[n].seen
    /\ lines[n].owed # Never => lines[n].variance = - lines[n].owed

\* All lines of a transfer that is on its way were sent.
Sent(lines) == \A n \in DOMAIN lines : lines[n].noted \in Nat

\* A version of a document, the one in the table or one that a request has read.
Fits(d, version) ==
  /\ LinesOf(d, version.lines)
  /\ d \in Counts => Sheet(version.lines)
  /\ d \in Transfers /\ version.status = "dispatched" => Sent(version.lines)

\* Every document in the table fits.
DocInv == \A d \in Docs : Fits(d, doc[d])

\* A count that is not drafted yet has an empty sheet.
BlankInv ==
  \A c \in Counts : doc[c].status = "none" =>
    \A n \in DOMAIN doc[c].lines :
      doc[c].lines[n].seen = Never /\ doc[c].lines[n].owed = Never

\* A request in flight has read a document in a status that its handler asks for.
TxnInv ==
  \A s \in Requests : txn[s] # Idle =>
    /\ Fits(txn[s].doc, txn[s].read)
    /\ Allowed(txn[s].act, txn[s].doc, txn[s].read)
    /\ doc[txn[s].doc].status # "none"

\* No row of the stock ledger is of no units.
RowsInv == \A d \in Docs : \A n \in DOMAIN ledger[d] : ledger[d][n].qty # 0

\* Rows that come to nothing in every balance.
Nothing(rows) ==
  \A k \in Keys : Total(Units(rows, k)) = 0 /\ Total(Cents(rows, k)) = 0

\* A void document has moved nothing, unless a refused request came after it.
VoidInv ==
  \A d \in (Bills \cup Invoices) \ late :
    doc[d].status = "void" => Nothing(ledger[d])

Inv == TypeOK /\ DocInv /\ BlankInv /\ TxnInv /\ RowsInv /\ VoidInv

\* A list made of the elements of another, one by one.
LEMMA ListOf ==
  ASSUME NEW T, NEW lines \in Seq(T), NEW S, NEW f \in [DOMAIN lines -> S]
  PROVE  f \in Seq(S) /\ Len(f) = Len(lines) /\ DOMAIN f = DOMAIN lines
<1>1. Len(lines) \in Nat /\ DOMAIN lines = 1 .. Len(lines)
  BY LenProperties
<1>2. f \in Seq(S) /\ DOMAIN f = 1 .. Len(lines)
  BY <1>1
<1>3. Len(f) = Len(lines)
  BY <1>1, <1>2, LenProperties
<1> QED BY <1>1, <1>2, <1>3

\* An element of a list is one of those the list is made of.
LEMMA ElementAt ==
  ASSUME NEW S, NEW seq \in Seq(S), NEW n \in DOMAIN seq
  PROVE  seq[n] \in S
BY LenProperties, ElementOfSeq

\* The lines of a document are lines.
LEMMA LineAt ==
  ASSUME NEW lines \in Seq(LineType), NEW n \in DOMAIN lines
  PROVE  /\ lines[n] \in LineType
         /\ lines[n].item \in Items /\ lines[n].qty \in Nat /\ lines[n].cost \in Nat
         /\ lines[n].noted \in Column /\ lines[n].variance \in Int
         /\ lines[n].seen \in Column /\ lines[n].owed \in Column
<1>1. lines[n] \in LineType
  BY ElementAt
<1> QED BY <1>1 DEF LineType

\* The items of the lines of a document are those it was drafted with, and so are
\* its quantities, none of them zero, unless it is a count.
LEMMA DraftAt ==
  ASSUME NEW d \in Docs, NEW n \in DOMAIN Lines[d]
  PROVE  /\ Lines[d][n] \in [item : Items, qty : Nat \ {0}, cost : Nat]
         /\ Lines[d][n].qty # 0
<1>1. Lines[d] \in Seq([item : Items, qty : Nat \ {0}, cost : Nat])
  BY LinesAssumption
<1>2. Lines[d][n] \in [item : Items, qty : Nat \ {0}, cost : Nat]
  BY <1>1, ElementAt
<1> QED BY <1>2

\* The invariant holds at the start.
LEMMA InitInv == Init => Inv
<1> SUFFICES ASSUME Init PROVE Inv
  OBVIOUS
<1>1. ASSUME NEW d \in Docs
      PROVE  /\ Drafted(d) \in Seq(LineType)
             /\ DOMAIN Drafted(d) = DOMAIN Lines[d]
             /\ \A n \in DOMAIN Lines[d] : Drafted(d)[n] = DraftLine(Lines[d][n])
  <2>1. Lines[d] \in Seq([item : Items, qty : Nat \ {0}, cost : Nat])
    BY LinesAssumption
  <2>2. \A n \in DOMAIN Lines[d] : DraftLine(Lines[d][n]) \in LineType
    BY DraftAt DEF DraftLine, LineType, Column
  <2>3. Drafted(d) \in [DOMAIN Lines[d] -> LineType]
    BY <2>2 DEF Drafted
  <2>4. Drafted(d) \in Seq(LineType)
    BY <2>1, <2>3, ListOf
  <2> QED BY <2>4 DEF Drafted
<1>2. \A d \in Docs : doc[d].lines = Drafted(d)
                      /\ doc[d].status = IF d \in Counts THEN "none" ELSE "draft"
  BY DEF Init
<1> DEFINE Blank(line, drafted) == /\ line.item = drafted.item /\ line.qty = drafted.qty
                                   /\ line.seen = Never /\ line.owed = Never
<1>a. \A d \in Docs : /\ DOMAIN doc[d].lines = DOMAIN Lines[d]
                      /\ \A n \in DOMAIN doc[d].lines : Blank(doc[d].lines[n], Lines[d][n])
  <2>1. \A drafted : Blank(DraftLine(drafted), drafted)
    BY DEF DraftLine
  <2> HIDE DEF Blank
  <2> QED BY <1>1, <1>2, <2>1
<1>3. \A d \in Docs : doc[d] \in DocType
  <2>1. \A d \in Docs : [status |-> IF d \in Counts THEN "none" ELSE "draft",
                         lines  |-> Drafted(d)] \in DocType
    BY <1>1 DEF DocType, Statuses
  <2> QED BY <2>1 DEF Init
<1>4. TypeOK
  <2>1. stock \in [Keys -> [qty : Nat, value : Nat]]
    BY BoundsAssumption DEF Init
  <2>2. doc \in [Docs -> DocType]
    BY <1>3 DEF Init
  <2>3. ledger \in [Docs -> Seq([key : Keys, qty : Int, value : Int])]
    BY DEF Init
  <2>4. gap \in [Keys -> Int] /\ late \subseteq Docs
    BY DEF Init
  <2>5. txn \in [Requests -> {Idle} \cup [act : Acts, doc : Docs, read : DocType]]
    BY DEF Init
  <2>6. begun \in 0 .. MaxRequests /\ lost \in 0 .. MaxLost
    BY BoundsAssumption DEF Init
  <2> QED BY <2>1, <2>2, <2>3, <2>4, <2>5, <2>6 DEF TypeOK
<1>5. DocInv
  <2> SUFFICES ASSUME NEW d \in Docs PROVE Fits(d, doc[d])
    BY DEF DocInv
  <2>1. LinesOf(d, doc[d].lines)
    BY <1>a DEF LinesOf
  <2>2. Sheet(doc[d].lines)
    BY <1>a DEF Sheet
  <2>3. doc[d].status # "dispatched"
    BY <1>2
  <2> QED BY <2>1, <2>2, <2>3 DEF Fits
<1>6. BlankInv
  BY <1>a DEF BlankInv, Docs
<1>7. TxnInv
  BY DEF TxnInv, Init
<1>8. RowsInv
  BY DEF RowsInv, Init
<1>9. VoidInv
  BY <1>2 DEF VoidInv, Docs
<1> QED BY <1>4, <1>5, <1>6, <1>7, <1>8, <1>9 DEF Inv

--------------------------------------------------------------------------------
(* Each step keeps it.                                                        *)

\* A request: idle, or with the document it has read.
Txns == {Idle} \cup [act : Acts, doc : Docs, read : DocType]

\* A step that gives one document a new version that fits it, and writes rows for it.
LEMMA VersionKeeps ==
  ASSUME Inv,
         NEW d \in Docs, NEW new \in DocType, Fits(d, new), new.status # "none",
         doc' = [doc EXCEPT ![d] = new],
         NEW rows \in Seq(Row), \A i \in DOMAIN rows : rows[i].qty # 0,
         ledger' = [ledger EXCEPT ![d] = @ \o rows],
         d \in (Bills \cup Invoices) \ late' /\ new.status = "void" =>
           Nothing(ledger[d] \o rows),
         stock' \in Balances, gap' \in [Keys -> Int],
         late \subseteq late', late' \subseteq Docs,
         txn' \in [Requests -> Txns],
         \A r \in Requests : txn'[r] # Idle => txn'[r] = txn[r],
         begun' = begun, lost' = lost
  PROVE  Inv'
<1> USE DEF Inv
<1>1. /\ doc' \in [Docs -> DocType] /\ doc'[d] = new
      /\ \A e \in Docs : e # d => doc'[e] = doc[e]
  BY DEF TypeOK
<1>2. /\ ledger \in [Docs -> Seq(Row)] /\ ledger' \in [Docs -> Seq(Row)]
      /\ ledger'[d] = ledger[d] \o rows
      /\ \A e \in Docs : e # d => ledger'[e] = ledger[e]
  <2>1. ledger \in [Docs -> Seq(Row)]
    BY DEF TypeOK, Row
  <2>2. ledger[d] \o rows \in Seq(Row)
    BY <2>1, ConcatProperties
  <2> QED BY <2>1, <2>2
<1>3. TypeOK'
  BY <1>1, <1>2 DEF TypeOK, Row, Balances, Txns
<1>4. DocInv'
  BY <1>1 DEF DocInv, Fits, LinesOf, Sheet, Sent
<1>5. BlankInv'
  BY <1>1 DEF BlankInv, Docs
<1>6. TxnInv'
  <2> SUFFICES ASSUME NEW r \in Requests, txn'[r] # Idle
               PROVE  /\ Fits(txn'[r].doc, txn'[r].read)
                      /\ Allowed(txn'[r].act, txn'[r].doc, txn'[r].read)
                      /\ doc'[txn'[r].doc].status # "none"
    BY DEF TxnInv, Fits, LinesOf, Sheet, Sent, Allowed, Idle
  <2>1. txn'[r] = txn[r] /\ txn[r] # Idle
    OBVIOUS
  <2>2. txn[r] \in [act : Acts, doc : Docs, read : DocType]
    BY <2>1 DEF TypeOK
  <2>3. doc[txn[r].doc].status # "none" /\ txn[r].doc \in Docs
    BY <2>1, <2>2 DEF TxnInv
  <2>4. doc'[txn[r].doc].status # "none"
    BY <1>1, <2>3
  <2> QED BY <2>1, <2>4 DEF TxnInv
<1>7. RowsInv'
  <2> SUFFICES ASSUME NEW e \in Docs, NEW n \in DOMAIN ledger'[e]
               PROVE  ledger'[e][n].qty # 0
    BY DEF RowsInv
  <2>1. CASE e # d
    BY <1>2, <2>1 DEF RowsInv
  <2>2. CASE e = d
    <3>1. /\ ledger[d] \in Seq(Row) /\ Len(ledger[d]) \in Nat /\ Len(rows) \in Nat
          /\ n \in 1 .. (Len(ledger[d]) + Len(rows))
          /\ DOMAIN ledger[d] = 1 .. Len(ledger[d]) /\ DOMAIN rows = 1 .. Len(rows)
      BY <1>2, <2>2, LenProperties, ConcatProperties
    <3>2. (ledger[d] \o rows)[n] = IF n <= Len(ledger[d]) THEN ledger[d][n]
                                   ELSE rows[n - Len(ledger[d])]
      BY <3>1, ConcatProperties
    <3>3. CASE n <= Len(ledger[d])
      BY <1>2, <2>2, <3>1, <3>2, <3>3 DEF RowsInv
    <3>4. CASE ~ (n <= Len(ledger[d]))
      <4>1. n - Len(ledger[d]) \in DOMAIN rows
        BY <3>1, <3>4
      <4> QED BY <1>2, <2>2, <3>2, <3>4, <4>1
    <3> QED BY <3>3, <3>4
  <2> QED BY <2>1, <2>2
<1>8. VoidInv'
  <2> SUFFICES ASSUME NEW e \in (Bills \cup Invoices) \ late', doc'[e].status = "void"
               PROVE  Nothing(ledger'[e])
    BY DEF VoidInv, Nothing, Units, Cents, Total
  <2>1. e \in Docs /\ e \in (Bills \cup Invoices) \ late
    BY DEF Docs
  <2>2. CASE e # d
    BY <1>1, <1>2, <2>1, <2>2 DEF VoidInv
  <2>3. CASE e = d
    BY <1>1, <1>2, <2>1, <2>3
  <2> QED BY <2>2, <2>3
<1> QED BY <1>3, <1>4, <1>5, <1>6, <1>7, <1>8

\* The same, of a handler that works on the document only.
LEMMA EditKeeps ==
  ASSUME Inv,
         NEW d \in Transfers \cup Counts, NEW new \in DocType, Fits(d, new),
         new.status # "none",
         doc' = [doc EXCEPT ![d] = new],
         txn' \in [Requests -> Txns],
         \A r \in Requests : txn'[r] # Idle => txn'[r] = txn[r],
         UNCHANGED <<stock, ledger, gap, late, begun, lost>>
  PROVE  Inv'
<1>0. d \in Docs /\ d \notin Bills \cup Invoices
  BY KindsAssumption DEF Docs
<1>1. /\ stock \in Balances /\ gap \in [Keys -> Int] /\ late \subseteq Docs
      /\ ledger \in [Docs -> Seq(Row)]
  BY DEF Inv, TypeOK, Balances, Row
<1>2. ledger' = [ledger EXCEPT ![d] = @ \o <<>>]
  <2>1. ledger[d] \o <<>> = ledger[d]
    BY <1>0, <1>1, ConcatEmptySeq
  <2> QED BY <1>1, <2>1
<1>3. << >> \in Seq(Row) /\ DOMAIN << >> = {}
  OBVIOUS
<1> QED BY <1>0, <1>1, <1>2, <1>3, VersionKeeps

\* A request in flight: what it has read, and of what it is.
LEMMA InFlight ==
  ASSUME Inv, NEW s \in Requests, NEW act, Doing(s, act)
  PROVE  /\ txn[s] # Idle /\ txn[s].act = act
         /\ txn[s].doc \in Docs /\ txn[s].read \in DocType
         /\ txn[s].read.lines \in Seq(LineType)
         /\ Fits(txn[s].doc, txn[s].read)
         /\ Allowed(act, txn[s].doc, txn[s].read)
         /\ doc[txn[s].doc] \in DocType /\ Fits(txn[s].doc, doc[txn[s].doc])
         /\ doc[txn[s].doc].lines \in Seq(LineType)
         /\ doc[txn[s].doc].status \in Statuses \ {"none"}
         /\ DOMAIN txn[s].read.lines = DOMAIN doc[txn[s].doc].lines
<1>1. txn[s] # Idle /\ txn[s].act = act
  BY DEF Doing
<1>2. txn[s] \in [act : Acts, doc : Docs, read : DocType]
  BY <1>1 DEF Inv, TypeOK
<1>3. txn[s].doc \in Docs /\ txn[s].read \in DocType /\ doc[txn[s].doc] \in DocType
  BY <1>2 DEF Inv, TypeOK
<1>4. /\ txn[s].read.lines \in Seq(LineType) /\ doc[txn[s].doc].lines \in Seq(LineType)
      /\ doc[txn[s].doc].status \in Statuses
  BY <1>3 DEF DocType
<1>5. /\ Fits(txn[s].doc, txn[s].read) /\ Allowed(act, txn[s].doc, txn[s].read)
      /\ doc[txn[s].doc].status # "none"
  BY <1>1 DEF Inv, TxnInv
<1>6. Fits(txn[s].doc, doc[txn[s].doc])
  BY <1>3 DEF Inv, DocInv
<1>7. DOMAIN txn[s].read.lines = DOMAIN doc[txn[s].doc].lines
  BY <1>5, <1>6 DEF Fits, LinesOf
<1> QED BY <1>1, <1>3, <1>4, <1>5, <1>6, <1>7

\* What each handler asks for.
LEMMA Asked ==
  ASSUME NEW d, NEW read
  PROVE  /\ Allowed("post", d, read) =>
              d \in Bills \cup Invoices /\ read.status = "draft"
         /\ Allowed("dispatch", d, read) => d \in Transfers
         /\ Allowed("receive", d, read) => d \in Transfers /\ read.status = "dispatched"
         /\ Allowed("enter", d, read) => d \in Counts
         /\ Allowed("review", d, read) =>
              /\ d \in Counts
              /\ \A n \in DOMAIN read.lines : read.lines[n].noted # Never
         /\ Allowed("approve", d, read) => d \in Counts
         /\ Allowed("settle", d, read) => d \in Counts
         /\ Allowed("cancel", d, read) => d \in Transfers \cup Counts
BY DEF Allowed

\* A request that ends leaves the others in flight.
LEMMA EndOthers ==
  ASSUME Inv, NEW s \in Requests, End(s)
  PROVE  /\ txn' \in [Requests -> Txns]
         /\ \A r \in Requests : txn'[r] # Idle => txn'[r] = txn[r]
BY DEF Inv, TypeOK, End, Txns

\* A handler that moves stock.
LEMMA CommitKeeps ==
  ASSUME Inv, NEW s \in Requests, NEW act, Doing(s, act),
         NEW done \in Outcome, \A i \in DOMAIN done.rows : done.rows[i].qty # 0,
         NEW refused \in BOOLEAN,
         NEW new \in DocType, Fits(txn[s].doc, new), new.status # "none",
         new.status = "void" /\ txn[s].doc \in Bills \cup Invoices =>
           \/ refused /\ doc[txn[s].doc].status # txn[s].read.status
           \/ Nothing(ledger[txn[s].doc] \o done.rows),
         Commit(s, done, refused, new)
  PROVE  Inv'
<1> DEFINE d == txn[s].doc
<1>1. d \in Docs /\ gap \in [Keys -> Int] /\ stock \in Balances /\ late \subseteq Docs
  BY InFlight DEF Inv, TypeOK, Balances
<1>2. done.stock \in Balances /\ done.rows \in Seq(Row)
  BY DEF Outcome
<1>3. /\ stock' = done.stock /\ ledger' = [ledger EXCEPT ![d] = @ \o done.rows]
      /\ doc' = [doc EXCEPT ![d] = new] /\ begun' = begun /\ lost' = lost
  BY DEF Commit
<1>4. gap' \in [Keys -> Int]
  <2>1. \A k \in Keys : gap[k] \in Int /\ done.stock[k].qty \in Int /\ stock[k].qty \in Int
    BY <1>1, <1>2 DEF Balances
  <2> QED BY <2>1 DEF Commit
<1>5. /\ late \subseteq late' /\ late' \subseteq Docs
      /\ refused /\ doc[d].status # txn[s].read.status => d \in late'
  BY <1>1 DEF Commit
<1>6. d \in (Bills \cup Invoices) \ late' /\ new.status = "void" =>
        Nothing(ledger[d] \o done.rows)
  BY <1>5
<1>7. /\ txn' \in [Requests -> Txns]
      /\ \A r \in Requests : txn'[r] # Idle => txn'[r] = txn[r]
  <2>1. End(s)
    BY DEF Commit
  <2> QED BY <2>1, EndOthers
<1> HIDE DEF d
<1>8. Fits(d, new)
  BY DEF d
<1> QED BY <1>1, <1>2, <1>3, <1>4, <1>5, <1>6, <1>7, <1>8, VersionKeeps

\* A move of an item in a warehouse.
LEMMA MoveOf ==
  \A item \in Items, w \in Warehouses, qty \in Int, value \in Column :
    /\ Move(item, w, qty, value) \in MoveSet
    /\ Move(item, w, qty, value).key = <<item, w>>
    /\ Move(item, w, qty, value).qty = qty
    /\ Move(item, w, qty, value).value = value
BY DEF Move, MoveSet, Keys

\* Documents name warehouses.
LEMMA Warehouse ==
  /\ \A d \in Docs : At[d] \in Warehouses
  /\ \A t \in Transfers : To[t] \in Warehouses
BY LinesAssumption

\* Another status, the same lines.
LEMMA WithStatus ==
  ASSUME NEW d \in Docs, NEW version \in DocType, Fits(d, version),
         NEW status \in Statuses, status # "dispatched" \/ status = version.status
  PROVE  /\ [version EXCEPT !.status = status] \in DocType
         /\ Fits(d, [version EXCEPT !.status = status])
         /\ [version EXCEPT !.status = status].status = status
         /\ [version EXCEPT !.status = status].lines = version.lines
<1> DEFINE new == [version EXCEPT !.status = status]
<1>1. new \in DocType /\ new.status = status /\ new.lines = version.lines
  BY DEF DocType
<1> HIDE DEF new
<1>2. Fits(d, new)
  BY <1>1 DEF Fits
<1> QED BY <1>1, <1>2 DEF new

\* A step that changes no document and writes no row.
LEMMA SameKeeps ==
  ASSUME Inv, doc' = doc, ledger' = ledger, late' = late
  PROVE  DocInv' /\ BlankInv' /\ RowsInv' /\ VoidInv'
<1>1. DocInv' /\ BlankInv'
  BY DEF Inv, DocInv, BlankInv, Fits, LinesOf, Sheet, Sent
<1>2. RowsInv'
  BY DEF Inv, RowsInv
<1>3. VoidInv'
  <2> SUFFICES ASSUME NEW d \in (Bills \cup Invoices) \ late', doc'[d].status = "void"
               PROVE  Nothing(ledger'[d])
    BY DEF VoidInv, Nothing, Units, Cents, Total
  <2> QED BY DEF Inv, VoidInv
<1> QED BY <1>1, <1>2, <1>3

\* Requests that keep what they read fit as long as the documents do not change.
LEMMA TxnKeeps ==
  ASSUME Inv, doc' = doc, \A r \in Requests : txn'[r] # Idle => txn'[r] = txn[r]
  PROVE  TxnInv'
<1> SUFFICES ASSUME NEW r \in Requests, txn'[r] # Idle
             PROVE  /\ Fits(txn'[r].doc, txn'[r].read)
                    /\ Allowed(txn'[r].act, txn'[r].doc, txn'[r].read)
                    /\ doc[txn'[r].doc].status # "none"
  BY DEF TxnInv, Fits, LinesOf, Sheet, Sent, Allowed, Idle
<1>1. txn'[r] = txn[r]
  OBVIOUS
<1> QED BY <1>1 DEF Inv, TxnInv

\* A request begins: what it reads is in the table, in a status it asks for.
LEMMA BeginKeeps ==
  ASSUME Inv, NEW s \in Requests, NEW act \in Acts, NEW d \in Docs, Begin(s, act, d)
  PROVE  Inv'
<1> DEFINE t == [act |-> act, doc |-> d, read |-> doc[d]]
<1>1. /\ txn' = [txn EXCEPT ![s] = t] /\ Allowed(act, d, doc[d])
      /\ begun < MaxRequests /\ begun' = begun + 1
      /\ UNCHANGED <<stock, doc, ledger, gap, late, lost>>
  BY DEF Begin
<1>2. doc[d] \in DocType /\ t \in Txns
  BY DEF Inv, TypeOK, Txns
<1>3. TypeOK'
  <2>1. begun' \in 0 .. MaxRequests
    BY <1>1, BoundsAssumption DEF Inv, TypeOK
  <2>2. txn' \in [Requests -> Txns]
    BY <1>1, <1>2 DEF Inv, TypeOK, Txns
  <2> HIDE DEF t
  <2> QED BY <1>1, <2>1, <2>2 DEF Inv, TypeOK, Txns
<1>4. DocInv' /\ BlankInv' /\ RowsInv' /\ VoidInv'
  BY <1>1, SameKeeps
<1>5. TxnInv'
  <2> SUFFICES ASSUME NEW r \in Requests, txn'[r] # Idle
               PROVE  /\ Fits(txn'[r].doc, txn'[r].read)
                      /\ Allowed(txn'[r].act, txn'[r].doc, txn'[r].read)
                      /\ doc[txn'[r].doc].status # "none"
    BY <1>1 DEF TxnInv, Fits, LinesOf, Sheet, Sent, Allowed, Idle
  <2>1. CASE r = s
    <3>1. txn'[r] = t
      BY <1>1, <2>1 DEF Inv, TypeOK
    <3>2. Fits(d, doc[d])
      BY DEF Inv, DocInv
    <3>3. doc[d].status # "none"
      BY <1>1 DEF Allowed, Acts
    <3> QED BY <1>1, <3>1, <3>2, <3>3
  <2>2. CASE r # s
    <3>1. txn'[r] = txn[r]
      BY <1>1, <2>2 DEF Inv, TypeOK
    <3> QED BY <3>1 DEF Inv, TxnInv
  <2> QED BY <2>1, <2>2
<1> QED BY <1>3, <1>4, <1>5 DEF Inv

\* Posting a bill, whole or refused at a line.
LEMMA PostBillKeeps ==
  ASSUME Inv, NEW s \in Requests, PostBill(s)
  PROVE  Inv'
<1> DEFINE d     == txn[s].doc
           lines == txn[s].read.lines
           moves == [n \in DOMAIN lines |->
                       Move(lines[n].item, At[d], lines[n].qty,
                            lines[n].qty * lines[n].cost)]
<1>1. Doing(s, "post") /\ d \in Bills
  BY DEF PostBill
<1>2. PICK taken \in 0 .. Len(lines) :
        Commit(s, Loop(SubSeq(moves, 1, taken)), taken < Len(lines),
               [doc[d] EXCEPT !.status = IF taken < Len(lines) THEN @ ELSE "posted"])
  BY DEF PostBill
<1> DEFINE refused == taken < Len(lines)
           done == Loop(SubSeq(moves, 1, taken))
           new == [doc[d] EXCEPT !.status = IF refused THEN @ ELSE "posted"]
<1>3. /\ d \in Docs /\ lines \in Seq(LineType) /\ txn[s].read.status = "draft"
      /\ doc[d] \in DocType /\ Fits(d, doc[d]) /\ doc[d].status \in Statuses \ {"none"}
  BY <1>1, InFlight DEF Allowed
<1>4. moves \in Seq(MoveSet) /\ Len(moves) = Len(lines) /\ Len(lines) \in Nat
  <2>1. ASSUME NEW n \in DOMAIN lines
        PROVE  Move(lines[n].item, At[d], lines[n].qty, lines[n].qty * lines[n].cost)
                 \in MoveSet
    <3>1. /\ lines[n].item \in Items /\ lines[n].qty \in Int
          /\ lines[n].qty * lines[n].cost \in Column /\ At[d] \in Warehouses
      BY <1>3, LineAt, Warehouse, Products DEF Column
    <3> QED BY <3>1, MoveOf
  <2>2. moves \in [DOMAIN lines -> MoveSet]
    BY <2>1
  <2> HIDE DEF moves
  <2> QED BY <1>3, <2>2, ListOf, LenProperties
<1>5. SubSeq(moves, 1, taken) \in Seq(MoveSet)
  BY <1>4, SubSeqProperties
<1>6. done \in Outcome /\ \A i \in DOMAIN done.rows : done.rows[i].qty # 0
  BY <1>5, LoopType DEF Inv, TypeOK, Balances
<1>7. /\ new = [doc[d] EXCEPT !.status = IF refused THEN doc[d].status ELSE "posted"]
      /\ (IF refused THEN doc[d].status ELSE "posted") \in Statuses \ {"none"}
  BY <1>3 DEF Statuses
<1>8. /\ new \in DocType /\ Fits(d, new) /\ new.status # "none"
      /\ new.status = "void" => refused /\ doc[d].status = "void"
  <2> HIDE DEF refused, new
  <2> QED BY <1>3, <1>7, WithStatus
<1>9. new.status = "void" => refused /\ doc[d].status # txn[s].read.status
  BY <1>3, <1>8
<1> HIDE DEF done, new
<1>10. refused \in BOOLEAN /\ Commit(s, done, refused, new)
  BY <1>2 DEF done, new
<1> QED BY <1>1, <1>6, <1>8, <1>9, <1>10, CommitKeeps

\* Posting an invoice, whole or refused at a line.
LEMMA PostInvoiceKeeps ==
  ASSUME Inv, NEW s \in Requests, PostInvoice(s)
  PROVE  Inv'
<1> DEFINE d     == txn[s].doc
           lines == txn[s].read.lines
           moves == [n \in DOMAIN lines |->
                       Move(lines[n].item, At[d], -lines[n].qty, Never)]
<1>1. Doing(s, "post") /\ d \in Invoices
  BY DEF PostInvoice
<1>2. PICK taken \in 0 .. Len(lines) :
        Commit(s, Loop(SubSeq(moves, 1, taken)),
               Loop(SubSeq(moves, 1, taken)).refused \/ taken < Len(lines),
               [doc[d] EXCEPT !.status =
                  IF Loop(SubSeq(moves, 1, taken)).refused \/ taken < Len(lines)
                    THEN @ ELSE "posted"])
  BY DEF PostInvoice
<1> DEFINE done == Loop(SubSeq(moves, 1, taken))
           refused == done.refused \/ taken < Len(lines)
           new == [doc[d] EXCEPT !.status = IF refused THEN @ ELSE "posted"]
<1>3. /\ d \in Docs /\ lines \in Seq(LineType) /\ txn[s].read.status = "draft"
      /\ doc[d] \in DocType /\ Fits(d, doc[d]) /\ doc[d].status \in Statuses \ {"none"}
  BY <1>1, InFlight DEF Allowed
<1>4. moves \in Seq(MoveSet) /\ Len(moves) = Len(lines) /\ Len(lines) \in Nat
  <2>1. ASSUME NEW n \in DOMAIN lines
        PROVE  Move(lines[n].item, At[d], -lines[n].qty, Never) \in MoveSet
    <3>1. /\ lines[n].item \in Items /\ -lines[n].qty \in Int
          /\ Never \in Column /\ At[d] \in Warehouses
      BY <1>3, LineAt, Warehouse DEF Column
    <3> QED BY <3>1, MoveOf
  <2>2. moves \in [DOMAIN lines -> MoveSet]
    BY <2>1
  <2> HIDE DEF moves
  <2> QED BY <1>3, <2>2, ListOf, LenProperties
<1>5. SubSeq(moves, 1, taken) \in Seq(MoveSet)
  BY <1>4, SubSeqProperties
<1>6. done \in Outcome /\ \A i \in DOMAIN done.rows : done.rows[i].qty # 0
  BY <1>5, LoopType DEF Inv, TypeOK, Balances
<1>7. /\ new = [doc[d] EXCEPT !.status = IF refused THEN doc[d].status ELSE "posted"]
      /\ (IF refused THEN doc[d].status ELSE "posted") \in Statuses \ {"none"}
  BY <1>3 DEF Statuses
<1>8. /\ new \in DocType /\ Fits(d, new) /\ new.status # "none"
      /\ new.status = "void" => refused /\ doc[d].status = "void"
  <2> HIDE DEF refused, new
  <2> QED BY <1>3, <1>7, WithStatus
<1>9. new.status = "void" => refused /\ doc[d].status # txn[s].read.status
  BY <1>3, <1>8
<1> HIDE DEF done, new
<1>10. refused \in BOOLEAN /\ Commit(s, done, refused, new)
  BY <1>2, <1>6 DEF done, new, Outcome
<1> QED BY <1>1, <1>6, <1>8, <1>9, <1>10, CommitKeeps

\* One list after another.
LEMMA TwoLists ==
  ASSUME NEW S, NEW a \in Seq(S), NEW b \in Seq(S)
  PROVE  a \o b \in Seq(S) /\ Len(a \o b) = Len(a) + Len(b) /\ Len(a) \in Nat
BY LenProperties, ConcatProperties

\* What is taken back row by row has moved nothing together with the rows.
LEMMA BackAndForth ==
  ASSUME NEW rows \in Seq(Row), NEW back \in Seq(Row), Len(back) = Len(rows),
         \A i \in 1 .. Len(rows) : /\ back[i].key = rows[i].key
                                   /\ back[i].qty = - rows[i].qty
                                   /\ back[i].value = - rows[i].value
  PROVE  Nothing(rows \o back)
<1> DEFINE n == Len(rows)
           all == rows \o back
<1>1. n \in Nat /\ all \in Seq(Row) /\ Len(all) = n + n /\ DOMAIN all = 1 .. (n + n)
  <2>1. n \in Nat /\ all \in Seq(Row) /\ Len(all) = n + n
    BY TwoLists
  <2> HIDE DEF all
  <2> QED BY <2>1, LenProperties
<1>2. ASSUME NEW i \in 1 .. n
      PROVE  /\ i \in DOMAIN all /\ n + i \in DOMAIN all
             /\ all[i] = rows[i] /\ all[n + i] = back[i]
             /\ rows[i].qty \in Int /\ rows[i].value \in Int
  <2>1. i \in 1 .. (n + n) /\ n + i \in 1 .. (n + n) /\ i <= n /\ ~ (n + i <= n)
        /\ (n + i) - n = i
    BY <1>1
  <2>2. all[i] = rows[i] /\ all[n + i] = back[i]
    BY <2>1, ConcatProperties
  <2>3. rows[i] \in Row
    BY ElementOfSeq
  <2> QED BY <1>1, <2>1, <2>2, <2>3 DEF Row
<1> SUFFICES ASSUME NEW k \in Keys
             PROVE  Total(Units(all, k)) = 0 /\ Total(Cents(all, k)) = 0
  BY DEF Nothing
<1> HIDE DEF all
<1>3. Len(Units(all, k)) = n + n /\ Len(Cents(all, k)) = n + n
  <2>1. DOMAIN Units(all, k) = 1 .. (n + n) /\ DOMAIN Cents(all, k) = 1 .. (n + n)
    BY <1>1 DEF Units, Cents
  <2>2. Units(all, k) \in Seq(Int) /\ Cents(all, k) \in Seq(Int)
    <3>1. \A i \in DOMAIN all : all[i].qty \in Int /\ all[i].value \in Int
      <4>1. \A i \in DOMAIN all : all[i] \in Row
        BY <1>1, ElementAt
      <4> QED BY <4>1 DEF Row
    <3>2. /\ Units(all, k) \in [DOMAIN all -> Int]
          /\ Cents(all, k) \in [DOMAIN all -> Int]
      BY <3>1 DEF Units, Cents
    <3> QED BY <1>1, <3>2, ListOf
  <2> QED BY <1>1, <2>1, <2>2, LenProperties
<1>4. ASSUME NEW i \in 1 .. n
      PROVE  /\ Units(all, k)[i] \in Int /\ Units(all, k)[n + i] = - Units(all, k)[i]
             /\ Cents(all, k)[i] \in Int /\ Cents(all, k)[n + i] = - Cents(all, k)[i]
  <2>1. /\ Units(all, k)[i] = IF rows[i].key = k THEN rows[i].qty ELSE 0
        /\ Cents(all, k)[i] = IF rows[i].key = k THEN rows[i].value ELSE 0
        /\ Units(all, k)[n + i] = IF rows[i].key = k THEN - rows[i].qty ELSE 0
        /\ Cents(all, k)[n + i] = IF rows[i].key = k THEN - rows[i].value ELSE 0
    BY <1>2 DEF Units, Cents
  <2> QED BY <1>2, <2>1
<1>5. Total(Units(all, k)) = 0
  BY <1>1, <1>3, <1>4, TakenBack
<1>6. Total(Cents(all, k)) = 0
  BY <1>1, <1>3, <1>4, TakenBack
<1> QED BY <1>5, <1>6

\* A void: the rows and their negatives come to nothing.
LEMMA VoidKeeps ==
  ASSUME Inv, NEW s \in Requests, Void(s)
  PROVE  Inv'
<1> DEFINE d    == txn[s].doc
           rows == ledger[d]
           done == Loop(Rewind(d))
           new  == [doc[d] EXCEPT !.status = "void"]
<1>1. Doing(s, "void") /\ ~ done.refused /\ Commit(s, done, FALSE, new)
  BY DEF Void
<1>2. d \in Docs /\ doc[d] \in DocType /\ Fits(d, doc[d])
  BY <1>1, InFlight
<1>3. new \in DocType /\ Fits(d, new) /\ new.status = "void"
  BY <1>2, WithStatus DEF Statuses
<1>4. rows \in Seq(Row) /\ \A i \in DOMAIN rows : rows[i] \in Row /\ rows[i].qty # 0
  <2>1. rows \in Seq(Row)
    BY <1>2 DEF Inv, TypeOK, Row
  <2>2. \A i \in DOMAIN rows : rows[i].qty # 0
    BY <1>2 DEF Inv, RowsInv
  <2> HIDE DEF rows
  <2> QED BY <2>1, <2>2, ElementAt
<1>5. /\ Rewind(d) \in Seq(MoveSet) /\ Len(Rewind(d)) = Len(rows)
      /\ DOMAIN Rewind(d) = DOMAIN rows
      /\ \A i \in DOMAIN rows : /\ Rewind(d)[i].key = rows[i].key
                                /\ Rewind(d)[i].qty = - rows[i].qty
                                /\ Rewind(d)[i].value = - rows[i].value
                                /\ Rewind(d)[i].qty # 0 /\ Rewind(d)[i].value # Never
  <2> HIDE DEF d
  <2> DEFINE B(row) == [row EXCEPT !.qty = -@, !.value = -@]
  <2>1. ASSUME NEW row \in Row, row.qty # 0
        PROVE  /\ B(row) \in MoveSet /\ B(row).key = row.key
               /\ B(row).qty = - row.qty /\ B(row).value = - row.value
               /\ B(row).qty # 0 /\ B(row).value # Never
    <3>1. B(row) = [key |-> row.key, qty |-> - row.qty, value |-> - row.value]
      <4> DEFINE half == [row EXCEPT !.qty = - row.qty]
      <4>1. half = [key |-> row.key, qty |-> - row.qty, value |-> row.value]
        BY DEF Row
      <4>2. B(row) = [half EXCEPT !.value = - row.value]
        OBVIOUS
      <4> HIDE DEF half, B
      <4> QED BY <4>1, <4>2
    <3>2. row.key \in Keys /\ - row.qty \in Int /\ - row.value \in Int /\ - row.qty # 0
      BY <2>1 DEF Row
    <3> HIDE DEF B
    <3> QED BY <3>1, <3>2, BoundsAssumption DEF MoveSet, Column
  <2>2. Rewind(d) = [i \in DOMAIN rows |-> B(rows[i])]
    BY DEF Rewind
  <2> HIDE DEF B, rows
  <2>3. Rewind(d) \in [DOMAIN rows -> MoveSet]
    BY <1>4, <2>1, <2>2
  <2>4. /\ Rewind(d) \in Seq(MoveSet) /\ Len(Rewind(d)) = Len(rows)
        /\ DOMAIN Rewind(d) = DOMAIN rows
    BY <1>4, <2>3, ListOf
  <2> QED BY <1>4, <2>1, <2>2, <2>4
<1>6. stock \in Balances
  BY DEF Inv, TypeOK, Balances
<1>7. done \in Outcome /\ \A i \in DOMAIN done.rows : done.rows[i].qty # 0
  BY <1>5, <1>6, LoopType
<1>8. /\ Len(done.rows) = Len(rows)
      /\ \A i \in DOMAIN done.rows : /\ done.rows[i].key = Rewind(d)[i].key
                                     /\ done.rows[i].qty = Rewind(d)[i].qty
                                     /\ done.rows[i].value = Rewind(d)[i].value
  <2>1. \A i \in DOMAIN Rewind(d) : Rewind(d)[i].qty # 0
    BY <1>5
  <2>2. \A i \in DOMAIN done.rows :
          /\ i \in DOMAIN Rewind(d)
          /\ done.rows[i].key = Rewind(d)[i].key
          /\ done.rows[i].qty = Rewind(d)[i].qty
          /\ Rewind(d)[i].value # Never => done.rows[i].value = Rewind(d)[i].value
    BY <1>5, <1>6, <2>1, LoopRows
  <2>3. Len(done.rows) = Len(Rewind(d))
    BY <1>1, <1>5, <1>6, <2>1, LoopRows
  <2> QED BY <1>5, <2>2, <2>3
<1> HIDE DEF done, rows
<1>9. Nothing(rows \o done.rows)
  <2>1. /\ done.rows \in Seq(Row) /\ DOMAIN done.rows = 1 .. Len(rows)
        /\ DOMAIN rows = 1 .. Len(rows)
    BY <1>4, <1>7, <1>8, LenProperties DEF Outcome
  <2>2. \A i \in 1 .. Len(rows) : /\ done.rows[i].key = rows[i].key
                                  /\ done.rows[i].qty = - rows[i].qty
                                  /\ done.rows[i].value = - rows[i].value
    BY <1>5, <1>8, <2>1
  <2> QED BY <1>4, <1>8, <2>1, <2>2, BackAndForth
<1> HIDE DEF new
<1> QED BY <1>1, <1>3, <1>7, <1>9, CommitKeeps DEF rows

\* A line of a transfer that is sent.
LEMMA SentLine ==
  ASSUME NEW line \in LineType, NEW a \in Column, NEW b \in Nat,
         NEW new, new = [line EXCEPT !.noted = a, !.cost = b]
  PROVE  /\ new \in LineType
         /\ new = [item |-> line.item, qty |-> line.qty, cost |-> b,
                 noted |-> a, variance |-> line.variance,
                 seen |-> line.seen, owed |-> line.owed]
<1> DEFINE half == [line EXCEPT !.noted = a]
<1>1. half = [item |-> line.item, qty |-> line.qty, cost |-> line.cost,
              noted |-> a, variance |-> line.variance,
              seen |-> line.seen, owed |-> line.owed]
  BY DEF LineType
<1>2. half \in LineType
  BY <1>1 DEF LineType
<1>3. new = [half EXCEPT !.cost = b]
  OBVIOUS
<1> HIDE DEF half
<1>4. new = [item |-> half.item, qty |-> half.qty, cost |-> b,
             noted |-> half.noted, variance |-> half.variance,
             seen |-> half.seen, owed |-> half.owed]
  BY <1>2, <1>3 DEF LineType
<1>5. new = [item |-> line.item, qty |-> line.qty, cost |-> b,
             noted |-> a, variance |-> line.variance,
             seen |-> line.seen, owed |-> line.owed]
  BY <1>1, <1>4
<1> QED BY <1>5 DEF LineType

\* A line of a sheet with the balance of the book.
LEMMA DraftedLine ==
  ASSUME NEW line \in LineType, NEW a \in Nat, NEW b \in Nat,
         NEW new, new = [line EXCEPT !.qty = a, !.cost = b]
  PROVE  /\ new \in LineType
         /\ new = [item |-> line.item, qty |-> a, cost |-> b,
                 noted |-> line.noted, variance |-> line.variance,
                 seen |-> line.seen, owed |-> line.owed]
<1> DEFINE half == [line EXCEPT !.qty = a]
<1>1. half = [item |-> line.item, qty |-> a, cost |-> line.cost,
              noted |-> line.noted, variance |-> line.variance,
              seen |-> line.seen, owed |-> line.owed]
  BY DEF LineType
<1>2. half \in LineType
  BY <1>1 DEF LineType
<1>3. new = [half EXCEPT !.cost = b]
  OBVIOUS
<1> HIDE DEF half
<1>4. new = [item |-> half.item, qty |-> half.qty, cost |-> b,
             noted |-> half.noted, variance |-> half.variance,
             seen |-> half.seen, owed |-> half.owed]
  BY <1>2, <1>3 DEF LineType
<1>5. new = [item |-> line.item, qty |-> a, cost |-> b,
             noted |-> line.noted, variance |-> line.variance,
             seen |-> line.seen, owed |-> line.owed]
  BY <1>1, <1>4
<1> QED BY <1>5 DEF LineType

\* A line of a sheet that is counted.
LEMMA CountedLine ==
  ASSUME NEW line \in LineType, NEW a \in Column, NEW b \in Column,
         NEW new, new = [line EXCEPT !.noted = a, !.seen = b]
  PROVE  /\ new \in LineType
         /\ new = [item |-> line.item, qty |-> line.qty, cost |-> line.cost,
                 noted |-> a, variance |-> line.variance,
                 seen |-> b, owed |-> line.owed]
<1> DEFINE half == [line EXCEPT !.noted = a]
<1>1. half = [item |-> line.item, qty |-> line.qty, cost |-> line.cost,
              noted |-> a, variance |-> line.variance,
              seen |-> line.seen, owed |-> line.owed]
  BY DEF LineType
<1>2. half \in LineType
  BY <1>1 DEF LineType
<1>3. new = [half EXCEPT !.seen = b]
  OBVIOUS
<1> HIDE DEF half
<1>4. new = [item |-> half.item, qty |-> half.qty, cost |-> half.cost,
             noted |-> half.noted, variance |-> half.variance,
             seen |-> b, owed |-> half.owed]
  BY <1>2, <1>3 DEF LineType
<1>5. new = [item |-> line.item, qty |-> line.qty, cost |-> line.cost,
             noted |-> a, variance |-> line.variance,
             seen |-> b, owed |-> line.owed]
  BY <1>1, <1>4
<1> QED BY <1>5 DEF LineType

\* A line of a sheet with its variance.
LEMMA ReviewedLine ==
  ASSUME NEW line \in LineType, NEW a \in Int, NEW b \in Column,
         NEW new, new = [line EXCEPT !.variance = a, !.owed = b]
  PROVE  /\ new \in LineType
         /\ new = [item |-> line.item, qty |-> line.qty, cost |-> line.cost,
                 noted |-> line.noted, variance |-> a,
                 seen |-> line.seen, owed |-> b]
<1> DEFINE half == [line EXCEPT !.variance = a]
<1>1. half = [item |-> line.item, qty |-> line.qty, cost |-> line.cost,
              noted |-> line.noted, variance |-> a,
              seen |-> line.seen, owed |-> line.owed]
  BY DEF LineType
<1>2. half \in LineType
  BY <1>1 DEF LineType
<1>3. new = [half EXCEPT !.owed = b]
  OBVIOUS
<1> HIDE DEF half
<1>4. new = [item |-> half.item, qty |-> half.qty, cost |-> half.cost,
             noted |-> half.noted, variance |-> half.variance,
             seen |-> half.seen, owed |-> b]
  BY <1>2, <1>3 DEF LineType
<1>5. new = [item |-> line.item, qty |-> line.qty, cost |-> line.cost,
             noted |-> line.noted, variance |-> a,
             seen |-> line.seen, owed |-> b]
  BY <1>1, <1>4
<1> QED BY <1>5 DEF LineType

\* The lines change, and a document of them fits.
LEMMA WithLines ==
  ASSUME NEW d \in Docs, NEW old \in Seq(LineType), LinesOf(d, old),
         NEW lines \in [DOMAIN old -> LineType],
         \A n \in DOMAIN old : /\ lines[n].item = old[n].item
                               /\ d \in Counts \/ lines[n].qty = old[n].qty,
         NEW status \in Statuses
  PROVE  /\ [status |-> status, lines |-> lines] \in DocType
         /\ LinesOf(d, lines)
         /\ [status |-> status, lines |-> lines].lines = lines
         /\ [status |-> status, lines |-> lines].status = status
<1>1. lines \in Seq(LineType) /\ DOMAIN lines = DOMAIN old
  BY ListOf
<1>2. [status |-> status, lines |-> lines] \in DocType
  BY <1>1 DEF DocType
<1>3. LinesOf(d, lines)
  BY <1>1 DEF LinesOf
<1> QED BY <1>2, <1>3

\* A dispatch: what is sent of a line is what its row took, at a cost that is a number.
LEMMA DispatchKeeps ==
  ASSUME Inv, NEW s \in Requests, Dispatch(s)
  PROVE  Inv'
<1> DEFINE t     == txn[s].doc
           lines == txn[s].read.lines
           old   == doc[t].lines
           moves == [n \in DOMAIN lines |->
                       Move(lines[n].item, At[t], -lines[n].qty, Never)]
           done  == Loop(moves)
           B(n)  == [old[n] EXCEPT
                       !.noted = lines[n].qty,
                       !.cost  = (-done.rows[n].value) \div (-done.rows[n].qty)]
           sent  == [n \in DOMAIN lines |-> IF n \in DOMAIN done.rows THEN B(n)
                                                                      ELSE old[n]]
           status == IF done.refused THEN doc[t].status ELSE "dispatched"
           new   == [status |-> status, lines |-> sent]
<1>1. Doing(s, "dispatch") /\ Commit(s, done, done.refused, new)
  BY DEF Dispatch
<1>2. /\ t \in Docs /\ t \in Transfers /\ t \notin Counts /\ t \notin Bills \cup Invoices
      /\ lines \in Seq(LineType) /\ old \in Seq(LineType)
      /\ DOMAIN lines = DOMAIN old
      /\ LinesOf(t, lines) /\ LinesOf(t, old) /\ Fits(t, doc[t])
      /\ doc[t].status \in Statuses \ {"none"}
  <2>1. t \in Docs /\ t \in Transfers
    BY <1>1, InFlight, Asked
  <2>2. t \notin Counts /\ t \notin Bills \cup Invoices
    BY <2>1, KindsAssumption
  <2>3. /\ lines \in Seq(LineType) /\ old \in Seq(LineType) /\ DOMAIN lines = DOMAIN old
        /\ Fits(t, txn[s].read) /\ Fits(t, doc[t])
        /\ doc[t].status \in Statuses \ {"none"}
    BY <1>1, InFlight
  <2> QED BY <2>1, <2>2, <2>3 DEF Fits
<1>3. \A n \in DOMAIN lines : lines[n].qty \in Nat /\ lines[n].qty # 0
  <2> SUFFICES ASSUME NEW n \in DOMAIN lines PROVE lines[n].qty \in Nat /\ lines[n].qty # 0
    OBVIOUS
  <2>1. n \in DOMAIN Lines[t] /\ lines[n].qty = Lines[t][n].qty
    BY <1>2 DEF LinesOf
  <2> QED BY <1>2, <2>1, LineAt, DraftAt
<1>4. /\ moves \in Seq(MoveSet) /\ Len(moves) = Len(lines) /\ DOMAIN moves = DOMAIN lines
      /\ \A n \in DOMAIN moves : /\ moves[n].qty = - lines[n].qty /\ moves[n].qty < 0
                                 /\ moves[n].value = Never
  <2>1. ASSUME NEW n \in DOMAIN lines
        PROVE  /\ Move(lines[n].item, At[t], -lines[n].qty, Never) \in MoveSet
               /\ Move(lines[n].item, At[t], -lines[n].qty, Never).qty = - lines[n].qty
               /\ Move(lines[n].item, At[t], -lines[n].qty, Never).value = Never
               /\ - lines[n].qty < 0
    <3>1. lines[n].qty \in Nat /\ lines[n].qty # 0
      BY <1>3
    <3>2. lines[n].item \in Items /\ At[t] \in Warehouses
      BY <1>2, LineAt, Warehouse
    <3>3. -lines[n].qty \in Int /\ -lines[n].qty < 0 /\ Never \in Column
      BY <3>1 DEF Column
    <3> QED BY <3>2, <3>3, MoveOf
  <2>2. moves \in [DOMAIN lines -> MoveSet]
    BY <2>1
  <2>3. \A n \in DOMAIN lines :
          moves[n] = Move(lines[n].item, At[t], -lines[n].qty, Never)
    OBVIOUS
  <2> HIDE DEF moves
  <2>4. moves \in Seq(MoveSet) /\ Len(moves) = Len(lines) /\ DOMAIN moves = DOMAIN lines
    BY <1>2, <2>2, ListOf
  <2> QED BY <2>1, <2>3, <2>4
<1> HIDE DEF moves
<1>5. stock \in Balances
  BY DEF Inv, TypeOK, Balances
<1>6. /\ done \in Outcome /\ \A i \in DOMAIN done.rows : done.rows[i].qty # 0
      /\ done.refused \in BOOLEAN
  BY <1>4, <1>5, LoopType DEF Outcome
<1>7. /\ \A n \in DOMAIN done.rows : /\ n \in DOMAIN moves
                                     /\ done.rows[n].qty = moves[n].qty
                                     /\ done.rows[n].value <= 0
      /\ ~ done.refused => Len(done.rows) = Len(moves)
  <2>1. \A n \in DOMAIN moves : moves[n].qty # 0
    BY <1>4
  <2>2. /\ \A n \in DOMAIN done.rows :
             /\ n \in DOMAIN moves
             /\ done.rows[n].qty = moves[n].qty
             /\ moves[n].value = Never /\ moves[n].qty < 0 => done.rows[n].value <= 0
        /\ ~ done.refused => Len(done.rows) = Len(moves)
    BY <1>4, <1>5, <2>1, LoopRows
  <2> QED BY <1>4, <2>2
<1>8. done.rows \in Seq(Row)
  BY <1>6 DEF Outcome
<1> HIDE DEF done
<1>9. ASSUME NEW n \in DOMAIN lines, n \in DOMAIN done.rows
      PROVE  /\ B(n) \in LineType /\ B(n).item = old[n].item
             /\ B(n).qty = old[n].qty /\ B(n).noted = lines[n].qty
  <2> DEFINE cost == (-done.rows[n].value) \div (-done.rows[n].qty)
  <2>1. cost \in Nat
    <3>1. done.rows[n].value \in Int /\ done.rows[n].value <= 0 /\ done.rows[n].qty \in Int
          /\ done.rows[n].qty < 0
      <4>1. done.rows[n] \in Row
        BY <1>8, <1>9, ElementAt
      <4> QED BY <1>4, <1>7, <1>9, <4>1 DEF Row
    <3>2. -done.rows[n].value \in Nat /\ -done.rows[n].qty \in Nat /\ -done.rows[n].qty > 0
      BY <3>1
    <3> QED BY <3>2, Quotient
  <2>2. old[n] \in LineType /\ lines[n].qty \in Column
    BY <1>2, <1>3, LineAt DEF Column
  <2> HIDE DEF cost
  <2>3. B(n) = [old[n] EXCEPT !.noted = lines[n].qty, !.cost = cost]
    BY DEF cost
  <2> HIDE DEF B
  <2>4. B(n) \in LineType /\ B(n) = [item |-> old[n].item, qty |-> old[n].qty, cost |-> cost,
                                     noted |-> lines[n].qty, variance |-> old[n].variance,
                                     seen |-> old[n].seen, owed |-> old[n].owed]
    <3>1. PICK line, q, new0 : line = old[n] /\ q = lines[n].qty /\ new0 = B(n)
      OBVIOUS
    <3>2. line \in LineType /\ q \in Column /\ new0 = [line EXCEPT !.noted = q, !.cost = cost]
      BY <2>2, <2>3, <3>1
    <3>3. new0 \in LineType /\ new0 = [item |-> line.item, qty |-> line.qty, cost |-> cost,
                                     noted |-> q, variance |-> line.variance,
                                     seen |-> line.seen, owed |-> line.owed]
      BY <2>1, <3>2, SentLine
    <3> QED BY <3>1, <3>3
  <2> QED BY <2>4
<1>10. /\ sent \in [DOMAIN old -> LineType]
       /\ \A n \in DOMAIN old : sent[n].item = old[n].item /\ sent[n].qty = old[n].qty
       /\ ~ done.refused => \A n \in DOMAIN old : sent[n].noted \in Nat
  <2>1. ASSUME NEW n \in DOMAIN old
        PROVE  /\ sent[n] \in LineType
               /\ sent[n].item = old[n].item /\ sent[n].qty = old[n].qty
               /\ n \in DOMAIN done.rows => sent[n].noted \in Nat
    <3>1. sent[n] = IF n \in DOMAIN done.rows THEN B(n) ELSE old[n]
      BY <1>2
    <3>2. old[n] \in LineType /\ lines[n].qty \in Nat /\ n \in DOMAIN lines
      BY <1>2, <1>3, LineAt
    <3> HIDE DEF sent, B
    <3>3. CASE n \in DOMAIN done.rows
      BY <1>9, <3>1, <3>2, <3>3
    <3>4. CASE n \notin DOMAIN done.rows
      BY <3>1, <3>2, <3>4
    <3> QED BY <3>3, <3>4
  <2>2. ~ done.refused => DOMAIN done.rows = DOMAIN old
    BY <1>2, <1>4, <1>7, <1>8, LenProperties
  <2>3. sent = [n \in DOMAIN old |-> sent[n]]
    BY <1>2
  <2> HIDE DEF sent
  <2> QED BY <2>1, <2>2, <2>3
<1>11. status \in Statuses \ {"none"} /\ (status = "dispatched" => \/ ~ done.refused
                                                                  \/ doc[t].status = "dispatched")
  BY <1>2, <1>6 DEF Statuses
<1>12. /\ new \in DocType /\ new.status # "none" /\ LinesOf(t, new.lines)
       /\ new.lines = sent /\ new.status = status
  <2> HIDE DEF sent, status, old
  <2> QED BY <1>2, <1>10, <1>11, WithLines, SMTT(30)
<1>13. status = "dispatched" => Sent(sent)
  <2>1. ASSUME doc[t].status = "dispatched" PROVE Sent(sent)
    <3>1. \A n \in DOMAIN old : old[n].noted \in Nat
      BY <1>2, <2>1 DEF Fits, Sent
    <3>2. ASSUME NEW n \in DOMAIN lines PROVE sent[n].noted \in Nat
      <4>1. sent[n] = IF n \in DOMAIN done.rows THEN B(n) ELSE old[n]
        OBVIOUS
      <4> HIDE DEF sent, B
      <4> QED BY <1>2, <1>3, <1>9, <3>1, <4>1
    <3> QED BY <3>2 DEF Sent
  <2>2. ASSUME ~ done.refused PROVE Sent(sent)
    <3>1. DOMAIN sent = DOMAIN old
      BY <1>2
    <3> HIDE DEF sent
    <3> QED BY <1>10, <2>2, <3>1 DEF Sent
  <2> HIDE DEF sent, status
  <2> QED BY <1>11, <2>1, <2>2
<1> HIDE DEF new, sent, status
<1>14. Fits(t, new)
  BY <1>2, <1>12, <1>13 DEF Fits
<1> QED BY <1>1, <1>2, <1>6, <1>12, <1>14, CommitKeeps

\* A receipt: what arrives of a line has a quantity and a value.
LEMMA ReceiveKeeps ==
  ASSUME Inv, NEW s \in Requests, Receive(s)
  PROVE  Inv'
<1> DEFINE t     == txn[s].doc
           lines == txn[s].read.lines
<1>1. Doing(s, "receive")
  BY DEF Receive
<1>2. /\ t \in Docs /\ t \in Transfers /\ t \notin Bills \cup Invoices
      /\ lines \in Seq(LineType) /\ Sent(lines)
      /\ doc[t] \in DocType /\ Fits(t, doc[t]) /\ doc[t].status \in Statuses \ {"none"}
  <2>1. t \in Docs /\ t \in Transfers /\ txn[s].read.status = "dispatched"
    BY <1>1, InFlight, Asked
  <2>2. t \notin Bills \cup Invoices
    BY <2>1, KindsAssumption
  <2>3. /\ lines \in Seq(LineType) /\ Fits(t, txn[s].read)
        /\ doc[t] \in DocType /\ Fits(t, doc[t]) /\ doc[t].status \in Statuses \ {"none"}
    BY <1>1, InFlight
  <2> QED BY <2>1, <2>2, <2>3 DEF Fits
<1> DEFINE Bad(got)   == {n \in DOMAIN lines : got[n] > lines[n].noted}
           Taken(got) == [n \in DOMAIN lines |->
                            IF \E b \in Bad(got) : b <= n THEN 0 ELSE got[n]]
           Moves(got) == [n \in DOMAIN lines |->
                            Move(lines[n].item, To[t], Taken(got)[n],
                                 Taken(got)[n] * lines[n].cost)]
           New(got)   == [doc[t] EXCEPT
                            !.status = IF Bad(got) # {} THEN @ ELSE "received"]
<1>3. PICK got \in [DOMAIN lines -> Arrivals(lines)] :
        Commit(s, Loop(Moves(got)), Bad(got) # {}, New(got))
  BY <1>1 DEF Receive
<1>4. \A n \in DOMAIN lines : got[n] \in Int
  <2>1. \A n \in DOMAIN lines : lines[n].noted \in Nat
    BY <1>2 DEF Sent
  <2>2. Arrivals(lines) \subseteq Int
    BY <2>1 DEF Arrivals
  <2> QED BY <2>2
<1> DEFINE bad   == Bad(got)
           taken == Taken(got)
           moves == Moves(got)
           done  == Loop(moves)
           refused == bad # {}
           new   == New(got)
<1>5. moves \in Seq(MoveSet)
  <2>1. \A n \in DOMAIN lines : taken[n] = IF \E b \in bad : b <= n THEN 0 ELSE got[n]
    OBVIOUS
  <2> HIDE DEF bad
  <2>2. \A n \in DOMAIN lines : taken[n] \in Int
    BY <1>4, <2>1
  <2>3. \A n \in DOMAIN lines :
          moves[n] = Move(lines[n].item, To[t], taken[n], taken[n] * lines[n].cost)
    OBVIOUS
  <2>4. moves = [n \in DOMAIN lines |-> moves[n]]
    OBVIOUS
  <2> HIDE DEF taken, moves
  <2>5. ASSUME NEW n \in DOMAIN lines PROVE moves[n] \in MoveSet
    <3>1. lines[n].item \in Items /\ lines[n].cost \in Nat /\ To[t] \in Warehouses
      BY <1>2, LineAt, Warehouse
    <3>2. taken[n] \in Int /\ taken[n] * lines[n].cost \in Column
      BY <2>2, <3>1, Products DEF Column
    <3> QED BY <2>3, <3>1, <3>2, MoveOf
  <2>6. moves \in [DOMAIN lines -> MoveSet]
    BY <2>4, <2>5
  <2> QED BY <1>2, <2>6, ListOf
<1> HIDE DEF moves
<1>6. done \in Outcome /\ \A i \in DOMAIN done.rows : done.rows[i].qty # 0
  BY <1>5, LoopType DEF Inv, TypeOK, Balances
<1>7. /\ new = [doc[t] EXCEPT !.status = IF refused THEN doc[t].status ELSE "received"]
      /\ (IF refused THEN doc[t].status ELSE "received") \in Statuses \ {"none"}
      /\ \/ (IF refused THEN doc[t].status ELSE "received") # "dispatched"
         \/ (IF refused THEN doc[t].status ELSE "received") = doc[t].status
  <2> HIDE DEF bad
  <2> QED BY <1>2 DEF Statuses, bad
<1>8. new \in DocType /\ Fits(t, new) /\ new.status # "none"
  <2> HIDE DEF refused, new
  <2> QED BY <1>2, <1>7, WithStatus
<1>9. Commit(s, done, refused, new)
  BY <1>3 DEF moves
<1> HIDE DEF done, new, refused
<1>10. refused \in BOOLEAN
  BY DEF refused
<1> QED BY <1>1, <1>2, <1>6, <1>8, <1>9, <1>10, CommitKeeps

\* A cancellation changes no line.
LEMMA CancelKeeps ==
  ASSUME Inv, NEW s \in Requests, Cancel(s)
  PROVE  Inv'
<1> DEFINE d   == txn[s].doc
           new == [doc[d] EXCEPT !.status = "cancelled"]
<1>1. /\ Doing(s, "cancel") /\ End(s) /\ UNCHANGED <<stock, ledger, gap, late, begun, lost>>
      /\ doc' = [doc EXCEPT ![d].status = "cancelled"]
  BY DEF Cancel
<1>2. /\ d \in Transfers \cup Counts /\ d \in Docs
      /\ doc[d] \in DocType /\ Fits(d, doc[d])
  BY <1>1, InFlight, Asked
<1>3. new \in DocType /\ Fits(d, new) /\ new.status = "cancelled"
  BY <1>2, WithStatus DEF Statuses
<1>4. doc' = [doc EXCEPT ![d] = new]
  BY <1>1
<1> HIDE DEF new
<1>5. /\ txn' \in [Requests -> Txns]
      /\ \A r \in Requests : txn'[r] # Idle => txn'[r] = txn[r]
  BY <1>1, EndOthers
<1> QED BY <1>1, <1>2, <1>3, <1>4, <1>5, EditKeeps

\* An approval changes no line.
LEMMA ApproveKeeps ==
  ASSUME Inv, NEW s \in Requests, Approve(s)
  PROVE  Inv'
<1> DEFINE d   == txn[s].doc
           new == [doc[d] EXCEPT !.status = "review"]
<1>1. /\ Doing(s, "approve") /\ End(s)
      /\ UNCHANGED <<stock, ledger, gap, late, begun, lost>>
      /\ doc' = [doc EXCEPT ![d].status = "review"]
  BY DEF Approve
<1>2. /\ d \in Transfers \cup Counts /\ d \in Docs
      /\ doc[d] \in DocType /\ Fits(d, doc[d])
  BY <1>1, InFlight, Asked
<1>3. new \in DocType /\ Fits(d, new) /\ new.status = "review"
  BY <1>2, WithStatus DEF Statuses
<1>4. doc' = [doc EXCEPT ![d] = new]
  BY <1>1
<1> HIDE DEF new
<1>5. /\ txn' \in [Requests -> Txns]
      /\ \A r \in Requests : txn'[r] # Idle => txn'[r] = txn[r]
  BY <1>1, EndOthers
<1> QED BY <1>1, <1>2, <1>3, <1>4, <1>5, EditKeeps

\* A request that fails leaves everything as it was.
LEMMA FailKeeps ==
  ASSUME Inv, NEW s \in Requests, Fail(s)
  PROVE  Inv'
<1>1. End(s) /\ UNCHANGED <<stock, doc, ledger, gap, late, begun, lost>>
  BY DEF Fail
<1>2. /\ txn' \in [Requests -> Txns]
      /\ \A r \in Requests : txn'[r] # Idle => txn'[r] = txn[r]
  BY <1>1, EndOthers
<1>3. TypeOK'
  BY <1>1, <1>2 DEF Inv, TypeOK, Txns
<1>4. DocInv' /\ BlankInv' /\ RowsInv' /\ VoidInv'
  BY <1>1, SameKeeps
<1>5. TxnInv'
  BY <1>1, <1>2, TxnKeeps
<1> QED BY <1>3, <1>4, <1>5 DEF Inv

\* A loss changes the gap only.
LEMMA LoseKeeps ==
  ASSUME Inv, NEW k \in Keys, Lose(k)
  PROVE  Inv'
<1>1. /\ lost < MaxLost /\ lost' = lost + 1 /\ gap' = [gap EXCEPT ![k] = @ + 1]
      /\ UNCHANGED <<stock, doc, ledger, late, txn, begun>>
  BY DEF Lose
<1>2. TypeOK'
  <2>1. gap' \in [Keys -> Int]
    BY <1>1 DEF Inv, TypeOK
  <2>2. lost' \in 0 .. MaxLost
    BY <1>1, BoundsAssumption DEF Inv, TypeOK
  <2> QED BY <1>1, <2>1, <2>2 DEF Inv, TypeOK
<1>3. DocInv' /\ BlankInv' /\ RowsInv' /\ VoidInv'
  BY <1>1, SameKeeps
<1>4. TxnInv'
  BY <1>1, TxnKeeps
<1> QED BY <1>2, <1>3, <1>4 DEF Inv

\* The corrections of a sheet are moves, each by the variance of its line.
LEMMA CorrectionType ==
  ASSUME NEW c \in Docs, NEW lines \in Seq(LineType)
  PROVE  LET moves == [n \in DOMAIN lines |-> Correction(c, lines[n])]
         IN  /\ moves \in Seq(MoveSet) /\ DOMAIN moves = DOMAIN lines
             /\ \A n \in DOMAIN lines : /\ moves[n].key = <<lines[n].item, At[c]>>
                                        /\ moves[n].qty = lines[n].variance
<1> DEFINE moves == [n \in DOMAIN lines |-> Correction(c, lines[n])]
<1>1. ASSUME NEW n \in DOMAIN lines
      PROVE  /\ Correction(c, lines[n]) \in MoveSet
             /\ Correction(c, lines[n]).key = <<lines[n].item, At[c]>>
             /\ Correction(c, lines[n]).qty = lines[n].variance
  <2> DEFINE value == IF lines[n].variance > 0 THEN lines[n].variance * lines[n].cost
                                               ELSE Never
  <2>1. /\ lines[n].item \in Items /\ lines[n].variance \in Int /\ lines[n].cost \in Nat
        /\ At[c] \in Warehouses
    BY LineAt, Warehouse
  <2>2. value \in Column
    BY <2>1, Products DEF Column
  <2>3. Correction(c, lines[n]) = Move(lines[n].item, At[c], lines[n].variance, value)
    BY DEF Correction
  <2> HIDE DEF value
  <2> QED BY <2>1, <2>2, <2>3, MoveOf
<1>2. moves \in [DOMAIN lines -> MoveSet]
      /\ \A n \in DOMAIN lines : moves[n] = Correction(c, lines[n])
  BY <1>1
<1> HIDE DEF moves
<1>3. moves \in Seq(MoveSet) /\ DOMAIN moves = DOMAIN lines
  BY <1>2, ListOf
<1> QED BY <1>1, <1>2, <1>3 DEF moves

\* Posting a count, whole or refused at a line.
LEMMA PostCountKeeps ==
  ASSUME Inv, NEW s \in Requests, PostCount(s)
  PROVE  Inv'
<1> DEFINE c     == txn[s].doc
           lines == txn[s].read.lines
           moves == [n \in DOMAIN lines |-> Correction(c, lines[n])]
           done  == Loop(moves)
           new   == [doc[c] EXCEPT !.status = IF done.refused THEN @ ELSE "posted"]
<1>1. Doing(s, "settle") /\ Commit(s, done, done.refused, new)
  BY DEF PostCount
<1>2. /\ c \in Docs /\ c \in Counts /\ c \notin Bills \cup Invoices
      /\ lines \in Seq(LineType)
      /\ doc[c] \in DocType /\ Fits(c, doc[c]) /\ doc[c].status \in Statuses \ {"none"}
  <2>1. c \in Docs /\ c \in Counts
    BY <1>1, InFlight, Asked
  <2>2. c \notin Bills \cup Invoices
    BY <2>1, KindsAssumption
  <2>3. /\ lines \in Seq(LineType)
        /\ doc[c] \in DocType /\ Fits(c, doc[c]) /\ doc[c].status \in Statuses \ {"none"}
    BY <1>1, InFlight
  <2> QED BY <2>1, <2>2, <2>3
<1>3. moves \in Seq(MoveSet)
  BY <1>2, CorrectionType
<1> HIDE DEF moves
<1>4. done \in Outcome /\ \A i \in DOMAIN done.rows : done.rows[i].qty # 0
  BY <1>3, LoopType DEF Inv, TypeOK, Balances
<1>5. done.refused \in BOOLEAN
  BY <1>4 DEF Outcome
<1> HIDE DEF done
<1>6. /\ new = [doc[c] EXCEPT !.status = IF done.refused THEN doc[c].status ELSE "posted"]
      /\ (IF done.refused THEN doc[c].status ELSE "posted") \in Statuses \ {"none"}
      /\ \/ (IF done.refused THEN doc[c].status ELSE "posted") # "dispatched"
         \/ (IF done.refused THEN doc[c].status ELSE "posted") = doc[c].status
  BY <1>2, <1>5 DEF Statuses
<1>7. new \in DocType /\ Fits(c, new) /\ new.status # "none"
  <2> HIDE DEF new
  <2> QED BY <1>2, <1>6, WithStatus
<1> HIDE DEF new
<1> QED BY <1>1, <1>2, <1>4, <1>5, <1>7, CommitKeeps

\* The balance of an item on the sheet of a count.
LEMMA SheetKey ==
  ASSUME NEW c \in Docs, NEW lines \in Seq(LineType), NEW n \in DOMAIN lines
  PROVE  <<lines[n].item, At[c]>> \in Keys
<1>1. lines[n].item \in Items /\ At[c] \in Warehouses
  BY LineAt, Warehouse
<1> QED BY <1>1 DEF Keys

\* A sheet is drafted: an empty one, whatever the book is.
LEMMA CreateCountKeeps ==
  ASSUME Inv, NEW c \in Counts, CreateCount(c)
  PROVE  Inv'
<1> DEFINE old   == doc[c].lines
           b(n)  == stock[<<old[n].item, At[c]>>]
           B(n)  == [old[n] EXCEPT !.qty = b(n).qty, !.cost = Average(b(n))]
           sheet == [n \in DOMAIN old |-> B(n)]
           new   == [status |-> "draft", lines |-> sheet]
<1>1. /\ doc[c].status = "none" /\ doc' = [doc EXCEPT ![c] = new]
      /\ UNCHANGED <<stock, ledger, gap, late, txn, begun, lost>>
  BY DEF CreateCount
<1>2. c \in Docs /\ old \in Seq(LineType) /\ LinesOf(c, old) /\ c \notin Transfers
  <2>1. c \in Docs /\ c \notin Transfers
    BY KindsAssumption DEF Docs
  <2>2. doc[c] \in DocType /\ Fits(c, doc[c])
    BY <2>1 DEF Inv, TypeOK, DocInv
  <2> QED BY <2>1, <2>2 DEF Fits, DocType
<1>3. ASSUME NEW n \in DOMAIN old
      PROVE  /\ B(n) \in LineType /\ B(n).item = old[n].item
             /\ B(n).seen = Never /\ B(n).owed = Never
  <2>1. old[n] \in LineType /\ <<old[n].item, At[c]>> \in Keys
    BY <1>2, LineAt, SheetKey
  <2>2. b(n) \in [qty : Nat, value : Nat]
    BY <2>1 DEF Inv, TypeOK
  <2>3. b(n).qty \in Nat /\ Average(b(n)) \in Nat
    <3>1. b(n).qty \in Nat
      BY <2>2
    <3>2. Average(b(n)) \in Nat
      BY <2>2, AverageType
    <3> QED BY <3>1, <3>2
  <2>4. old[n].seen = Never /\ old[n].owed = Never
    BY <1>1 DEF Inv, BlankInv
  <2>5. PICK line, x, y, z :
          line = old[n] /\ x = b(n).qty /\ y = Average(b(n)) /\ z = B(n)
    OBVIOUS
  <2>6. z = [line EXCEPT !.qty = x, !.cost = y]
    BY <2>5
  <2> HIDE DEF b, B
  <2>7. line \in LineType /\ x \in Nat /\ y \in Nat
    BY <2>1, <2>3, <2>5
  <2>8. z \in LineType /\ z = [item |-> line.item, qty |-> x, cost |-> y,
                               noted |-> line.noted, variance |-> line.variance,
                               seen |-> line.seen, owed |-> line.owed]
    BY <2>6, <2>7, DraftedLine
  <2> QED BY <2>4, <2>5, <2>8
<1>4. /\ sheet \in [DOMAIN old -> LineType]
      /\ \A n \in DOMAIN old : /\ sheet[n].item = old[n].item
                               /\ sheet[n].seen = Never /\ sheet[n].owed = Never
  <2>1. \A n \in DOMAIN old : sheet[n] = B(n)
    OBVIOUS
  <2>2. sheet = [n \in DOMAIN old |-> sheet[n]]
    OBVIOUS
  <2> HIDE DEF B, sheet
  <2> QED BY <1>3, <2>1, <2>2
<1>5. /\ new \in DocType /\ LinesOf(c, sheet) /\ new.lines = sheet /\ new.status = "draft"
  <2>1. "draft" \in Statuses
    BY DEF Statuses
  <2> HIDE DEF old, sheet
  <2> QED BY <1>2, <1>4, <2>1, WithLines
<1>6. Sheet(sheet)
  <2>1. DOMAIN sheet = DOMAIN old
    OBVIOUS
  <2> HIDE DEF sheet
  <2> QED BY <1>4, <2>1 DEF Sheet
<1> HIDE DEF new, sheet
<1>7. Fits(c, new)
  BY <1>2, <1>5, <1>6 DEF Fits
<1>8. txn' \in [Requests -> Txns] /\ \A r \in Requests : txn'[r] # Idle => txn'[r] = txn[r]
  BY <1>1 DEF Inv, TypeOK, Txns
<1> QED BY <1>1, <1>5, <1>7, <1>8, EditKeeps

\* Counting: what is noted and the gap are of the same moment.
LEMMA EnterCountsKeeps ==
  ASSUME Inv, NEW s \in Requests, EnterCounts(s)
  PROVE  Inv'
<1> DEFINE c      == txn[s].doc
           old    == doc[c].lines
           key(n) == <<old[n].item, At[c]>>
           seen(n) == IF old[n].qty = stock[key(n)].qty THEN gap[key(n)] ELSE Never
           B(n)   == [old[n] EXCEPT !.noted = Shelf(key(n)), !.seen = seen(n)]
           sheet  == [n \in DOMAIN old |-> B(n)]
           new    == [doc[c] EXCEPT !.lines = sheet]
<1>1. /\ Doing(s, "enter") /\ End(s) /\ doc' = [doc EXCEPT ![c].lines = sheet]
      /\ UNCHANGED <<stock, ledger, gap, late, begun, lost>>
  BY DEF EnterCounts
<1>2. /\ c \in Docs /\ c \in Counts /\ c \notin Transfers /\ old \in Seq(LineType)
      /\ doc[c] \in DocType /\ Fits(c, doc[c]) /\ LinesOf(c, old) /\ Sheet(old)
      /\ doc[c].status \in Statuses \ {"none"}
  <2>1. c \in Docs /\ c \in Counts
    BY <1>1, InFlight, Asked
  <2>2. c \notin Transfers
    BY <2>1, KindsAssumption
  <2>3. /\ old \in Seq(LineType) /\ doc[c] \in DocType /\ Fits(c, doc[c])
        /\ doc[c].status \in Statuses \ {"none"}
    BY <1>1, InFlight
  <2> QED BY <2>1, <2>2, <2>3 DEF Fits
<1>3. ASSUME NEW n \in DOMAIN old
      PROVE  /\ B(n) \in LineType /\ B(n).item = old[n].item
             /\ B(n).seen # Never => /\ B(n).noted # Never
                                     /\ B(n).noted - B(n).qty = - B(n).seen
             /\ B(n).owed = old[n].owed /\ B(n).variance = old[n].variance
  <2>1. old[n] \in LineType /\ old[n].qty \in Nat /\ key(n) \in Keys
    BY <1>2, LineAt, SheetKey
  <2>2. stock[key(n)].qty \in Nat /\ gap[key(n)] \in Int
    BY <2>1 DEF Inv, TypeOK
  <2>3. /\ Shelf(key(n)) = stock[key(n)].qty - gap[key(n)]
        /\ Shelf(key(n)) \in Int /\ seen(n) \in Column
        /\ seen(n) # Never => /\ seen(n) = gap[key(n)]
                              /\ old[n].qty = stock[key(n)].qty
    BY <2>2 DEF Shelf, Column
  <2>4. PICK line, x, y, z :
          line = old[n] /\ x = Shelf(key(n)) /\ y = seen(n) /\ z = B(n)
    OBVIOUS
  <2>5. z = [line EXCEPT !.noted = x, !.seen = y]
    BY <2>4
  <2>6. x - line.qty = - y \/ y = Never
    <3>1. PICK book, g : book = stock[key(n)].qty /\ g = gap[key(n)]
      OBVIOUS
    <3>2. y # Never => y = g /\ line.qty = book
      BY <2>3, <2>4, <3>1
    <3>3. x = book - g /\ book \in Nat /\ g \in Int
      BY <2>2, <2>3, <2>4, <3>1
    <3> QED BY <3>2, <3>3
  <2> HIDE DEF key, seen, B
  <2>7. line \in LineType /\ x \in Column /\ y \in Column /\ x # Never
    BY <2>1, <2>3, <2>4, BoundsAssumption DEF Column
  <2>8. z \in LineType /\ z = [item |-> line.item, qty |-> line.qty, cost |-> line.cost,
                               noted |-> x, variance |-> line.variance,
                               seen |-> y, owed |-> line.owed]
    BY <2>5, <2>7, CountedLine
  <2> QED BY <2>4, <2>6, <2>7, <2>8
<1>4. /\ sheet \in [DOMAIN old -> LineType]
      /\ \A n \in DOMAIN old : sheet[n].item = old[n].item
      /\ Sheet(sheet)
  <2>1. \A n \in DOMAIN old : sheet[n] = B(n)
    OBVIOUS
  <2>2. sheet = [n \in DOMAIN old |-> sheet[n]]
    OBVIOUS
  <2> HIDE DEF B, sheet
  <2>3. DOMAIN sheet = DOMAIN old
    BY <2>2
  <2>4. \A n \in DOMAIN old : old[n].owed # Never => old[n].variance = - old[n].owed
    BY <1>2 DEF Sheet
  <2>5. Sheet(sheet)
    BY <1>3, <2>1, <2>3, <2>4 DEF Sheet
  <2> QED BY <1>3, <2>1, <2>2, <2>5
<1>5. /\ new = [status |-> doc[c].status, lines |-> sheet]
      /\ doc' = [doc EXCEPT ![c] = new]
  <2>1. new = [status |-> doc[c].status, lines |-> sheet]
    <3> HIDE DEF sheet
    <3> QED BY <1>2 DEF DocType
  <2> HIDE DEF sheet
  <2> QED BY <1>1, <2>1
<1>6. /\ new \in DocType /\ LinesOf(c, sheet) /\ new.lines = sheet
      /\ new.status = doc[c].status
  <2> HIDE DEF new, old, sheet
  <2> QED BY <1>2, <1>4, <1>5, WithLines, SMTT(30)
<1> HIDE DEF new, sheet
<1>7. Fits(c, new)
  BY <1>2, <1>4, <1>6 DEF Fits
<1>8. txn' \in [Requests -> Txns] /\ \A r \in Requests : txn'[r] # Idle => txn'[r] = txn[r]
  BY <1>1, EndOthers
<1> QED BY <1>1, <1>2, <1>5, <1>6, <1>7, <1>8, EditKeeps

\* A review: the variance is that of the version that was read.
LEMMA ReviewKeeps ==
  ASSUME Inv, NEW s \in Requests, Review(s)
  PROVE  Inv'
<1> DEFINE c     == txn[s].doc
           old   == doc[c].lines
           lines == txn[s].read.lines
           B(n)  == [old[n] EXCEPT !.variance = lines[n].noted - lines[n].qty,
                                   !.owed = lines[n].seen]
           sheet == [n \in DOMAIN old |-> B(n)]
           status == IF \E n \in DOMAIN lines : Bps(lines[n]) > Threshold
                       THEN "pending_approval" ELSE "review"
           new   == [status |-> status, lines |-> sheet]
<1>1. /\ Doing(s, "review") /\ End(s) /\ doc' = [doc EXCEPT ![c] = new]
      /\ UNCHANGED <<stock, ledger, gap, late, begun, lost>>
  BY DEF Review
<1>2. /\ c \in Docs /\ c \in Counts /\ c \notin Transfers
      /\ old \in Seq(LineType) /\ lines \in Seq(LineType) /\ DOMAIN lines = DOMAIN old
      /\ LinesOf(c, old) /\ Sheet(old) /\ Sheet(lines)
      /\ \A n \in DOMAIN lines : lines[n].noted # Never
  <2>1. c \in Docs /\ c \in Counts /\ \A n \in DOMAIN lines : lines[n].noted # Never
    <3>1. c \in Docs /\ Allowed("review", c, txn[s].read)
      BY <1>1, InFlight
    <3> QED BY <3>1, Asked
  <2>2. c \notin Transfers
    BY <2>1, KindsAssumption
  <2>3. /\ old \in Seq(LineType) /\ lines \in Seq(LineType) /\ DOMAIN lines = DOMAIN old
        /\ Fits(c, doc[c]) /\ Fits(c, txn[s].read)
    BY <1>1, InFlight
  <2> QED BY <2>1, <2>2, <2>3 DEF Fits
<1>3. ASSUME NEW n \in DOMAIN old
      PROVE  /\ B(n) \in LineType /\ B(n).item = old[n].item
             /\ B(n).seen = old[n].seen /\ B(n).noted = old[n].noted
             /\ B(n).qty = old[n].qty
             /\ B(n).owed # Never => B(n).variance = - B(n).owed
  <2>1. /\ old[n] \in LineType /\ lines[n].qty \in Nat /\ lines[n].noted \in Int
        /\ lines[n].seen \in Column
    BY <1>2, LineAt DEF Column
  <2>2. lines[n].seen # Never => lines[n].noted - lines[n].qty = - lines[n].seen
    BY <1>2 DEF Sheet
  <2>3. PICK line, x, y, z :
          /\ line = old[n] /\ x = lines[n].noted - lines[n].qty /\ y = lines[n].seen
          /\ z = B(n)
    OBVIOUS
  <2>4. z = [line EXCEPT !.variance = x, !.owed = y]
    BY <2>3
  <2> HIDE DEF B
  <2>5. line \in LineType /\ x \in Int /\ y \in Column /\ (y # Never => x = - y)
    BY <2>1, <2>2, <2>3
  <2>6. z \in LineType /\ z = [item |-> line.item, qty |-> line.qty, cost |-> line.cost,
                               noted |-> line.noted, variance |-> x,
                               seen |-> line.seen, owed |-> y]
    BY <2>4, <2>5, ReviewedLine
  <2> QED BY <2>3, <2>5, <2>6
<1>4. /\ sheet \in [DOMAIN old -> LineType]
      /\ \A n \in DOMAIN old : sheet[n].item = old[n].item
      /\ Sheet(sheet)
  <2>1. \A n \in DOMAIN old : sheet[n] = B(n)
    OBVIOUS
  <2>2. sheet = [n \in DOMAIN old |-> sheet[n]]
    OBVIOUS
  <2> HIDE DEF B, sheet
  <2>3. DOMAIN sheet = DOMAIN old
    BY <2>2
  <2>4. \A n \in DOMAIN old :
          old[n].seen # Never =>
            old[n].noted # Never /\ old[n].noted - old[n].qty = - old[n].seen
    BY <1>2 DEF Sheet
  <2>5. Sheet(sheet)
    BY <1>3, <2>1, <2>3, <2>4 DEF Sheet
  <2> QED BY <1>3, <2>1, <2>2, <2>5
<1>5. status \in Statuses \ {"none", "dispatched"}
  BY DEF Statuses
<1>6. /\ new \in DocType /\ LinesOf(c, sheet) /\ new.lines = sheet /\ new.status = status
  <2> HIDE DEF old, sheet, status
  <2> QED BY <1>2, <1>4, <1>5, WithLines, SMTT(30)
<1> HIDE DEF new, sheet, status
<1>7. Fits(c, new)
  BY <1>2, <1>4, <1>6 DEF Fits
<1>8. txn' \in [Requests -> Txns] /\ \A r \in Requests : txn'[r] # Idle => txn'[r] = txn[r]
  BY <1>1, EndOthers
<1> QED BY <1>1, <1>2, <1>5, <1>6, <1>7, <1>8, EditKeeps

\* Every step keeps the invariant.
LEMMA NextInv == Inv /\ [Next]_vars => Inv'
<1> SUFFICES ASSUME Inv, [Next]_vars PROVE Inv'
  OBVIOUS
<1>1. ASSUME NEW s \in Requests, NEW act \in Acts, NEW d \in Docs, Begin(s, act, d)
      PROVE  Inv'
  BY <1>1, BeginKeeps
<1>2. ASSUME NEW s \in Requests, PostBill(s) \/ PostInvoice(s) \/ Void(s) PROVE Inv'
  BY <1>2, PostBillKeeps, PostInvoiceKeeps, VoidKeeps
<1>3. ASSUME NEW s \in Requests, Dispatch(s) \/ Receive(s) \/ Cancel(s) PROVE Inv'
  BY <1>3, DispatchKeeps, ReceiveKeeps, CancelKeeps
<1>4. ASSUME NEW s \in Requests,
             EnterCounts(s) \/ Review(s) \/ Approve(s) \/ PostCount(s)
      PROVE  Inv'
  BY <1>4, EnterCountsKeeps, ReviewKeeps, ApproveKeeps, PostCountKeeps
<1>5. ASSUME NEW s \in Requests, Fail(s) PROVE Inv'
  BY <1>5, FailKeeps
<1>6. ASSUME NEW c \in Counts, CreateCount(c) PROVE Inv'
  BY <1>6, CreateCountKeeps
<1>7. ASSUME NEW k \in Keys, Lose(k) PROVE Inv'
  BY <1>7, LoseKeeps
<1>8. CASE UNCHANGED vars
  <2>1. UNCHANGED <<stock, doc, ledger, gap, late, txn, begun, lost>>
    BY <1>8 DEF vars
  <2>2. TypeOK'
    BY <2>1 DEF Inv, TypeOK
  <2>3. DocInv' /\ BlankInv' /\ RowsInv' /\ VoidInv' /\ TxnInv'
    BY <2>1, SameKeeps, TxnKeeps
  <2> QED BY <2>2, <2>3 DEF Inv
<1> QED BY <1>1, <1>2, <1>3, <1>4, <1>5, <1>6, <1>7, <1>8 DEF Next

--------------------------------------------------------------------------------
(* The theorems.                                                              *)

\* The inductive invariant holds in every reachable state.
LEMMA Invariant == Spec => []Inv
<1>1. Inv /\ [Next]_vars => Inv'
  BY NextInv
<1> QED BY InitInv, <1>1, PTL DEF Spec

\* No balance becomes negative, in quantity or in value, and every variable keeps
\* its type.
THEOREM BalancesNeverNegative == Spec => []TypeOK
<1>1. Inv => TypeOK
  BY DEF Inv
<1> QED BY Invariant, <1>1, PTL

\* Whatever was posted, refused half-way and voided, in whatever order and by however
\* many requests at the same time: the rows of a voided bill or invoice add up to
\* nothing in every balance (rewindStockForSource).
THEOREM VoidTakesBackAll == Spec => []VoidedMovesNothing
<1>1. Inv => VoidedMovesNothing
  <2> SUFFICES ASSUME Inv, NEW d \in (Bills \cup Invoices) \ late, NEW k \in Keys,
                      doc[d].status = "void"
               PROVE  Moved(d, k) = [qty |-> 0, value |-> 0]
    BY DEF VoidedMovesNothing
  <2>1. Nothing(ledger[d])
    BY DEF Inv, VoidInv
  <2>2. Total(Units(ledger[d], k)) = 0 /\ Total(Cents(ledger[d], k)) = 0
    BY <2>1 DEF Nothing
  <2> QED BY <2>2 DEF Moved
<1> QED BY Invariant, <1>1, PTL

\* The posting of a count moves each balance of its sheet by the variance of its line.
LEMMA CountMovesVariance ==
  ASSUME Inv, NEW s \in Requests, PostCount(s), txn[s].doc \in Docs,
         doc'[txn[s].doc].status = "posted", doc[txn[s].doc].status # "posted",
         NEW n \in DOMAIN txn[s].read.lines
  PROVE  LET line == txn[s].read.lines[n]
             k    == <<line.item, At[txn[s].doc]>>
         IN  gap'[k] = gap[k] + line.variance
<1> DEFINE c     == txn[s].doc
           lines == txn[s].read.lines
           moves == [m \in DOMAIN lines |-> Correction(c, lines[m])]
           done  == Loop(moves)
           k     == <<lines[n].item, At[c]>>
           new   == [doc[c] EXCEPT !.status = IF done.refused THEN @ ELSE "posted"]
<1>1. Doing(s, "settle") /\ Commit(s, done, done.refused, new)
  BY DEF PostCount
<1>2. c \in Docs /\ c \in Counts /\ lines \in Seq(LineType) /\ LinesOf(c, lines)
  <2>1. /\ Allowed("settle", c, txn[s].read) /\ c \in Docs
        /\ lines \in Seq(LineType) /\ Fits(c, txn[s].read)
    BY <1>1, InFlight
  <2>2. c \in Counts
    BY <2>1, Asked
  <2> QED BY <2>1, <2>2 DEF Fits
<1>3. /\ moves \in Seq(MoveSet) /\ DOMAIN moves = DOMAIN lines
      /\ \A m \in DOMAIN lines : /\ moves[m].key = <<lines[m].item, At[c]>>
                                 /\ moves[m].qty = lines[m].variance
  BY <1>2, CorrectionType
<1> HIDE DEF moves
<1>4. stock \in Balances /\ gap \in [Keys -> Int]
  BY DEF Inv, TypeOK, Balances
<1>5. done \in Outcome
  BY <1>3, <1>4, LoopType
<1>6. ~ done.refused
  <2>1. doc' = [doc EXCEPT ![c] = new]
    BY <1>1 DEF Commit
  <2>2. doc \in [Docs -> DocType] /\ doc[c] \in DocType
    BY <1>2 DEF Inv, TypeOK
  <2>3. done.refused => new.status = doc[c].status
    BY <2>2 DEF DocType
  <2> HIDE DEF new
  <2>4. doc'[c] = new
    BY <1>2, <2>1, <2>2
  <2> QED BY <2>3, <2>4
<1>7. \A l, m \in DOMAIN moves : moves[l].key = moves[m].key => l = m
  <2> SUFFICES ASSUME NEW l \in DOMAIN lines, NEW m \in DOMAIN lines,
                      lines[l].item = lines[m].item
               PROVE  l = m
    BY <1>3
  <2>1. /\ l \in DOMAIN Lines[c] /\ m \in DOMAIN Lines[c]
        /\ Lines[c][l].item = Lines[c][m].item
    BY <1>2 DEF LinesOf
  <2> QED BY <1>2, <2>1, SheetAssumption
<1>8. done.stock[k].qty = stock[k].qty + lines[n].variance
  <2>1. n \in DOMAIN moves /\ moves[n].key = k /\ moves[n].qty = lines[n].variance
    BY <1>3
  <2>2. Loop(moves).stock[moves[n].key].qty = stock[moves[n].key].qty + moves[n].qty
    BY <1>3, <1>4, <1>6, <1>7, <2>1, LoopAdds
  <2> QED BY <2>1, <2>2
<1>9. k \in Keys /\ lines[n].variance \in Int
  BY <1>2, SheetKey, LineAt
<1> HIDE DEF done, k
<1>10. gap'[k] = gap[k] + done.stock[k].qty - stock[k].qty
  BY <1>1, <1>2, <1>9 DEF Commit
<1>11. gap[k] \in Int /\ stock[k].qty \in Int
  BY <1>4, <1>9 DEF Balances
<1>12. gap'[k] = gap[k] + lines[n].variance
  <2>1. PICK g, b, a, v : /\ g = gap[k] /\ b = stock[k].qty /\ a = done.stock[k].qty
                          /\ v = lines[n].variance
    OBVIOUS
  <2>2. g \in Int /\ b \in Int /\ v \in Int /\ a = b + v
    BY <1>8, <1>9, <1>11, <2>1
  <2>3. gap'[k] = g + a - b
    BY <1>10, <2>1
  <2>4. g + a - b = g + v
    BY <2>2
  <2> QED BY <2>1, <2>3, <2>4
<1> QED BY <1>12 DEF k

\* A request for another document, or of another kind, does not end this one's work
\* on a count.
LEMMA OnlyPostCountSettles ==
  ASSUME Inv, Next, NEW s \in Requests, Settles(s)
  PROVE  PostCount(s)
<1>1. /\ txn[s] # Idle /\ txn[s].act = "settle" /\ txn'[s] = Idle
      /\ doc'[txn[s].doc].status # doc[txn[s].doc].status
  BY DEF Settles, Doing
<1>2. txn \in [Requests -> Txns]
  BY DEF Inv, TypeOK, Txns
<1>3. ASSUME NEW r \in Requests, End(r) PROVE r = s
  BY <1>1, <1>2, <1>3 DEF End
<1>4. ASSUME NEW r \in Requests, NEW act \in Acts, NEW d \in Docs, Begin(r, act, d)
      PROVE  FALSE
  <2>1. doc' = doc
    BY <1>4 DEF Begin
  <2> QED BY <1>1, <2>1
<1>5. ASSUME NEW r \in Requests,
             \/ PostBill(r) \/ PostInvoice(r) \/ Void(r)
             \/ Dispatch(r) \/ Receive(r) \/ Cancel(r)
             \/ EnterCounts(r) \/ Review(r) \/ Approve(r)
      PROVE  FALSE
  <2>1. End(r)
    BY <1>5 DEF PostBill, PostInvoice, Void, Dispatch, Receive, Cancel, EnterCounts,
                Review, Approve, Commit
  <2>2. txn[r].act # "settle"
    BY <1>5 DEF PostBill, PostInvoice, Void, Dispatch, Receive, Cancel, EnterCounts,
                Review, Approve, Doing
  <2> QED BY <1>1, <1>3, <2>1, <2>2
<1>6. ASSUME NEW r \in Requests, PostCount(r) PROVE PostCount(s)
  <2>1. End(r)
    BY <1>6 DEF PostCount, Commit
  <2>2. r = s
    BY <1>3, <2>1
  <2> QED BY <1>6, <2>2
<1>7. ASSUME NEW r \in Requests, Fail(r) PROVE FALSE
  <2>1. doc' = doc
    BY <1>7 DEF Fail
  <2> QED BY <1>1, <2>1
<1>8. ASSUME NEW c \in Counts, CreateCount(c) PROVE FALSE
  <2>1. txn' = txn
    BY <1>8 DEF CreateCount
  <2> QED BY <1>1, <2>1
<1>9. ASSUME NEW k \in Keys, Lose(k) PROVE FALSE
  <2>1. doc' = doc
    BY <1>9 DEF Lose
  <2> QED BY <1>1, <2>1
<1> QED BY <1>4, <1>5, <1>6, <1>7, <1>8, <1>9 DEF Next

\* A count whose sheet still showed the book when it was counted takes away the gap of
\* that moment, whatever moved the stock between counting, review, approval and posting.
THEOREM CountsSettleTheirGap == Spec => CountSettlesGap
<1> DEFINE Settled ==
      \A s \in Requests : Settles(s) =>
        \A n \in DOMAIN txn[s].read.lines :
          LET line == txn[s].read.lines[n]
              k    == <<line.item, At[txn[s].doc]>>
          IN  line.owed # Never => gap'[k] = gap[k] - line.owed
<1>1. Inv /\ Next => Settled
  <2> SUFFICES ASSUME Inv, Next, NEW s \in Requests, Settles(s),
                      NEW n \in DOMAIN txn[s].read.lines,
                      txn[s].read.lines[n].owed # Never
               PROVE  LET line == txn[s].read.lines[n]
                          k    == <<line.item, At[txn[s].doc]>>
                      IN  gap'[k] = gap[k] - line.owed
    OBVIOUS
  <2> DEFINE c    == txn[s].doc
             line == txn[s].read.lines[n]
             k    == <<line.item, At[c]>>
  <2>1. /\ Doing(s, "settle")
        /\ doc[c].status # "posted" /\ doc'[c].status = "posted"
    BY DEF Settles
  <2>2. PostCount(s)
    BY OnlyPostCountSettles
  <2>3. /\ c \in Docs /\ txn[s].read.lines \in Seq(LineType) /\ Sheet(txn[s].read.lines)
    <3>1. /\ c \in Docs /\ Allowed("settle", c, txn[s].read) /\ Fits(c, txn[s].read)
          /\ txn[s].read.lines \in Seq(LineType)
      BY <2>1, InFlight
    <3>2. c \in Counts
      BY <3>1, Asked
    <3> QED BY <3>1, <3>2 DEF Fits
  <2>4. gap'[k] = gap[k] + line.variance
    BY <2>1, <2>2, <2>3, CountMovesVariance
  <2>5. line.variance = - line.owed /\ line.owed \in Int
    <3>1. line.owed \in Column
      BY <2>3, LineAt
    <3> QED BY <2>3, <3>1 DEF Sheet, Column
  <2>6. gap[k] \in Int
    <3>1. k \in Keys
      BY <2>3, SheetKey
    <3> QED BY <3>1 DEF Inv, TypeOK
  <2>7. PICK g, v, o : g = gap[k] /\ v = line.variance /\ o = line.owed
    OBVIOUS
  <2> HIDE DEF k, line
  <2>8. g \in Int /\ o \in Int /\ v = - o /\ gap'[k] = g + v
    BY <2>4, <2>5, <2>6, <2>7
  <2>9. gap'[k] = g - o
    BY <2>8
  <2> QED BY <2>7, <2>9 DEF k, line
<1>2. Inv /\ [Next]_vars => [Settled]_vars
  <2> HIDE DEF Settled
  <2> QED BY <1>1
<1>3. Spec => [][Settled]_vars
  <2> HIDE DEF Settled
  <2> QED BY Invariant, <1>2, PTL DEF Spec
<1> QED BY <1>3 DEF CountSettlesGap
================================================================================
