---------------------------- MODULE RecurringProofs ----------------------------
(****************************************************************************)
(* Proofs that no cycle of a recurring document is left out, that none has  *)
(* two documents unless transactions overlap, and that the worker runs no   *)
(* further ahead of the calendar than requests take it, for any number of   *)
(* templates, months and requests in flight.                                *)
(****************************************************************************)
EXTENDS Recurring, FiniteSetTheorems, TLAPS

Servers == Users \cup {Worker}

\* Rows as the proof needs them: nothing bounds the months.
LooseRows ==
  [way : Ways, day : 1 .. LastDay, next : (Nat \ {0}) \X (1 .. LastDay),
   end : Calendar \cup {Never}, count : Nat, active : BOOLEAN, deleted : BOOLEAN]

TypesInv ==
  /\ tmpl \in [Templates -> LooseRows]
  /\ made \in [Templates -> [Months -> Nat]]
  /\ list \subseteq Templates
  /\ DOMAIN numbers = Templates
  /\ DOMAIN txn = Servers
  /\ txn = [s \in Servers |-> txn[s]]
  /\ \A s \in Servers :
       txn[s] # Idle => txn[s].of \in Templates /\ txn[s].row \in LooseRows

\* What a transaction has read was covered when it was read, and documents do not
\* go away: so what it writes, one month and one document later, is covered too.
CycleInv ==
  /\ NoCycleMissed
  /\ \A s \in Servers : txn[s] # Idle => Covered(made[txn[s].of], txn[s].row)

\* A transaction has read a row of the same template as it is now, further back or,
\* after a race, further on.  Numbers that show the count rule the race out: all up to
\* the count are used, so a transaction that has read a lower count is refused.
FirstMonth(row) == row.next[1] - row.count

OnceInv ==
  /\ OncePerCycle
  /\ \A t \in Templates : tmpl[t].way = "bySeq" => numbers[t] = 1 .. tmpl[t].count
  /\ \A s \in Servers : txn[s] # Idle =>
       LET row == txn[s].row  now == tmpl[txn[s].of] IN
       /\ row.way = now.way
       /\ FirstMonth(row) = FirstMonth(now)
       /\ row.way = "bySeq" => row.count <= now.count

Inv == TypesInv /\ CycleInv /\ OnceInv

--------------------------------------------------------------------------------
\* The dates a template is set up with are pairs of numbers.
LEMMA Dates ==
  \A c \in Calendar : /\ c[1] \in DOMAIN Length /\ c[1] \in Nat \ {0} /\ c[2] \in Nat
                     /\ c = <<c[1], c[2]>>
<1> SUFFICES ASSUME NEW c \in Calendar
             PROVE  /\ c[1] \in DOMAIN Length /\ c[1] \in Nat \ {0} /\ c[2] \in Nat
                    /\ c = <<c[1], c[2]>>
  OBVIOUS
<1>1. PICK m \in DOMAIN Length : c \in {m} \X (1 .. Length[m])
  BY DEF Calendar
<1>2. DOMAIN Length \subseteq Int /\ \A n \in DOMAIN Length : n >= 1
  <2>1. PICK n : DOMAIN Length = 1 .. n
    BY CalendarAssumption
  <2> QED BY <2>1
<1>3. Length[m] \in Nat
  BY CalendarAssumption
<1> QED BY <1>1, <1>2, <1>3

\* The first run of a template is a date.
LEMMA FirstRunType ==
  \A start \in Calendar, day \in 1 .. LastDay :
    FirstRun(start, day) \in (Nat \ {0}) \X (1 .. LastDay)
<1> SUFFICES ASSUME NEW start \in Calendar, NEW day \in 1 .. LastDay
             PROVE  FirstRun(start, day) \in (Nat \ {0}) \X (1 .. LastDay)
  OBVIOUS
<1>1. start[1] \in Nat \ {0} /\ start[2] \in Nat
  BY Dates
<1>2. day \in Nat
  BY CalendarAssumption
<1> QED BY <1>1, <1>2 DEF FirstRun

\* Templates start with nothing generated and nothing to cover.
LEMMA InitInv == Init => Inv
<1> SUFFICES ASSUME Init PROVE Inv
  OBVIOUS
<1>1. PICK s \in Schedules : tmpl = [t \in Templates |-> Template(s[t])]
  BY DEF Init
<1>2. \A t \in Templates :
        s[t] \in [way : Ways, start : Calendar, day : 1 .. LastDay,
                  end : Calendar \cup {Never}]
  BY ScheduleAssumption
<1>3. \A t \in Templates : Template(s[t]) \in LooseRows
  <2> SUFFICES ASSUME NEW t \in Templates PROVE Template(s[t]) \in LooseRows
    OBVIOUS
  <2>1. FirstRun(s[t].start, s[t].day) \in (Nat \ {0}) \X (1 .. LastDay)
    BY <1>2, FirstRunType
  <2> QED BY <1>2, <2>1 DEF Template, LooseRows
<1>4. tmpl \in [Templates -> LooseRows]
  BY <1>1, <1>3
<1>5. TypesInv
  BY <1>4 DEF Init, TypesInv, Servers
<1>6. \A t \in Templates : tmpl[t].count = 0 /\ tmpl[t].next[1] \in Nat
  <2>1. \A t \in Templates : tmpl[t].count = 0
    BY <1>1 DEF Template
  <2> QED BY <2>1, <1>4 DEF LooseRows
<1>7. NoCycleMissed
  BY <1>6 DEF NoCycleMissed, Covered, Months
<1>8. \A r \in Servers : txn[r] = Idle
  BY DEF Init, Servers
<1>9. OncePerCycle
  BY <1>6 DEF Init, OncePerCycle, Months
<1>10. \A t \in Templates : numbers[t] = 1 .. tmpl[t].count
  BY <1>6 DEF Init
<1> QED BY <1>5, <1>7, <1>8, <1>9, <1>10 DEF Inv, CycleInv, OnceInv

--------------------------------------------------------------------------------
\* A step that reads or ends a transaction, and touches neither the dates and
\* counts of the templates nor the documents.
LEMMA Frame ==
  ASSUME Inv,
         tmpl' \in [Templates -> LooseRows], list' \subseteq Templates,
         \A t \in Templates :
           /\ tmpl'[t].next = tmpl[t].next /\ tmpl'[t].count = tmpl[t].count
           /\ tmpl'[t].way = tmpl[t].way,
         UNCHANGED <<made, numbers, raced>>,
         DOMAIN txn' = Servers, txn' = [s \in Servers |-> txn'[s]],
         \A s \in Servers :
           \/ txn'[s] = txn[s] \/ txn'[s] = Idle
           \/ \E t \in Templates : txn'[s].of = t /\ txn'[s].row = tmpl[t]
  PROVE  Inv'
<1>1. TypesInv'
  BY DEF Inv, TypesInv, Idle
<1>2. NoCycleMissed'
  BY DEF Inv, CycleInv, NoCycleMissed, Covered
<1>3. \A s \in Servers : txn'[s] # Idle => Covered(made'[txn'[s].of], txn'[s].row)
  BY DEF Inv, CycleInv, NoCycleMissed, Covered
<1>4. OncePerCycle'
  BY DEF Inv, OnceInv, OncePerCycle
<1>5. \A t \in Templates : tmpl'[t].way = "bySeq" => numbers'[t] = 1 .. tmpl'[t].count
  BY DEF Inv, OnceInv
<1>6. \A s \in Servers : txn'[s] # Idle =>
        /\ txn'[s].row.way = tmpl'[txn'[s].of].way
        /\ FirstMonth(txn'[s].row) = FirstMonth(tmpl'[txn'[s].of])
        /\ txn'[s].row.way = "bySeq" => txn'[s].row.count <= tmpl'[txn'[s].of].count
  <2> SUFFICES ASSUME NEW s \in Servers, txn'[s] # Idle
               PROVE  /\ txn'[s].row.way = tmpl'[txn'[s].of].way
                      /\ FirstMonth(txn'[s].row) = FirstMonth(tmpl'[txn'[s].of])
                      /\ txn'[s].row.way = "bySeq" =>
                           txn'[s].row.count <= tmpl'[txn'[s].of].count
    OBVIOUS
  <2>1. CASE txn'[s] = txn[s]
    <3>1. /\ txn[s].of \in Templates
          /\ txn[s].row.way = tmpl[txn[s].of].way
          /\ FirstMonth(txn[s].row) = FirstMonth(tmpl[txn[s].of])
          /\ txn[s].row.way = "bySeq" => txn[s].row.count <= tmpl[txn[s].of].count
      BY <2>1 DEF Inv, OnceInv, TypesInv
    <3>2. FirstMonth(tmpl'[txn[s].of]) = FirstMonth(tmpl[txn[s].of])
      BY <3>1 DEF FirstMonth
    <3> QED BY <2>1, <3>1, <3>2
  <2>2. ASSUME NEW t \in Templates, txn'[s].of = t, txn'[s].row = tmpl[t]
        PROVE  /\ txn'[s].row.way = tmpl'[t].way
               /\ FirstMonth(txn'[s].row) = FirstMonth(tmpl'[t])
               /\ txn'[s].row.count <= tmpl'[t].count
    BY <2>2 DEF FirstMonth, Inv, TypesInv, LooseRows
  <2> QED BY <2>1, <2>2
<1> QED BY <1>1, <1>2, <1>3, <1>4, <1>5, <1>6 DEF Inv, CycleInv, OnceInv, Idle

\* One transaction begins.
LEMMA Reading ==
  ASSUME Inv, NEW s \in Servers, NEW t \in Templates, Begin(s, t),
         list' \subseteq list
  PROVE  Inv'
<1>1. /\ txn' = [txn EXCEPT ![s] = [of |-> t, row |-> tmpl[t], date |-> today]]
      /\ UNCHANGED <<tmpl, made, numbers, raced>>
  BY DEF Begin, documents
<1>2. DOMAIN txn = Servers
  BY DEF Inv, TypesInv
<1> QED BY <1>1, <1>2, Frame DEF Inv, TypesInv

\* One transaction ends without a trace.
LEMMA Ending ==
  ASSUME Inv, NEW s \in Servers, txn' = [txn EXCEPT ![s] = Idle],
         UNCHANGED <<tmpl, made, numbers, raced>>, list' \subseteq list
  PROVE  Inv'
<1>1. DOMAIN txn = Servers
  BY DEF Inv, TypesInv
<1> QED BY <1>1, Frame DEF Inv, TypesInv

\* A document is made: every month of the template as it is written was covered
\* when it was read, but for the one this document is of.
LEMMA Generating ==
  ASSUME Inv, NEW s \in Servers, Generate(s), UNCHANGED list
  PROVE  Inv'
<1> DEFINE x == txn[s]
<1>1. /\ x # Idle
      /\ tmpl' = [tmpl EXCEPT ![x.of] = Advance(x)]
      /\ made' = [made EXCEPT ![x.of][x.row.next[1]] = @ + 1]
      /\ txn' = [txn EXCEPT ![s] = Idle]
  BY DEF Generate
<1>2. x.of \in Templates /\ x.row \in LooseRows /\ Covered(made[x.of], x.row)
  BY <1>1 DEF Inv, TypesInv, CycleInv
<1>3. /\ tmpl \in [Templates -> LooseRows]
      /\ made \in [Templates -> [Months -> Nat]]
      /\ DOMAIN txn = Servers
  BY DEF Inv, TypesInv
<1>4. /\ Advance(x) \in LooseRows
      /\ Advance(x).next[1] = x.row.next[1] + 1
      /\ Advance(x).count = x.row.count + 1
  <2>1. /\ x.row.next[1] \in Nat /\ x.row.count \in Nat
        /\ x.row.day \in 1 .. LastDay /\ tmpl[x.of] \in LooseRows
    BY <1>2, <1>3, CalendarAssumption DEF LooseRows
  <2>2. /\ NextRun(x.row.next, x.row.day) \in (Nat \ {0}) \X (1 .. LastDay)
        /\ NextRun(x.row.next, x.row.day)[1] = x.row.next[1] + 1
    BY <2>1 DEF NextRun
  <2>3. /\ Advance(x).next = NextRun(x.row.next, x.row.day)
        /\ Advance(x).count = x.row.count + 1
    BY <2>1 DEF Advance, LooseRows
  <2>4. ASSUME NEW row \in LooseRows, NEW next \in (Nat \ {0}) \X (1 .. LastDay),
               NEW count \in Nat
        PROVE  [row EXCEPT !.next = next, !.count = count] \in LooseRows
    BY DEF LooseRows
  <2>5. Advance(x) \in LooseRows
    <3>1. x.row.count + 1 \in Nat
      BY <2>1
    <3> HIDE DEF x
    <3> QED BY <2>1, <2>2, <2>4, <3>1 DEF Advance
  <2> QED BY <2>2, <2>3, <2>5
<1>5. /\ made' \in [Templates -> [Months -> Nat]]
      /\ \A t \in Templates, m \in Months : made'[t][m] >= made[t][m]
      /\ x.row.next[1] \in Months => made'[x.of][x.row.next[1]] > 0
  <2>1. made'[x.of] = [made[x.of] EXCEPT ![x.row.next[1]] = @ + 1]
    BY <1>1, <1>2, <1>3
  <2>2. \A t \in Templates : t # x.of => made'[t] = made[t]
    BY <1>1, <1>3
  <2>3. made'[x.of] \in [Months -> Nat]
    <3>1. made[x.of] \in [Months -> Nat] /\ x.row.next[1] \in Nat
      BY <1>2, <1>3 DEF LooseRows
    <3>2. CASE x.row.next[1] \in Months
      BY <2>1, <3>1, <3>2
    <3>3. CASE x.row.next[1] \notin Months
      BY <2>1, <3>1, <3>3
    <3> QED BY <3>2, <3>3
  <2>4. made' \in [Templates -> [Months -> Nat]]
    BY <2>2, <2>3, <1>1, <1>3
  <2>5. \A m \in Months : made'[x.of][m] >= made[x.of][m]
    BY <2>1, <1>2, <1>3
  <2>6. x.row.next[1] \in Months => made'[x.of][x.row.next[1]] > 0
    BY <2>1, <1>2, <1>3
  <2>7. \A t \in Templates, m \in Months : made'[t][m] >= made[t][m]
    BY <2>2, <2>5, <1>3
  <2> QED BY <2>4, <2>6, <2>7
<1>6. /\ tmpl' \in [Templates -> LooseRows]
      /\ \A t \in Templates : tmpl'[t] = IF t = x.of THEN Advance(x) ELSE tmpl[t]
  BY <1>1, <1>2, <1>3, <1>4
<1>7. /\ DOMAIN txn' = Servers
      /\ txn' = [r \in Servers |-> txn'[r]]
      /\ \A r \in Servers : txn'[r] = IF r = s THEN Idle ELSE txn[r]
  BY <1>1, <1>3
<1>8. TypesInv'
  BY <1>5, <1>6, <1>7 DEF Inv, TypesInv, Idle, Generate
<1>9. \A t \in Templates : \A row : Covered(made[t], row) => Covered(made'[t], row)
  <2> SUFFICES ASSUME NEW t \in Templates, NEW row, Covered(made[t], row),
                      NEW m \in Months, m \in row.next[1] - row.count .. row.next[1] - 1
               PROVE  made'[t][m] > 0
    BY DEF Covered
  <2>1. made[t][m] > 0
    BY DEF Covered
  <2>2. made[t][m] \in Nat /\ made'[t][m] \in Nat /\ made'[t][m] >= made[t][m]
    BY <1>3, <1>5
  <2> QED BY <2>1, <2>2
<1>10. Covered(made'[x.of], Advance(x))
  <2> SUFFICES ASSUME NEW m \in Months,
                      m \in x.row.next[1] - x.row.count .. x.row.next[1]
               PROVE  made'[x.of][m] > 0
    <3>1. x.row.next[1] \in Nat /\ x.row.count \in Nat
      BY <1>2 DEF LooseRows
    <3> QED BY <3>1, <1>4 DEF Covered
  <2>1. CASE m = x.row.next[1]
    BY <2>1, <1>5
  <2>2. CASE m # x.row.next[1]
    <3>1. m \in x.row.next[1] - x.row.count .. x.row.next[1] - 1
      BY <2>2, <1>2 DEF LooseRows, Months
    <3>2. Covered(made'[x.of], x.row)
      BY <1>2, <1>9
    <3> QED BY <3>1, <3>2 DEF Covered
  <2> QED BY <2>1, <2>2
<1>11. NoCycleMissed'
  BY <1>6, <1>9, <1>10 DEF Inv, CycleInv, NoCycleMissed
<1>12. \A r \in Servers : txn'[r] # Idle => Covered(made'[txn'[r].of], txn'[r].row)
  BY <1>7, <1>9 DEF Inv, TypesInv, CycleInv
<1>13. /\ x.row.way = tmpl[x.of].way
       /\ FirstMonth(x.row) = FirstMonth(tmpl[x.of])
       /\ x.row.way = "bySeq" =>
            x.row.count <= tmpl[x.of].count /\ numbers[x.of] = 1 .. tmpl[x.of].count
       /\ numbers' = [numbers EXCEPT ![x.of] = @ \cup Number(x)]
       /\ NumberIndex(x)
       /\ raced' = IF tmpl[x.of].count = x.row.count THEN raced ELSE raced \cup {x.of}
  BY <1>1, <1>2 DEF Inv, OnceInv, Generate, Accepted
<1>14. x.row.way = "bySeq" => x.row.count = tmpl[x.of].count
  <2> SUFFICES ASSUME x.row.way = "bySeq" PROVE x.row.count = tmpl[x.of].count
    OBVIOUS
  <2>1. x.row.count \in Nat /\ tmpl[x.of].count \in Nat
    BY <1>2, <1>3 DEF LooseRows
  <2>2. Number(x) = {x.row.count + 1}
    BY DEF Number
  <2>3. x.row.count + 1 \notin 1 .. tmpl[x.of].count
    BY <2>2, <1>13 DEF NumberIndex
  <2> QED BY <2>1, <2>3, <1>13
<1>15. FirstMonth(Advance(x)) = FirstMonth(tmpl[x.of]) /\ Advance(x).way = tmpl[x.of].way
  <2>1. x.row.next[1] \in Nat /\ x.row.count \in Nat
    BY <1>2 DEF LooseRows
  <2>2. Advance(x).way = tmpl[x.of].way
    BY <1>2, <1>3 DEF Advance, LooseRows
  <2>3. Advance(x).next[1] - Advance(x).count = x.row.next[1] - x.row.count
    BY <2>1, <1>4
  <2>4. FirstMonth(Advance(x)) = FirstMonth(x.row)
    BY <2>3 DEF FirstMonth
  <2> QED BY <2>2, <2>4, <1>13
<1>16. OncePerCycle'
  <2> SUFFICES ASSUME NEW t \in Templates
               PROVE  /\ tmpl'[t].way = "bySeq" => t \notin raced'
                      /\ t \in raced' \/ \A m \in Months :
                           made'[t][m] =
                             IF m \in tmpl'[t].next[1] - tmpl'[t].count
                                       .. tmpl'[t].next[1] - 1
                             THEN 1 ELSE 0
    BY DEF OncePerCycle
  <2>1. /\ tmpl[t].way = "bySeq" => t \notin raced
        /\ t \in raced \/ \A m \in Months :
             made[t][m] =
               IF m \in tmpl[t].next[1] - tmpl[t].count .. tmpl[t].next[1] - 1
               THEN 1 ELSE 0
    BY DEF Inv, OnceInv, OncePerCycle
  <2>2. CASE t # x.of
    <3>1. tmpl'[t] = tmpl[t] /\ made'[t] = made[t] /\ (t \in raced' <=> t \in raced)
      BY <2>2, <1>1, <1>3, <1>6, <1>13
    <3> QED BY <2>1, <3>1
  <2>3. CASE t = x.of
    <3>1. tmpl'[t] = Advance(x) /\ tmpl'[t].way = tmpl[t].way
      BY <2>3, <1>6, <1>15
    <3>2. tmpl'[t].way = "bySeq" => t \notin raced'
      BY <2>1, <2>3, <3>1, <1>13, <1>14
    <3>3. ASSUME t \notin raced', NEW m \in Months
          PROVE  made'[t][m] = IF m \in tmpl'[t].next[1] - tmpl'[t].count
                                         .. tmpl'[t].next[1] - 1
                               THEN 1 ELSE 0
      <4>1. t \notin raced /\ tmpl[t].count = x.row.count
        BY <3>3, <2>3, <1>13
      <4>2. /\ x.row.next[1] \in Nat /\ x.row.count \in Nat
            /\ tmpl[t].next[1] \in Nat /\ tmpl[t].count \in Nat
        BY <2>3, <1>2, <1>3 DEF LooseRows
      <4>3. tmpl[t].next[1] = x.row.next[1]
        BY <4>1, <4>2, <2>3, <1>13 DEF FirstMonth
      <4>4. made[t][m] = IF m \in x.row.next[1] - x.row.count .. x.row.next[1] - 1
                         THEN 1 ELSE 0
        BY <2>1, <4>1, <4>3
      <4>5. made'[t][m] = IF m = x.row.next[1] THEN made[t][m] + 1 ELSE made[t][m]
        BY <2>3, <1>1, <1>2, <1>3
      <4>6. /\ tmpl'[t].next[1] = x.row.next[1] + 1
            /\ tmpl'[t].count = x.row.count + 1
        BY <3>1, <1>4
      <4>7. m \in Int
        BY DEF Months
      <4> QED BY <4>2, <4>4, <4>5, <4>6, <4>7
    <3> QED BY <3>2, <3>3
  <2> QED BY <2>2, <2>3
<1>17. \A t \in Templates : tmpl'[t].way = "bySeq" => numbers'[t] = 1 .. tmpl'[t].count
  <2> SUFFICES ASSUME NEW t \in Templates, tmpl'[t].way = "bySeq"
               PROVE  numbers'[t] = 1 .. tmpl'[t].count
    OBVIOUS
  <2>1. CASE t # x.of
    <3>1. tmpl'[t] = tmpl[t] /\ numbers'[t] = numbers[t]
      BY <2>1, <1>6, <1>13 DEF Inv, TypesInv
    <3> QED BY <3>1 DEF Inv, OnceInv
  <2>2. CASE t = x.of
    <3>1. x.row.way = "bySeq"
      BY <2>2, <1>6, <1>13, <1>15
    <3>2. numbers'[t] = (1 .. tmpl[t].count) \cup {x.row.count + 1}
      BY <2>2, <3>1, <1>13 DEF Number, Inv, TypesInv
    <3>3. tmpl'[t].count = x.row.count + 1 /\ tmpl[t].count = x.row.count
      BY <2>2, <3>1, <1>4, <1>6, <1>14
    <3>4. x.row.count \in Nat
      BY <1>2 DEF LooseRows
    <3> QED BY <3>2, <3>3, <3>4
  <2> QED BY <2>1, <2>2
<1>18. \A r \in Servers : txn'[r] # Idle =>
         /\ txn'[r].row.way = tmpl'[txn'[r].of].way
         /\ FirstMonth(txn'[r].row) = FirstMonth(tmpl'[txn'[r].of])
         /\ txn'[r].row.way = "bySeq" => txn'[r].row.count <= tmpl'[txn'[r].of].count
  <2> SUFFICES ASSUME NEW r \in Servers, txn'[r] # Idle
               PROVE  /\ txn[r].row.way = tmpl'[txn[r].of].way
                      /\ FirstMonth(txn[r].row) = FirstMonth(tmpl'[txn[r].of])
                      /\ txn[r].row.way = "bySeq" =>
                           txn[r].row.count <= tmpl'[txn[r].of].count
    BY <1>7
  <2>1. /\ txn[r].of \in Templates /\ txn[r].row \in LooseRows
        /\ txn[r].row.way = tmpl[txn[r].of].way
        /\ FirstMonth(txn[r].row) = FirstMonth(tmpl[txn[r].of])
        /\ txn[r].row.way = "bySeq" => txn[r].row.count <= tmpl[txn[r].of].count
    BY <1>7 DEF Inv, TypesInv, OnceInv
  <2>2. CASE txn[r].of # x.of
    BY <2>1, <2>2, <1>6
  <2>3. CASE txn[r].of = x.of
    <3>1. tmpl'[txn[r].of] = Advance(x)
      BY <2>1, <2>3, <1>6
    <3>2. txn[r].row.way = "bySeq" => txn[r].row.count <= Advance(x).count
      <4>1. txn[r].row.count \in Nat /\ x.row.count \in Nat
        BY <2>1, <1>2 DEF LooseRows
      <4> QED BY <4>1, <2>1, <2>3, <1>4, <1>13, <1>14
    <3> QED BY <2>1, <2>3, <3>1, <3>2, <1>15
  <2> QED BY <2>2, <2>3
<1> QED BY <1>8, <1>11, <1>12, <1>16, <1>17, <1>18 DEF Inv, CycleInv, OnceInv, Idle

\* The endpoints that write a template leave its date and count alone.
LEMMA Writing ==
  ASSUME Inv, NEW t \in Templates, NEW row \in LooseRows, Write(t, row),
         row.next = tmpl[t].next, row.count = tmpl[t].count, row.way = tmpl[t].way
  PROVE  Inv'
<1>1. /\ tmpl' = [tmpl EXCEPT ![t] = row]
      /\ UNCHANGED <<made, numbers, raced, txn, list>>
  BY DEF Write, Act, documents
<1>2. tmpl \in [Templates -> LooseRows]
  BY DEF Inv, TypesInv
<1>3. /\ tmpl' \in [Templates -> LooseRows]
      /\ \A r \in Templates :
           /\ tmpl'[r].next = tmpl[r].next /\ tmpl'[r].count = tmpl[r].count
           /\ tmpl'[r].way = tmpl[r].way
  BY <1>1, <1>2
<1> QED BY <1>1, <1>3, Frame DEF Inv, TypesInv

\* Steps of the clock, the worker's list and the periods touch none of it.
LEMMA Unchanged ==
  ASSUME Inv, UNCHANGED <<tmpl, made, numbers, raced, txn>>, list' \subseteq Templates
  PROVE  Inv'
BY Frame DEF Inv, TypesInv

\* Every step of the jobs, the endpoints and the clock keeps the invariant.
LEMMA NextInv ==
  ASSUME Inv, [Next]_vars
  PROVE  Inv'
<1>1. CASE Day
  BY <1>1, Unchanged DEF Day, documents, Inv, TypesInv
<1>2. ASSUME NEW job \in Jobs, List(job) PROVE Inv'
  BY <1>2, Unchanged DEF List, Due, documents
<1>3. CASE Take
  <2>1. PICK t \in list :
        /\ list' = list \ {t}
        /\ \/ Begin(Worker, t)
           \/ UNCHANGED <<tmpl, txn, documents>>
    BY <1>3 DEF Take
  <2>2. CASE UNCHANGED <<tmpl, txn, documents>>
    BY <2>1, <2>2, Unchanged DEF documents, Inv, TypesInv
  <2>3. CASE Begin(Worker, t)
    <3>1. t \in Templates
      BY <2>1 DEF Inv, TypesInv
    <3> QED BY <2>1, <2>3, <3>1, Reading DEF Servers
  <2> QED BY <2>1, <2>2, <2>3
<1>4. CASE Make
  BY <1>4, Generating DEF Make, Servers
<1>5. CASE Log
  BY <1>5, Ending DEF Log, Refuse, Remaining, Servers, documents
<1>6. CASE Crash
  BY <1>6, Ending DEF Crash, Servers, documents
<1>7. ASSUME NEW s \in Users, NEW t \in Templates, GenerateNow(s, t) PROVE Inv'
  BY <1>7, Reading DEF GenerateNow, Act, Servers
<1>8. ASSUME NEW s \in Users, Answer(s) PROVE Inv'
  BY <1>8, Generating, Ending DEF Answer, Refuse, Servers, documents
<1>9. ASSUME NEW t \in Templates,
             Pause(t) \/ Resume(t) \/ Delete(t)
               \/ \E day \in 1 .. LastDay, end \in Ends : Edit(t, day, end)
      PROVE  Inv'
  <2>1. tmpl[t] \in LooseRows
    BY DEF Inv, TypesInv
  <2>2. CASE Pause(t)
    BY <2>1, <2>2, Writing DEF Pause, LooseRows
  <2>3. CASE Resume(t)
    BY <2>1, <2>3, Writing DEF Resume, LooseRows
  <2>4. CASE Delete(t)
    BY <2>1, <2>4, Writing DEF Delete, LooseRows
  <2>5. ASSUME NEW day \in 1 .. LastDay, NEW end \in Ends, Edit(t, day, end)
        PROVE  Inv'
    BY <2>1, <2>5, Writing, CalendarAssumption DEF Edit, LooseRows
  <2> QED BY <1>9, <2>2, <2>3, <2>4, <2>5
<1>10. ASSUME NEW m \in Closable, Lock(m) PROVE Inv'
  BY <1>10, Unchanged DEF Lock, Act, documents, Inv, TypesInv
<1>11. CASE UNCHANGED vars
  BY <1>11, Unchanged DEF vars, Inv, TypesInv
<1> QED BY <1>1, <1>2, <1>3, <1>4, <1>5, <1>6, <1>7, <1>8, <1>9, <1>10, <1>11
        DEF Next

--------------------------------------------------------------------------------
\* However requests, the worker, its crashes and edits of the templates overlap,
\* every cycle before the next run date of a template, as far back as its count
\* goes, has a document.
THEOREM NoneMissed == Spec => []NoCycleMissed
<1>1. Init => Inv
  BY InitInv
<1>2. Inv /\ [Next]_vars => Inv'
  BY NextInv
<1>3. Inv => NoCycleMissed
  BY DEF Inv, CycleInv
<1> QED BY <1>1, <1>2, <1>3, PTL DEF Spec

\* Unless transactions that have read the same template both write it, a cycle has one
\* document, which for bills numbered by the count is always so.
THEOREM MadeOnce == Spec => []OncePerCycle
<1>1. Init => Inv
  BY InitInv
<1>2. Inv /\ [Next]_vars => Inv'
  BY NextInv
<1>3. Inv => OncePerCycle
  BY DEF Inv, OnceInv
<1> QED BY <1>1, <1>2, <1>3, PTL DEF Spec

--------------------------------------------------------------------------------
(* The worker ahead of the calendar, and the types.                           *)

NotYet(row) == ~NotAfter(row.next, today)

\* A template on the worker's list, or just taken from it, was due when it was listed.  If
\* it is not due any more, generate-now has made the document, and the worker has not yet
\* answered that with one of its own.
AheadInv ==
  /\ EarlyByRequest
  /\ \A t \in list : NotYet(tmpl[t]) => early[t] < asked[t]
  /\ txn[Worker] # Idle =>
       /\ txn[Worker].of \notin list
       /\ NotYet(txn[Worker].row) => early[txn[Worker].of] < asked[txn[Worker].of]

\* How far the dates of a template can be: two months after the last (a start on a day that
\* the month after it lacks), and one more for each document made by generate-now, or by
\* the worker ahead of the calendar.
LastMonth == Cardinality(DOMAIN Length)
Reach(t) == LastMonth + 2 + asked[t] + early[t]

Flying == {u \in Users : txn[u] # Idle}

ReachInv ==
  /\ \A t \in Templates : tmpl[t].next[1] <= Reach(t)
  /\ \A s \in Servers : txn[s] # Idle => txn[s].row.next[1] <= Reach(txn[s].of)
  /\ IsFiniteSet(Flying)
  /\ \A t \in Templates : asked[t] + Cardinality(Flying) <= acts

\* The types that Inv does not have.
RestTypes ==
  /\ today \in Calendar
  /\ locked \subseteq DOMAIN Length
  /\ \A s \in Servers : txn[s] # Idle =>
       txn[s] \in [of : Templates, row : LooseRows, date : Calendar]
  /\ \A t \in Templates : numbers[t] \subseteq Nat
  /\ early \in [Templates -> Nat] /\ asked \in [Templates -> Nat]
  /\ raced \subseteq Templates
  /\ acts \in 0 .. MaxActs /\ crashes \in 0 .. MaxCrashes

Whole == Inv /\ RestTypes /\ AheadInv /\ ReachInv

\* The months of the calendar are as many as a number says.
LEMMA LastMonthType == LastMonth \in Nat /\ DOMAIN Length = 1 .. LastMonth
BY CalendarAssumption, FS_CardinalityType DEF LastMonth

\* What has come due stays due.
LEMMA DayPasses ==
  ASSUME RestTypes, Day
  PROVE  /\ today' \in Calendar
         /\ \A row \in LooseRows : NotYet(row)' => NotYet(row)
<1>1. /\ today # Never /\ today' # Never /\ today' \in Calendar
      /\ today[1] \in Nat /\ today[2] \in Nat
  BY Dates, NeverAssumption DEF Day, RestTypes
<1>2. \/ today'[1] = today[1] /\ today'[2] = today[2] + 1
      \/ today'[1] = today[1] + 1
  BY DEF Day
<1>3. ASSUME NEW row \in LooseRows, NotYet(row)' PROVE NotYet(row)
  <2>1. row.next[1] \in Nat /\ row.next[2] \in Nat
    BY <1>3, CalendarAssumption DEF LooseRows
  <2> QED BY <1>1, <1>2, <1>3, <2>1 DEF NotYet, NotAfter
<1> QED BY <1>1, <1>3

\* A template that is due is due in a month of the calendar.
LEMMA DueIsNear ==
  ASSUME RestTypes, NEW row \in LooseRows, ~NotYet(row)
  PROVE  row.next[1] <= LastMonth
<1>1. today # Never /\ today[1] \in 1 .. LastMonth
  BY Dates, LastMonthType, NeverAssumption DEF RestTypes
<1>2. row.next[1] \in Nat
  BY DEF LooseRows
<1> QED BY <1>1, <1>2, LastMonthType DEF NotYet, NotAfter

\* What a transaction has read is a transaction, not the absence of one.
LEMMA ReadingIsBusy ==
  ASSUME RestTypes, NEW t, NEW row
  PROVE  [of |-> t, row |-> row, date |-> today] # Idle
BY NeverAssumption DEF RestTypes, Idle

\* Nothing has been made, asked for or read.
LEMMA InitWhole == Init => Whole
<1> SUFFICES ASSUME Init PROVE Whole
  OBVIOUS
<1>1. Inv
  BY InitInv
<1>2. /\ \A s \in Servers : txn[s] = Idle
      /\ \A t \in Templates : early[t] = 0 /\ asked[t] = 0
      /\ acts = 0 /\ list = {} /\ Worker \in Servers
  BY DEF Init, Servers
<1>3. RestTypes
  BY <1>2, CalendarAssumption, BoundsAssumption DEF Init, RestTypes
<1>4. AheadInv
  BY <1>2 DEF AheadInv, EarlyByRequest
<1>5. Flying = {} /\ IsFiniteSet({}) /\ Cardinality({}) = 0
  BY <1>2, FS_EmptySet DEF Flying, Servers
<1>6. \A t \in Templates : tmpl[t].next[1] <= LastMonth + 2
  <2> SUFFICES ASSUME NEW t \in Templates PROVE tmpl[t].next[1] <= LastMonth + 2
    OBVIOUS
  <2>1. PICK s \in Schedules : tmpl = [r \in Templates |-> Template(s[r])]
    BY DEF Init
  <2>2. s[t].start \in Calendar
    BY <2>1, ScheduleAssumption
  <2>3. s[t].start[1] \in 1 .. LastMonth
    BY <2>2, Dates, LastMonthType
  <2>4. tmpl[t].next = FirstRun(s[t].start, s[t].day)
    BY <2>1 DEF Template
  <2> QED BY <2>3, <2>4, LastMonthType DEF FirstRun
<1>7. ReachInv
  <2>1. \A t \in Templates : Reach(t) = LastMonth + 2
    BY <1>2, LastMonthType DEF Reach
  <2> QED BY <1>2, <1>5, <1>6, <2>1 DEF ReachInv
<1> QED BY <1>1, <1>3, <1>4, <1>7 DEF Whole

--------------------------------------------------------------------------------
\* What a transaction has just read.
Read(t) == [of |-> t, row |-> tmpl[t], date |-> today]

\* Steps that make no document, with transactions that begin, end or go on.
LEMMA RestFrame ==
  ASSUME Whole, UNCHANGED <<today, numbers, early, asked, raced>>,
         locked' \subseteq DOMAIN Length,
         acts' \in 0 .. MaxActs, crashes' \in 0 .. MaxCrashes,
         \A s \in Servers :
           txn'[s] = txn[s] \/ txn'[s] = Idle \/ \E t \in Templates : txn'[s] = Read(t)
  PROVE  RestTypes'
<1>1. \A t \in Templates : Read(t) \in [of : Templates, row : LooseRows, date : Calendar]
  BY DEF Whole, Inv, TypesInv, RestTypes, Read
<1>2. \A s \in Servers : txn'[s] # Idle =>
        txn'[s] \in [of : Templates, row : LooseRows, date : Calendar]
  BY <1>1 DEF Whole, RestTypes
<1> QED BY <1>2 DEF Whole, RestTypes, Idle

\* The worker may take a template from its list, which nothing else adds to.
LEMMA AheadFrame ==
  ASSUME Whole, UNCHANGED <<today, early, asked>>,
         \A t \in Templates : tmpl'[t].next = tmpl[t].next,
         \/ list' \subseteq list /\ txn'[Worker] \in {txn[Worker], Idle}
         \/ \E t \in list : list' = list \ {t} /\ txn'[Worker] = Read(t)
  PROVE  AheadInv'
<1>1. EarlyByRequest' /\ list \subseteq Templates /\ list' \subseteq list
  BY DEF Whole, AheadInv, EarlyByRequest, Inv, TypesInv
<1>2. \A t \in list' : NotYet(tmpl[t])' => early'[t] < asked'[t]
  BY <1>1 DEF Whole, AheadInv, NotYet, NotAfter
<1>3. CASE list' \subseteq list /\ txn'[Worker] \in {txn[Worker], Idle}
  BY <1>1, <1>2, <1>3 DEF Whole, AheadInv, NotYet, NotAfter, Idle
<1>4. ASSUME NEW t \in list, list' = list \ {t}, txn'[Worker] = Read(t)
      PROVE  AheadInv'
  <2>1. txn'[Worker].of = t /\ txn'[Worker].row = tmpl[t]
    BY <1>4 DEF Read
  <2>2. NotYet(tmpl[t]) => early[t] < asked[t]
    BY <1>4 DEF Whole, AheadInv
  <2> QED BY <1>1, <1>2, <1>4, <2>1, <2>2 DEF AheadInv, NotYet, NotAfter
<1> QED BY <1>3, <1>4

\* A request that begins is an act of a user.
LEMMA ReachFrame ==
  ASSUME Whole, UNCHANGED <<early, asked>>,
         \A t \in Templates : tmpl'[t].next = tmpl[t].next,
         \A s \in Servers :
           txn'[s] = txn[s] \/ txn'[s] = Idle \/ \E t \in Templates : txn'[s] = Read(t),
         \/ acts' \in {acts, acts + 1} /\ \A u \in Users : txn'[u] \in {txn[u], Idle}
         \/ acts' = acts + 1 /\ \E v \in Users : txn[v] = Idle
              /\ txn'[v] # Idle /\ \A u \in Users \ {v} : txn'[u] = txn[u]
  PROVE  ReachInv'
<1>1. \A t \in Templates : tmpl'[t].next[1] <= Reach(t)
  BY DEF Whole, ReachInv
<1>2. \A s \in Servers : txn'[s] # Idle => txn'[s].row.next[1] <= Reach(txn'[s].of)
  <2> SUFFICES ASSUME NEW s \in Servers, txn'[s] # Idle
               PROVE  txn'[s].row.next[1] <= Reach(txn'[s].of)
    OBVIOUS
  <2>1. CASE txn'[s] = txn[s]
    BY <1>1, <2>1 DEF Whole, ReachInv, Inv, TypesInv
  <2>2. ASSUME NEW t \in Templates, txn'[s] = Read(t)
        PROVE  txn'[s].row.next[1] <= Reach(txn'[s].of)
    <3>1. txn'[s].row = tmpl[t] /\ txn'[s].of = t
      BY <2>2 DEF Read
    <3>2. tmpl[t].next[1] <= Reach(t)
      BY DEF Whole, ReachInv
    <3> QED BY <1>1, <3>1, <3>2
  <2> QED BY <2>1, <2>2
<1>3. IsFiniteSet(Flying) /\ Cardinality(Flying) \in Nat /\ acts \in Nat
  BY FS_CardinalityType DEF Whole, ReachInv, RestTypes
<1>4. \A t \in Templates : asked[t] \in Nat /\ asked[t] + Cardinality(Flying) <= acts
  BY DEF Whole, ReachInv, RestTypes
<1>5. CASE acts' \in {acts, acts + 1} /\ \A u \in Users : txn'[u] \in {txn[u], Idle}
  <2>1. Flying' \subseteq Flying
    BY <1>5 DEF Flying, Idle
  <2>2. IsFiniteSet(Flying') /\ Cardinality(Flying') <= Cardinality(Flying)
    BY <1>3, <2>1, FS_Subset
  <2>3. Cardinality(Flying') \in Nat
    BY <2>2, FS_CardinalityType
  <2>4. \A t \in Templates : asked'[t] + Cardinality(Flying') <= acts'
    BY <1>3, <1>4, <1>5, <2>2, <2>3
  <2> QED BY <1>1, <1>2, <2>2, <2>4 DEF ReachInv, Reach, Idle
<1>6. ASSUME NEW v \in Users, txn[v] = Idle, txn'[v] # Idle, acts' = acts + 1,
             \A u \in Users \ {v} : txn'[u] = txn[u]
      PROVE  ReachInv'
  <2>1. Flying' = Flying \cup {v} /\ v \notin Flying
    BY <1>6 DEF Flying, Idle
  <2>2. IsFiniteSet(Flying') /\ Cardinality(Flying') = Cardinality(Flying) + 1
    BY <1>3, <2>1, FS_AddElement
  <2>3. \A t \in Templates : asked'[t] + Cardinality(Flying') <= acts'
    BY <1>3, <1>4, <1>6, <2>2
  <2> QED BY <1>1, <1>2, <2>2, <2>3 DEF ReachInv, Reach, Idle
<1> QED BY <1>5, <1>6

\* What making a document changes.
LEMMA GenerateDoes ==
  ASSUME Whole, NEW s \in Servers, Generate(s)
  PROVE  LET x == txn[s] IN
         /\ x # Idle /\ x \in [of : Templates, row : LooseRows, date : Calendar]
         /\ \A t \in Templates : t # x.of => tmpl'[t] = tmpl[t]
         /\ tmpl'[x.of].next[1] = x.row.next[1] + 1
         /\ \A t \in Templates : early'[t] =
              IF t = x.of /\ s = Worker /\ NotYet(x.row) THEN early[t] + 1 ELSE early[t]
         /\ \A t \in Templates : asked'[t] =
              IF t = x.of /\ s # Worker THEN asked[t] + 1 ELSE asked[t]
         /\ early' \in [Templates -> Nat] /\ asked' \in [Templates -> Nat]
         /\ \A t \in Templates : numbers'[t] \subseteq numbers[t] \cup Number(x)
         /\ raced' \subseteq raced \cup {x.of}
         /\ txn'[s] = Idle /\ \A r \in Servers \ {s} : txn'[r] = txn[r]
         /\ UNCHANGED <<today, locked>>
<1> DEFINE x == txn[s]
<1>1. x # Idle /\ x \in [of : Templates, row : LooseRows, date : Calendar]
  BY DEF Generate, Whole, RestTypes
<1>2. /\ tmpl \in [Templates -> LooseRows]
      /\ early \in [Templates -> Nat] /\ asked \in [Templates -> Nat]
      /\ DOMAIN numbers = Templates /\ DOMAIN txn = Servers
  BY DEF Whole, Inv, TypesInv, RestTypes
<1>3. /\ tmpl' = [tmpl EXCEPT ![x.of] = Advance(x)]
      /\ numbers' = [numbers EXCEPT ![x.of] = @ \cup Number(x)]
      /\ early' = [early EXCEPT ![x.of] =
                     IF s = Worker /\ NotYet(x.row) THEN @ + 1 ELSE @]
      /\ asked' = [asked EXCEPT ![x.of] = IF s = Worker THEN @ ELSE @ + 1]
      /\ raced' \subseteq raced \cup {x.of}
      /\ txn' = [txn EXCEPT ![s] = Idle]
      /\ UNCHANGED <<today, locked>>
  BY DEF Generate, NotYet
<1>4. x.of \in Templates /\ x.row \in LooseRows
  BY <1>1
<1>5. tmpl[x.of] \in LooseRows
  BY <1>2, <1>4
<1>6. Advance(x).next = NextRun(x.row.next, x.row.day)
  BY <1>5 DEF Advance, LooseRows
<1>7. tmpl'[x.of].next[1] = x.row.next[1] + 1
  BY <1>2, <1>3, <1>4, <1>6 DEF NextRun
<1> HIDE DEF x
<1>8. \A t \in Templates : t # x.of => tmpl'[t] = tmpl[t]
  BY <1>2, <1>3
<1>9. \A t \in Templates : early'[t] =
              IF t = x.of /\ s = Worker /\ NotYet(x.row) THEN early[t] + 1 ELSE early[t]
  BY <1>2, <1>3
<1>10. \A t \in Templates : asked'[t] =
              IF t = x.of /\ s # Worker THEN asked[t] + 1 ELSE asked[t]
  BY <1>2, <1>3
<1>11. early' \in [Templates -> Nat] /\ asked' \in [Templates -> Nat]
  BY <1>2, <1>3, <1>4
<1>12. \A t \in Templates : numbers'[t] \subseteq numbers[t] \cup Number(x)
  BY <1>2, <1>3
<1>13. txn'[s] = Idle /\ \A r \in Servers \ {s} : txn'[r] = txn[r]
  BY <1>2, <1>3
<1> QED
  BY <1>1, <1>3, <1>7, <1>8, <1>9, <1>10, <1>11, <1>12, <1>13 DEF x

\* A document of the worker before its date uses up one that generate-now has made; one of
\* generate-now is an act of a user.
LEMMA GeneratingWhole ==
  ASSUME Whole, NEW s \in Servers, Generate(s), UNCHANGED <<list, acts, crashes>>
  PROVE  RestTypes' /\ AheadInv' /\ ReachInv'
<1> DEFINE x == txn[s]
           t0 == x.of
           now(t) == LastMonth + 2 + asked[t] + early[t]
           next(t) == LastMonth + 2 + asked'[t] + early'[t]
<1>1. /\ x # Idle /\ t0 \in Templates /\ x.row \in LooseRows /\ x.date \in Calendar
      /\ \A t \in Templates : t # t0 => tmpl'[t] = tmpl[t]
      /\ tmpl'[t0].next[1] = x.row.next[1] + 1
      /\ \A t \in Templates : early'[t] =
           IF t = t0 /\ s = Worker /\ NotYet(x.row) THEN early[t] + 1 ELSE early[t]
      /\ \A t \in Templates : asked'[t] =
           IF t = t0 /\ s # Worker THEN asked[t] + 1 ELSE asked[t]
      /\ early' \in [Templates -> Nat] /\ asked' \in [Templates -> Nat]
      /\ \A t \in Templates : numbers'[t] \subseteq numbers[t] \cup Number(x)
      /\ raced' \subseteq raced \cup {t0}
      /\ txn'[s] = Idle /\ \A r \in Servers \ {s} : txn'[r] = txn[r]
      /\ UNCHANGED <<today, locked>>
  BY GenerateDoes
<1>2. /\ \A t \in Templates : early[t] \in Nat /\ asked[t] \in Nat /\ early[t] <= asked[t]
      /\ list \subseteq Templates
      /\ Worker \in Servers /\ Users \subseteq Servers
  BY DEF Whole, RestTypes, AheadInv, EarlyByRequest, Inv, TypesInv, Servers
<1>3. RestTypes'
  <2>1. Number(x) \subseteq Nat
    <3>1. x.date[1] \in Nat /\ x.row.count \in Nat
      BY <1>1, Dates DEF LooseRows
    <3> QED BY <3>1 DEF Number
  <2>2. \A t \in Templates : numbers'[t] \subseteq Nat
    BY <1>1, <2>1 DEF Whole, RestTypes
  <2>3. \A r \in Servers : txn'[r] # Idle =>
          txn'[r] \in [of : Templates, row : LooseRows, date : Calendar]
    BY <1>1 DEF Whole, RestTypes
  <2> HIDE DEF x
  <2> QED BY <1>1, <2>2, <2>3 DEF Whole, RestTypes, Idle
<1>7. t0 \in Templates /\ LastMonth \in Nat
  BY <1>1, LastMonthType
<1>4. \A row : NotYet(row)' <=> NotYet(row)
  BY <1>1 DEF NotYet, NotAfter
<1>5. CASE s = Worker
  <2>1. t0 \notin list /\ (NotYet(x.row) => early[t0] < asked[t0])
    BY <1>1, <1>5 DEF Whole, AheadInv
  <2>2. \A t \in Templates :
          /\ early'[t] = IF t = t0 /\ NotYet(x.row) THEN early[t] + 1 ELSE early[t]
          /\ asked'[t] = asked[t]
    BY <1>1, <1>5
  <2>3. EarlyByRequest'
    BY <1>1, <1>2, <2>1, <2>2 DEF EarlyByRequest
  <2>4. ASSUME NEW t \in list', NotYet(tmpl'[t]) PROVE early'[t] < asked'[t]
    <3>1. t \in list /\ t # t0 /\ t \in Templates
      BY <1>2, <2>1, <2>4
    <3>2. tmpl'[t] = tmpl[t] /\ early'[t] = early[t] /\ asked'[t] = asked[t]
      BY <1>1, <2>2, <3>1
    <3> QED BY <2>4, <3>1, <3>2 DEF Whole, AheadInv
  <2>5. AheadInv'
    BY <1>1, <1>4, <1>5, <2>3, <2>4 DEF AheadInv, NotYet, Idle
  <2>6. ReachInv'
    <3>1. \A t \in Templates : next(t) \in Nat /\ next(t) >= now(t)
      <4> HIDE DEF t0
      <4>1. SUFFICES ASSUME NEW t \in Templates PROVE next(t) \in Nat /\ next(t) >= now(t)
        OBVIOUS
      <4>2. early[t] \in Nat /\ asked[t] \in Nat
        BY <1>2
      <4>3. early'[t] \in {early[t], early[t] + 1} /\ asked'[t] = asked[t]
        BY <2>2
      <4> QED BY <1>7, <4>2, <4>3
    <3>2. tmpl'[t0].next[1] <= next(t0)
      <4>1. x.row.next[1] \in Nat /\ now(t0) \in Nat
        <5>1. x.row.next[1] \in Nat
          BY <1>1 DEF LooseRows
        <5>2. now(t0) \in Nat
          <6> HIDE DEF t0
          <6> QED BY <1>2, <1>7
        <5> QED BY <5>1, <5>2
      <4>2. CASE NotYet(x.row)
        <5>1. x.row.next[1] <= now(t0)
          BY <1>1 DEF Whole, ReachInv, Reach
        <5>2. next(t0) = now(t0) + 1
          <6> HIDE DEF t0
          <6> QED BY <1>2, <1>7, <2>2, <4>2
        <5> QED BY <1>1, <4>1, <5>1, <5>2
      <4>3. CASE ~NotYet(x.row)
        <5>1. x.row.next[1] <= LastMonth
          BY <1>1, <4>3, DueIsNear DEF Whole
        <5>2. next(t0) >= LastMonth + 1
          <6> HIDE DEF t0
          <6>1. early[t0] \in Nat /\ asked[t0] \in Nat /\ early'[t0] = early[t0]
                /\ asked'[t0] = asked[t0]
            BY <1>2, <1>7, <2>2, <4>3
          <6> QED BY <1>7, <6>1
        <5>3. tmpl'[t0].next[1] = x.row.next[1] + 1 /\ next(t0) \in Nat
          BY <1>1, <1>7, <3>1
        <5> HIDE DEF next, t0, x
        <5> QED BY <1>7, <4>1, <5>1, <5>2, <5>3
      <4> QED BY <4>2, <4>3
    <3>3. \A t \in Templates : tmpl'[t].next[1] <= next(t)
      <4> SUFFICES ASSUME NEW t \in Templates, t # t0 PROVE tmpl'[t].next[1] <= next(t)
        BY <3>2
      <4>1. tmpl'[t] = tmpl[t] /\ tmpl[t].next[1] <= now(t) /\ tmpl[t].next[1] \in Nat
        BY <1>1 DEF Whole, ReachInv, Reach, Inv, TypesInv, LooseRows
      <4>2. now(t) \in Nat
        BY <1>2, LastMonthType
      <4> QED BY <3>1, <4>1, <4>2
    <3>4. \A r \in Servers : txn'[r] # Idle =>
            \A t \in Templates : t = txn'[r].of => txn'[r].row.next[1] <= next(t)
      <4> SUFFICES ASSUME NEW r \in Servers, txn'[r] # Idle,
                          NEW t \in Templates, t = txn'[r].of
                   PROVE  txn'[r].row.next[1] <= next(t)
        OBVIOUS
      <4>1. txn'[r] = txn[r] /\ txn[r].row.next[1] <= now(t) /\ txn[r].row \in LooseRows
        BY <1>1 DEF Whole, ReachInv, Reach, Inv, TypesInv
      <4>2. now(t) \in Nat /\ txn[r].row.next[1] \in Nat
        BY <1>2, <4>1, LastMonthType, SMTT(30) DEF LooseRows
      <4> QED BY <3>1, <4>1, <4>2
    <3>5. \A r \in Servers : txn'[r] # Idle => txn'[r].of \in Templates
      BY <1>3 DEF RestTypes
    <3>6. Flying' = Flying
      BY <1>1, <1>2, <1>5, WorkerAssumption DEF Flying, Idle
    <3>7. \A t \in Templates : asked'[t] + Cardinality(Flying') <= acts'
      BY <2>2, <3>6 DEF Whole, ReachInv
    <3> QED BY <3>3, <3>4, <3>5, <3>6, <3>7 DEF ReachInv, Reach, LastMonth, Whole, Idle
  <2> QED BY <1>3, <2>5, <2>6
<1>6. CASE s \in Users
  <2>1. s # Worker
    BY <1>6, WorkerAssumption
  <2>2. \A t \in Templates :
          /\ early'[t] = early[t]
          /\ asked'[t] = IF t = t0 THEN asked[t] + 1 ELSE asked[t]
    BY <1>1, <2>1
  <2>3. EarlyByRequest'
    BY <1>1, <1>2, <2>2 DEF EarlyByRequest
  <2>4. ASSUME NEW t \in list', NotYet(tmpl'[t]) PROVE early'[t] < asked'[t]
    <3>1. t \in list /\ t \in Templates
      BY <1>2, <2>4
    <3>2. CASE t = t0
      BY <1>2, <2>2, <3>1, <3>2
    <3>3. CASE t # t0
      <4>1. tmpl'[t] = tmpl[t] /\ early'[t] = early[t] /\ asked'[t] = asked[t]
        BY <1>1, <2>2, <3>1, <3>3
      <4> QED BY <2>4, <3>1, <4>1 DEF Whole, AheadInv
    <3> QED BY <3>2, <3>3
  <2>5. txn'[Worker] = txn[Worker]
    BY <1>1, <1>2, <2>1
  <2>6. txn[Worker] # Idle =>
          /\ txn[Worker].of \notin list'
          /\ NotYet(txn[Worker].row) => early'[txn[Worker].of] < asked'[txn[Worker].of]
    <3>1. txn[Worker] # Idle => txn[Worker].of \in Templates
      BY <1>2 DEF Whole, Inv, TypesInv
    <3> QED BY <1>2, <2>2, <3>1 DEF Whole, AheadInv
  <2>7. AheadInv'
    BY <1>4, <2>3, <2>4, <2>5, <2>6 DEF AheadInv, NotYet, Idle
  <2>8. ReachInv'
    <3>1. \A t \in Templates :
            /\ now(t) \in Nat /\ next(t) \in Nat
            /\ next(t) = IF t = t0 THEN now(t) + 1 ELSE now(t)
      <4> HIDE DEF t0
      <4>1. SUFFICES ASSUME NEW t \in Templates
                     PROVE  /\ now(t) \in Nat /\ next(t) \in Nat
                            /\ next(t) = IF t = t0 THEN now(t) + 1 ELSE now(t)
        OBVIOUS
      <4>2. early[t] \in Nat /\ asked[t] \in Nat
        BY <1>2
      <4>3. /\ early'[t] = early[t]
            /\ asked'[t] = IF t = t0 THEN asked[t] + 1 ELSE asked[t]
        BY <2>2
      <4> QED BY <1>7, <4>2, <4>3
    <3>2. tmpl'[t0].next[1] <= next(t0)
      <4>1. x.row.next[1] \in Nat /\ x.row.next[1] <= now(t0)
        BY <1>1 DEF LooseRows, Whole, ReachInv, Reach
      <4> QED BY <1>1, <3>1, <4>1
    <3>3. \A t \in Templates : tmpl'[t].next[1] <= next(t)
      <4> SUFFICES ASSUME NEW t \in Templates, t # t0 PROVE tmpl'[t].next[1] <= next(t)
        BY <3>2
      <4>1. tmpl'[t] = tmpl[t] /\ tmpl[t].next[1] <= now(t)
        BY <1>1 DEF Whole, ReachInv, Reach
      <4> QED BY <3>1, <4>1
    <3>4. \A r \in Servers : txn'[r] # Idle =>
            \A t \in Templates : t = txn'[r].of => txn'[r].row.next[1] <= next(t)
      <4> SUFFICES ASSUME NEW r \in Servers, txn'[r] # Idle,
                          NEW t \in Templates, t = txn'[r].of
                   PROVE  txn'[r].row.next[1] <= next(t)
        OBVIOUS
      <4>1. txn'[r] = txn[r] /\ txn[r].row.next[1] <= now(t) /\ txn[r].row \in LooseRows
        BY <1>1 DEF Whole, ReachInv, Reach, Inv, TypesInv
      <4>2. txn[r].row.next[1] \in Nat
        BY <4>1 DEF LooseRows
      <4> QED BY <3>1, <4>1, <4>2
    <3>5. \A r \in Servers : txn'[r] # Idle => txn'[r].of \in Templates
      BY <1>3 DEF RestTypes
    <3>6. Flying' = Flying \ {s} /\ s \in Flying
      BY <1>1, <1>2, <1>6 DEF Flying, Idle
    <3>7. /\ IsFiniteSet(Flying) /\ Cardinality(Flying) \in Nat
          /\ IsFiniteSet(Flying') /\ Cardinality(Flying') = Cardinality(Flying) - 1
      BY <3>6, FS_CardinalityType, FS_RemoveElement DEF Whole, ReachInv
    <3>8. \A t \in Templates : asked'[t] + Cardinality(Flying') <= acts'
      <4>1. \A t \in Templates : asked[t] + Cardinality(Flying) <= acts /\ acts \in Nat
        BY DEF Whole, ReachInv, RestTypes
      <4> HIDE DEF t0
      <4> QED BY <1>2, <2>2, <3>7, <4>1
    <3> QED BY <3>3, <3>4, <3>5, <3>7, <3>8 DEF ReachInv, Reach, LastMonth, Idle
  <2> QED BY <1>3, <2>7, <2>8
<1> QED BY <1>5, <1>6 DEF Servers

\* Every step keeps all of it.
LEMMA NextWhole == Whole /\ [Next]_vars => Whole'
<1> SUFFICES ASSUME Whole, [Next]_vars PROVE Whole'
  OBVIOUS
<1>1. Inv'
  BY NextInv DEF Whole
<1>2. /\ \A t \in Templates : tmpl[t] \in LooseRows
      /\ DOMAIN txn = Servers /\ DOMAIN tmpl = Templates
      /\ acts \in 0 .. MaxActs /\ crashes \in 0 .. MaxCrashes
      /\ MaxActs \in Nat /\ MaxCrashes \in Nat
      /\ locked \subseteq DOMAIN Length
  BY BoundsAssumption DEF Whole, Inv, TypesInv, RestTypes
<1>3. Worker \in Servers /\ Users \subseteq Servers /\ Worker \notin Users
  BY WorkerAssumption DEF Servers
<1>4. \A t \in Templates : Read(t) # Idle
  BY ReadingIsBusy DEF Whole, Read
<1>5. ASSUME UNCHANGED <<today, numbers, early, asked, raced, txn>>,
             \A t \in Templates : tmpl'[t].next = tmpl[t].next,
             list' \subseteq list, locked' \subseteq DOMAIN Length,
             acts' \in {acts, acts + 1}, acts' <= MaxActs, crashes' = crashes
      PROVE  Whole'
  <2>1. RestTypes'
    BY <1>2, <1>5, RestFrame
  <2>2. AheadInv'
    BY <1>5, AheadFrame
  <2>3. ReachInv'
    BY <1>5, ReachFrame
  <2> QED BY <1>1, <2>1, <2>2, <2>3 DEF Whole
<1>6. CASE Day
  <2>1. UNCHANGED <<tmpl, locked, list, txn, made, numbers, early, asked, raced, acts, crashes>>
    BY <1>6 DEF Day, documents, bounds
  <2>2. /\ today' \in Calendar
        /\ \A row \in LooseRows : NotYet(row)' => NotYet(row)
    BY <1>6, DayPasses DEF Whole
  <2>3. RestTypes'
    BY <2>1, <2>2 DEF Whole, RestTypes
  <2>4. AheadInv'
    BY <1>2, <1>3, <2>1, <2>2 DEF Whole, AheadInv, EarlyByRequest, Inv, TypesInv
  <2>5. ReachInv'
    BY <2>1 DEF Whole, ReachInv, Reach, LastMonth, Flying, Idle
  <2> QED BY <1>1, <2>3, <2>4, <2>5 DEF Whole
<1>7. ASSUME NEW job \in Jobs, List(job) PROVE Whole'
  <2>1. /\ list' \subseteq Due(today) /\ txn[Worker] = Idle
        /\ UNCHANGED <<today, tmpl, locked, txn, made, numbers, early, asked, raced, acts,
                       crashes>>
    BY <1>7 DEF List, documents, bounds
  <2>2. \A t \in Due(today) : ~NotYet(tmpl[t])
    BY DEF Due, NotYet
  <2>3. RestTypes' /\ ReachInv'
    BY <2>1 DEF Whole, RestTypes, ReachInv, Reach, LastMonth, Flying, Idle
  <2>4. AheadInv'
    BY <2>1, <2>2 DEF Whole, AheadInv, EarlyByRequest, NotYet, NotAfter, Idle
  <2> QED BY <1>1, <2>3, <2>4 DEF Whole
<1>8. CASE Take
  <2>1. PICK t \in list :
          /\ list' = list \ {t}
          /\ \/ Begin(Worker, t)
             \/ UNCHANGED <<today, tmpl, locked, txn, documents>>
          /\ UNCHANGED bounds
    BY <1>8 DEF Take
  <2>2. CASE UNCHANGED <<today, tmpl, locked, txn, documents>>
    BY <1>2, <1>5, <2>1, <2>2 DEF documents, bounds
  <2>3. CASE Begin(Worker, t)
    <3>1. t \in Templates
      BY <2>1 DEF Whole, Inv, TypesInv
    <3>2. /\ txn'[Worker] = Read(t) /\ \A s \in Servers \ {Worker} : txn'[s] = txn[s]
          /\ UNCHANGED <<today, tmpl, locked, numbers, early, asked, raced, acts, crashes>>
      BY <1>2, <1>3, <2>1, <2>3 DEF Begin, Read, documents, bounds
    <3>3. RestTypes'
      BY <1>2, <3>1, <3>2, RestFrame
    <3>4. AheadInv'
      BY <2>1, <3>2, AheadFrame
    <3>5. ReachInv'
      BY <1>3, <3>1, <3>2, ReachFrame
    <3> QED BY <1>1, <3>3, <3>4, <3>5 DEF Whole
  <2> QED BY <2>1, <2>2, <2>3
<1>9. CASE Make
  BY <1>1, <1>3, <1>9, GeneratingWhole DEF Make, bounds, Whole
<1>10. ASSUME NEW s \in Servers, \A r \in Servers : txn'[r] \in {txn[r], Idle},
              UNCHANGED <<today, tmpl, numbers, early, asked, raced, locked, acts>>,
              list' \subseteq list, crashes' \in 0 .. MaxCrashes
       PROVE  Whole'
  <2>1. RestTypes'
    BY <1>2, <1>10, RestFrame
  <2>2. AheadInv'
    BY <1>3, <1>10, AheadFrame
  <2>3. ReachInv'
    BY <1>3, <1>10, ReachFrame
  <2> QED BY <1>1, <2>1, <2>2, <2>3 DEF Whole
<1>11. CASE Log
  BY <1>2, <1>3, <1>10, <1>11 DEF Log, Refuse, Remaining, documents, bounds
<1>12. CASE Crash
  <2>1. crashes' \in 0 .. MaxCrashes
    BY <1>2, <1>12 DEF Crash
  <2> QED BY <1>2, <1>3, <1>10, <1>12, <2>1 DEF Crash, documents
<1>13. ASSUME NEW s \in Users, NEW t \in Templates, GenerateNow(s, t) PROVE Whole'
  <2>1. /\ txn[s] = Idle /\ txn'[s] = Read(t) /\ \A r \in Servers \ {s} : txn'[r] = txn[r]
        /\ UNCHANGED <<today, tmpl, locked, numbers, early, asked, raced, list, crashes>>
        /\ acts' = acts + 1 /\ acts < MaxActs
    BY <1>2, <1>3, <1>13 DEF GenerateNow, Act, Begin, Read, documents
  <2>2. acts' \in 0 .. MaxActs
    BY <1>2, <2>1
  <2>3. RestTypes'
    BY <1>2, <2>1, <2>2, RestFrame
  <2>4. AheadInv'
    BY <1>3, <2>1, AheadFrame
  <2>5. ReachInv'
    <3>1. txn'[s] # Idle /\ \A u \in Users \ {s} : txn'[u] = txn[u]
      BY <1>3, <1>4, <2>1
    <3> QED BY <2>1, <3>1, ReachFrame
  <2> QED BY <1>1, <2>3, <2>4, <2>5 DEF Whole
<1>14. ASSUME NEW s \in Users, Answer(s) PROVE Whole'
  <2>1. CASE Generate(s)
    BY <1>1, <1>3, <1>14, <2>1, GeneratingWhole DEF Answer, bounds, Whole
  <2>2. CASE Refuse(s)
    BY <1>2, <1>3, <1>10, <1>14, <2>2 DEF Answer, Refuse, documents, bounds
  <2> QED BY <1>14, <2>1, <2>2 DEF Answer
<1>15. ASSUME NEW t \in Templates, NEW row, row.next = tmpl[t].next, Write(t, row)
       PROVE  Whole'
  <2>1. /\ tmpl' = [tmpl EXCEPT ![t] = row]
        /\ UNCHANGED <<today, locked, txn, numbers, early, asked, raced, list, crashes>>
        /\ acts' = acts + 1 /\ acts < MaxActs
    BY <1>15 DEF Write, Act, documents
  <2>2. \A r \in Templates : tmpl'[r].next = tmpl[r].next
    BY <1>2, <1>15, <2>1
  <2> QED BY <1>2, <1>5, <2>1, <2>2
<1>16. ASSUME NEW t \in Templates,
              Pause(t) \/ Resume(t) \/ Delete(t)
                \/ \E day \in 1 .. LastDay, end \in Ends : Edit(t, day, end)
       PROVE  Whole'
  <2>1. tmpl[t] \in LooseRows
    BY <1>2
  <2>2. CASE Pause(t)
    BY <1>15, <2>1, <2>2 DEF Pause, LooseRows
  <2>3. CASE Resume(t)
    BY <1>15, <2>1, <2>3 DEF Resume, LooseRows
  <2>4. CASE Delete(t)
    BY <1>15, <2>1, <2>4 DEF Delete, LooseRows
  <2>5. ASSUME NEW day \in 1 .. LastDay, NEW end \in Ends, Edit(t, day, end)
        PROVE  Whole'
    BY <1>15, <2>1, <2>5 DEF Edit, LooseRows
  <2> QED BY <1>16, <2>2, <2>3, <2>4, <2>5
<1>17. ASSUME NEW m \in Closable, Lock(m) PROVE Whole'
  <2>1. m \in DOMAIN Length
    BY CalendarAssumption
  <2>2. /\ UNCHANGED <<today, tmpl, txn, numbers, early, asked, raced, list, crashes>>
        /\ acts' = acts + 1 /\ acts < MaxActs /\ locked' \subseteq DOMAIN Length
    BY <1>2, <1>17, <2>1 DEF Lock, Act, documents
  <2> QED BY <1>2, <1>5, <2>2
<1>18. CASE UNCHANGED vars
  BY <1>2, <1>5, <1>18 DEF vars
<1> QED
  BY <1>6, <1>7, <1>8, <1>9, <1>11, <1>12, <1>13, <1>14, <1>16, <1>17, <1>18 DEF Next

\* No template is set further than the months that Months has.
LEMMA WholeType == Whole => TypeOK
<1> SUFFICES ASSUME Whole PROVE TypeOK
  OBVIOUS
<1>1. \A t \in Templates : Reach(t) \in Nat /\ Reach(t) <= LastMonth + 2 + 2 * MaxActs
  <2> SUFFICES ASSUME NEW t \in Templates
               PROVE  Reach(t) \in Nat /\ Reach(t) <= LastMonth + 2 + 2 * MaxActs
    OBVIOUS
  <2>1. Cardinality(Flying) \in Nat
    BY FS_CardinalityType DEF Whole, ReachInv
  <2>2. /\ asked[t] \in Nat /\ early[t] \in Nat /\ acts \in 0 .. MaxActs
        /\ early[t] <= asked[t] /\ asked[t] + Cardinality(Flying) <= acts
    BY DEF Whole, RestTypes, AheadInv, EarlyByRequest, ReachInv
  <2> QED BY <2>1, <2>2, LastMonthType, BoundsAssumption, SMTT(30) DEF Reach
<1>2. ASSUME NEW row \in LooseRows, NEW t \in Templates, row.next[1] <= Reach(t)
      PROVE  row \in Rows
  <2>1. row.next[1] \in Nat \ {0} /\ row.next \in (Nat \ {0}) \X (1 .. LastDay)
    BY <1>2 DEF LooseRows
  <2>2. row.next[1] \in Months
    BY <1>1, <1>2, <2>1, LastMonthType, BoundsAssumption DEF Months, LastMonth
  <2>3. row.next \in Months \X (1 .. LastDay)
    BY <2>1, <2>2
  <2> QED BY <1>2, <2>3 DEF LooseRows, Rows
<1>3. tmpl \in [Templates -> Rows]
  BY <1>2 DEF Whole, ReachInv, Inv, TypesInv
<1>4. txn \in [Servers -> {Idle} \cup [of : Templates, row : Rows, date : Calendar]]
  <2> SUFFICES ASSUME NEW s \in Servers, txn[s] # Idle
               PROVE  txn[s] \in [of : Templates, row : Rows, date : Calendar]
    BY DEF Whole, Inv, TypesInv
  <2>1. /\ txn[s] \in [of : Templates, row : LooseRows, date : Calendar]
        /\ txn[s].row.next[1] <= Reach(txn[s].of)
    BY DEF Whole, RestTypes, ReachInv
  <2> QED BY <1>2, <2>1
<1> QED BY <1>3, <1>4 DEF Whole, RestTypes, Inv, TypesInv, TypeOK, Servers

--------------------------------------------------------------------------------
\* Every reachable state is well typed; in particular a template never waits for a day
\* that some month lacks, and documents are of the months that Months has.
THEOREM TypeCorrect == Spec => []TypeOK
<1>1. Init => Whole
  BY InitWhole
<1>2. Whole /\ [Next]_vars => Whole'
  BY NextWhole
<1>3. Whole => TypeOK
  BY WholeType
<1> QED BY <1>1, <1>2, <1>3, PTL DEF Spec

\* However generate-now, the worker's list, its crashes and edits overlap, the worker makes
\* no more documents before the date of their cycle than generate-now has made.
THEOREM WorkerKeepsTime == Spec => []EarlyByRequest
<1>1. Init => Whole
  BY InitWhole
<1>2. Whole /\ [Next]_vars => Whole'
  BY NextWhole
<1>3. Whole => EarlyByRequest
  BY DEF Whole, AheadInv
<1> QED BY <1>1, <1>2, <1>3, PTL DEF Spec
================================================================================
