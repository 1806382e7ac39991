------------------------ MODULE DocumentNumbersProofs ------------------------
(****************************************************************************)
(* For every number of requests and periods: a series implements            *)
(* NumberSeries until a number is skipped, and offers no used number until  *)
(* its row is overwritten from a stale read.                                *)
(****************************************************************************)
EXTENDS DocumentNumbers, TLAPS

USE BoundsAssumption DEF Periods, Counters, Txn, Patching

Inv == TypeOK /\ HolderInv /\ SeriesInv /\ FreshInv

\* The numbers of a period that is numbered up to n.
LEMMA IssuedUpTo ==
  ASSUME TypeOK, NEW p \in Periods, NEW n \in 0 .. MaxCounter, UpTo(p, n)
  PROVE  Series!Issued(p) = {<<p, m>> : m \in 1 .. n}
  BY DEF TypeOK, UpTo, Series!Issued

\* The initial state has its types and the invariants.
LEMMA InitInv == Init => Inv
<1> SUFFICES ASSUME Init PROVE Inv
  OBVIOUS
<1>1. TypeOK
  <2>1. Idle \in Transactions
    BY DEF Transactions
  <2>2. skipped \in BOOLEAN /\ stale \in BOOLEAN
    BY DEF Init
  <2> QED
    BY <2>1, <2>2 DEF Init, TypeOK
<1>2. \A p \in Periods : UpTo(p, 0)
  BY DEF Init, UpTo
<1>3. HolderInv
  BY DEF Init, HolderInv, Idle
<1>4. SeriesInv
  BY <1>2 DEF Init, SeriesInv
<1>5. FreshInv
  BY DEF Init, FreshInv, Idle
<1> QED
  BY <1>1, <1>3, <1>4, <1>5 DEF Inv

\* What a request may hold at each stage.
LEMMA Stages ==
  ASSUME TypeOK, NEW s \in Requests
  PROVE  /\ txn[s].stage = "begun" => txn[s].date \in Periods /\ txn[s].counter = 0
         /\ txn[s].stage = "numbered" => txn[s].date \in Periods /\ txn[s].counter \in 1 .. MaxCounter
         /\ txn[s].stage = "patching" => txn[s].seen \in Counters /\ txn[s].counter \in Counters
         /\ txn[s] = Idle => txn[s].stage = "idle"
<1>1. txn[s] \in Transactions
  BY DEF TypeOK
<1> QED
  BY <1>1 DEF Transactions, Idle

\* Every step keeps the types.
LEMMA NextTypes == TypeOK /\ [Next]_vars => TypeOK'
<1> SUFFICES ASSUME TypeOK, [Next]_vars PROVE TypeOK'
  OBVIOUS
<1> USE DEF TypeOK
<1>1. CASE Midnight
  BY <1>1 DEF Midnight
<1>2. ASSUME NEW s \in Requests, Begin(s) PROVE TypeOK'
  BY <1>2 DEF Begin, Transactions
<1>3. ASSUME NEW s \in Requests, Allocate(s) PROVE TypeOK'
  <2>1. txn[s].date \in Periods /\ Base(txn[s].date) + 1 \in 1 .. MaxCounter
    BY <1>3, Stages DEF Allocate, Base
  <2>2. Txn("numbered", txn[s].date, Base(txn[s].date) + 1) \in Transactions
    BY <2>1 DEF Transactions
  <2> QED
    BY <1>3, <2>2 DEF Allocate
<1>4. ASSUME NEW s \in Requests, Release(s), skipped' \in BOOLEAN,
             issued' \subseteq Periods \X (1 .. MaxCounter)
      PROVE  TypeOK'
  <2>1. txn[s].date \in Periods /\ txn[s].counter \in Counters
    BY <1>4, Stages DEF Release
  <2>2. Idle \in Transactions
    BY DEF Transactions
  <2>3. stale' \in BOOLEAN
    BY <1>4 DEF Release
  <2> QED
    BY <1>4, <2>1, <2>2, <2>3 DEF Release, End
<1>5. ASSUME NEW s \in Requests, Commit(s) PROVE TypeOK'
  <2>1. txn[s].date \in Periods /\ txn[s].counter \in Counters /\ txn[s].counter # 0
    BY <1>5, Stages DEF Commit, Release
  <2> QED
    BY <1>4, <1>5, <2>1 DEF Commit, Number
<1>6. ASSUME NEW s \in Requests, Refuse(s) PROVE TypeOK'
  BY <1>4, <1>6 DEF Refuse
<1>7. ASSUME NEW s \in Requests, Rollback(s) PROVE TypeOK'
  BY <1>7 DEF Rollback, End, Transactions
<1>8. ASSUME NEW s \in Requests, NEW n \in 0 .. MaxCounter, ReadCounter(s, n)
      PROVE  TypeOK'
  BY <1>8 DEF ReadCounter, Transactions
<1>9. ASSUME NEW s \in Requests, PatchCounter(s) PROVE TypeOK'
  <2>1. txn[s].counter \in Counters /\ Idle \in Transactions
    BY <1>9, Stages DEF PatchCounter, Transactions
  <2>2. skipped' \in BOOLEAN /\ stale' \in BOOLEAN
    BY <1>9 DEF PatchCounter
  <2> QED
    BY <1>9, <2>1, <2>2 DEF PatchCounter, End
<1>10. CASE UNCHANGED vars
  BY <1>10 DEF vars
<1> QED
  BY <1>1, <1>2, <1>3, <1>5, <1>6, <1>7, <1>8, <1>9, <1>10 DEF Next

\* The number a request holds is the one after the last of its period, and no
\* document has it unless the row has left the period.
LEMMA CommitCounts ==
  ASSUME TypeOK, HolderInv, SeriesInv, ~skipped, NEW s \in Requests, Commit(s)
  PROVE  /\ txn[s].date \in Periods
         /\ txn[s].counter \in 1 .. MaxCounter
         /\ UpTo(txn[s].date, txn[s].counter - 1)
<1> DEFINE p == txn[s].date
           c == txn[s].counter
<1>1. p \in Periods /\ c \in 1 .. MaxCounter /\ c = Base(p) + 1
  BY Stages DEF Commit, Release, HolderInv
<1>2. CASE seq.period = p
  BY <1>1, <1>2 DEF SeriesInv, Base, TypeOK
<1>3. CASE seq.period # p
  <2>1. c = 1
    BY <1>1, <1>3 DEF Base
  <2>2. PICK n \in 0 .. MaxCounter : UpTo(p, n)
    BY <1>1 DEF SeriesInv
  <2>3. <<p, 1>> \notin issued
    BY <2>1 DEF Commit, Number
  <2>4. n = 0
    BY <2>2, <2>3 DEF UpTo
  <2> QED
    BY <1>1, <2>1, <2>2, <2>4
<1> QED
  BY <1>1, <1>2, <1>3

\* A document of a period adds the next number to it and to no other.
LEMMA NumberAdded ==
  ASSUME NEW p \in Periods, NEW c \in 1 .. MaxCounter, UpTo(p, c - 1),
         issued' = issued \cup {<<p, c>>}
  PROVE  /\ UpTo(p, c)'
         /\ \A q \in Periods \ {p}, n \in 0 .. MaxCounter : UpTo(q, n) => UpTo(q, n)'
  BY DEF UpTo

\* A step is one that writes the row, or leaves row and documents alone.
LEMMA RowSteps ==
  ASSUME [Next]_vars
  PROVE  \/ UNCHANGED <<seq, issued, skipped, stale>>
         \/ \E s \in Requests : Commit(s) \/ Refuse(s) \/ PatchCounter(s)
  BY DEF Next, Midnight, Begin, Allocate, Rollback, ReadCounter, vars

\* The request that holds the row stays the only one with a number, and has the
\* one after the row's.
LEMMA NextHolder ==
  ASSUME TypeOK, HolderInv, [Next]_vars
  PROVE  HolderInv'
<1> DEFINE Holds(t, l, r, q) ==
      t[r].stage = "numbered" =>
        l = r /\ t[r].counter = (IF q.period = t[r].date THEN q.counter ELSE 0) + 1
<1>1. \A r \in Requests : Holds(txn, lock, r, seq)
  BY DEF HolderInv, Base
<1>2. (\A r \in Requests : Holds(txn', lock', r, seq')) => HolderInv'
  BY DEF HolderInv, Base
<1>3. CASE Midnight
  BY <1>1, <1>2, <1>3 DEF Midnight
<1>4. ASSUME NEW s \in Requests, Begin(s) PROVE HolderInv'
  <2>1. txn'[s].stage = "begun" /\ \A r \in Requests \ {s} : txn'[r] = txn[r]
    BY <1>4 DEF Begin, TypeOK
  <2> QED
    BY <1>1, <1>2, <1>4, <2>1 DEF Begin
<1>5. ASSUME NEW s \in Requests, Allocate(s) PROVE HolderInv'
  <2>1. \A r \in Requests : txn[r].stage # "numbered"
    BY <1>1, <1>5, NobodyAssumption DEF Allocate
  <2>2. txn'[s] = Txn("numbered", txn[s].date, Base(txn[s].date) + 1)
    BY <1>5 DEF Allocate, TypeOK
  <2>3. \A r \in Requests \ {s} : txn'[r] = txn[r]
    BY <1>5 DEF Allocate, TypeOK
  <2>4. \A r \in Requests : Holds(txn', lock', r, seq')
    BY <1>1, <1>5, <2>1, <2>2, <2>3 DEF Allocate, Base
  <2> QED
    BY <1>2, <2>4
<1>6. ASSUME NEW s \in Requests, Release(s) PROVE HolderInv'
  <2>1. \A r \in Requests \ {s} : txn[r].stage # "numbered"
    BY <1>1, <1>6 DEF Release
  <2>2. \A r \in Requests : txn'[r].stage # "numbered"
    BY <1>6, <2>1 DEF Release, End, TypeOK, Idle
  <2> QED
    BY <1>2, <2>2
<1>7. ASSUME NEW s \in Requests, Rollback(s) PROVE HolderInv'
  <2>1. txn'[s].stage = "idle" /\ \A r \in Requests \ {s} : txn'[r] = txn[r]
    BY <1>7 DEF Rollback, End, TypeOK, Idle
  <2> QED
    BY <1>1, <1>2, <1>7, <2>1 DEF Rollback
<1>8. ASSUME NEW s \in Requests, NEW n \in 0 .. MaxCounter, ReadCounter(s, n)
      PROVE  HolderInv'
  <2>1. txn'[s].stage = "patching" /\ \A r \in Requests \ {s} : txn'[r] = txn[r]
    BY <1>8 DEF ReadCounter, TypeOK
  <2> QED
    BY <1>1, <1>2, <1>8, <2>1 DEF ReadCounter
<1>9. ASSUME NEW s \in Requests, PatchCounter(s) PROVE HolderInv'
  <2>1. \A r \in Requests : txn[r].stage # "numbered"
    BY <1>1, <1>9, NobodyAssumption DEF PatchCounter
  <2>2. \A r \in Requests : txn'[r].stage # "numbered"
    BY <1>9, <2>1 DEF PatchCounter, End, TypeOK, Idle
  <2> QED
    BY <1>2, <2>2
<1>10. CASE UNCHANGED vars
  BY <1>1, <1>2, <1>10 DEF vars
<1> QED
  BY <1>3, <1>4, <1>5, <1>6, <1>7, <1>8, <1>9, <1>10 DEF Next, Commit, Refuse

\* The documents of every period stay numbered 1, 2, 3, ..., and a document gets
\* the next number of its period.
LEMMA NextSeries ==
  ASSUME TypeOK, HolderInv, SeriesInv, [Next]_vars
  PROVE  SeriesInv' /\ [Series!Next]_<<issued, skipped>>
<1>1. CASE UNCHANGED <<seq, issued, skipped, stale>>
  BY <1>1 DEF SeriesInv, UpTo
<1>2. ASSUME NEW s \in Requests, Refuse(s) \/ PatchCounter(s)
      PROVE  SeriesInv' /\ Series!Next
  BY <1>2 DEF Refuse, PatchCounter, SeriesInv, Series!Next, Series!Skip
<1>3. ASSUME NEW s \in Requests, Commit(s), skipped
      PROVE  SeriesInv' /\ Series!Next
  BY <1>3 DEF Commit, SeriesInv, Series!Next, Series!Skip
<1>4. ASSUME NEW s \in Requests, Commit(s), ~skipped
      PROVE  SeriesInv' /\ Series!Next
  <2>1. PICK p \in Periods, c \in 1 .. MaxCounter :
          p = txn[s].date /\ c = txn[s].counter /\ UpTo(p, c - 1)
    BY <1>4, CommitCounts
  <2>2. issued' = issued \cup {<<p, c>>} /\ seq' = [period |-> p, counter |-> c]
    BY <1>4, <2>1 DEF Commit, Number, Release
  <2>3. /\ UpTo(p, c)'
        /\ \A q \in Periods \ {p}, n \in 0 .. MaxCounter : UpTo(q, n) => UpTo(q, n)'
    BY <2>1, <2>2, NumberAdded
  <2>4. \A q \in Periods : (\E n \in 0 .. MaxCounter : UpTo(q, n))'
    BY <1>4, <2>1, <2>3 DEF SeriesInv
  <2>5. (seq.period # 0 => UpTo(seq.period, seq.counter))'
    BY <2>2, <2>3 DEF UpTo
  <2>6. Series!Issued(p) = {<<p, m>> : m \in 1 .. c - 1}
    BY <2>1, IssuedUpTo
  <2>7. Series!Issue(p)
    BY <1>4, <2>2, <2>6 DEF Series!Issue, Commit
  <2> QED
    BY <2>4, <2>5, <2>7 DEF SeriesInv, Series!Next
<1> QED
  BY <1>1, <1>2, <1>3, <1>4, RowSteps

\* No step makes the row fall behind a document unless it is stale from then on.
LEMMA NextFresh ==
  ASSUME TypeOK, HolderInv, FreshInv, [Next]_vars
  PROVE  FreshInv'
<1> DEFINE Past(r, t, now) ==
      /\ t[r].stage \in {"begun", "numbered"} => t[r].date <= now
      /\ t[r].stage = "patching" => t[r].seen <= t[r].counter
    Covered(st, docs, q) ==
      st \/ \A number \in docs :
        \/ number[1] < q.period
        \/ number[1] = q.period /\ number[2] <= q.counter
<1>1. /\ seq.period <= today
      /\ \A r \in Requests : Past(r, txn, today)
      /\ Covered(stale, issued, seq)
  BY DEF FreshInv
<1>2. /\ seq'.period <= today'
      /\ \A r \in Requests : Past(r, txn', today')
      /\ Covered(stale', issued', seq')
      => FreshInv'
  BY DEF FreshInv
<1>3. today' \in Periods /\ today <= today'
  BY DEF Next, Midnight, Begin, Allocate, Commit, Refuse, Release, Rollback,
         ReadCounter, PatchCounter, vars, TypeOK
<1>4. \A r \in Requests : Past(r, txn', today')
  <2> SUFFICES ASSUME NEW r \in Requests PROVE Past(r, txn', today')
    OBVIOUS
  <2>1. CASE txn'[r] = txn[r]
    BY <1>1, <1>3, <2>1, Stages DEF TypeOK
  <2>2. CASE txn'[r] = Idle
    BY <2>2 DEF Idle
  <2>3. CASE Begin(r)
    BY <1>3, <2>3 DEF Begin, TypeOK
  <2>4. CASE Allocate(r)
    <3>1. txn'[r].stage = "numbered" /\ txn'[r].date = txn[r].date /\ today' = today
      BY <2>4 DEF Allocate, TypeOK
    <3> QED
      BY <1>1, <2>4, <3>1 DEF Allocate
  <2>5. ASSUME NEW n \in 0 .. MaxCounter, ReadCounter(r, n) PROVE Past(r, txn', today')
    BY <2>5 DEF ReadCounter, ForwardOnly, TypeOK
  <2> QED
    BY <2>1, <2>2, <2>3, <2>4, <2>5
    DEF Next, Midnight, Begin, Allocate, Commit, Refuse, Release, Rollback, End,
        ReadCounter, PatchCounter, vars, TypeOK
<1>5. CASE UNCHANGED <<seq, issued, skipped, stale>>
  BY <1>1, <1>2, <1>3, <1>4, <1>5 DEF TypeOK
<1>6. ASSUME NEW s \in Requests, Release(s),
             issued' \subseteq issued \cup {<<txn[s].date, txn[s].counter>>}
      PROVE  FreshInv'
  <2>1. /\ txn[s].date \in Periods /\ txn[s].counter \in 1 .. MaxCounter
        /\ txn[s].counter = Base(txn[s].date) + 1
        /\ txn[s].date <= today
    BY <1>1, <1>6, Stages DEF Release, HolderInv
  <2>2. seq' = [period |-> txn[s].date, counter |-> txn[s].counter]
    BY <1>6 DEF Release
  <2>3. seq'.period <= today'
    BY <1>3, <2>1, <2>2 DEF TypeOK
  <2>4. ASSUME ~stale' PROVE ~stale /\ seq.period <= txn[s].date
    <3>1. ~stale /\ ~(txn[s].date < seq.period)
      BY <1>6, <2>4, Zenon DEF Release
    <3> QED
      BY <2>1, <3>1 DEF TypeOK
  <2>5. ASSUME ~stale', NEW number \in issued'
        PROVE  \/ number[1] < seq'.period
               \/ number[1] = seq'.period /\ number[2] <= seq'.counter
    <3>1. CASE number = <<txn[s].date, txn[s].counter>>
      BY <2>1, <2>2, <3>1
    <3>2. CASE number \in issued
      <4>1. number[1] \in Periods /\ number[2] \in 1 .. MaxCounter
        BY <3>2 DEF TypeOK
      <4>2. \/ number[1] < seq.period
            \/ number[1] = seq.period /\ number[2] <= seq.counter
        BY <1>1, <2>4, <2>5, <3>2
      <4> QED
        BY <2>1, <2>2, <2>4, <2>5, <4>1, <4>2 DEF Base, TypeOK
    <3> QED
      BY <1>6, <2>5, <3>1, <3>2
  <2> QED
    BY <1>2, <1>4, <2>3, <2>5
<1>7. ASSUME NEW s \in Requests, PatchCounter(s) PROVE FreshInv'
  <2>1. /\ txn[s].seen \in Counters /\ txn[s].counter \in Counters
        /\ txn[s].seen <= txn[s].counter
    BY <1>1, <1>7, Stages DEF PatchCounter
  <2>2. seq'.period = seq.period /\ seq'.counter = txn[s].counter /\ issued' = issued
    BY <1>7 DEF PatchCounter, TypeOK
  <2>3. ASSUME ~stale' PROVE ~stale /\ seq.counter <= txn[s].seen
    <3>1. ~stale /\ ~(txn[s].seen < seq.counter)
      BY <1>7, <2>3, Zenon DEF PatchCounter
    <3> QED
      BY <2>1, <3>1 DEF TypeOK
  <2>4. ASSUME ~stale', NEW number \in issued'
        PROVE  \/ number[1] < seq'.period
               \/ number[1] = seq'.period /\ number[2] <= seq'.counter
    <3>1. number[2] \in 1 .. MaxCounter
      BY <2>2, <2>4 DEF TypeOK
    <3> QED
      BY <1>1, <2>1, <2>2, <2>3, <2>4, <3>1 DEF TypeOK
  <2> QED
    BY <1>1, <1>2, <1>3, <1>4, <2>2, <2>4 DEF TypeOK
<1> QED
  BY <1>5, <1>6, <1>7, RowSteps DEF Commit, Refuse, Number

\* The invariants together.
LEMMA Invariance == Spec => []Inv
<1>1. Inv /\ [Next]_vars => Inv'
  BY NextTypes, NextHolder, NextSeries, NextFresh DEF Inv
<1> QED
  BY <1>1, InitInv, PTL DEF Spec

\* Every variable of the series keeps its type: in particular no number on a
\* document is 0.
THEOREM TypeCorrect == Spec => []TypeOK
<1>1. Inv => TypeOK
  BY DEF Inv
<1> QED
  BY <1>1, Invariance, PTL

\* As long as a number only ever commits with its document (as the journal's
\* does: every handler that takes one throws or commits the entry), the documents
\* of a period are numbered 1, 2, 3, ... with none missing and none twice, for any
\* number of requests, and whatever requests are in flight at midnight.
THEOREM GaplessJournal == Spec => GaplessSeries
<1>1. Init => Series!Init
  BY DEF Init, Series!Init
<1>2. Inv /\ [Next]_vars => [Series!Next]_<<issued, skipped>>
  BY NextSeries DEF Inv
<1> QED
  BY <1>1, <1>2, Invariance, PTL DEF Spec, GaplessSeries, Series!Spec

\* The number the next request is given is on no document yet, through any refused
\* requests, edits and year ends, unless an edit was overtaken by a posting between
\* its check and its write, or a request that began before midnight committed
\* after one that began after it.
THEOREM FreshNumbers == Spec => []NextIsFresh
<1>1. Inv => NextIsFresh
  <2> SUFFICES ASSUME Inv, ~stale, <<today, Base(today) + 1>> \in issued PROVE FALSE
    BY DEF NextIsFresh, Number
  <2> DEFINE number == <<today, Base(today) + 1>>
  <2>1. \/ number[1] < seq.period
        \/ number[1] = seq.period /\ number[2] <= seq.counter
    BY DEF Inv, FreshInv
  <2> QED
    BY <2>1 DEF Inv, FreshInv, Base, TypeOK
<1> QED
  BY <1>1, Invariance, PTL
================================================================================
