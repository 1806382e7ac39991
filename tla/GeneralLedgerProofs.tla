-------------------------- MODULE GeneralLedgerProofs --------------------------
(****************************************************************************)
(* The ledger for any number of requests, months, accounts and postings:    *)
(* its types, what the year-end close seals, and that it zeroes the year.   *)
(****************************************************************************)
EXTENDS GeneralLedger, FiniteSetTheorems, SequenceTheorems, TLAPS

--------------------------------------------------------------------------------
\* Rows

\* A fresh entry is an entry.
LEMMA NewEntryType ==
  ASSUME NEW source \in Sources, NEW of \in Drafts \cup Nat, NEW m \in Months,
         NEW lines \in Lines
  PROVE  NewEntry(source, of, m, lines) \in Entry
  BY DEF NewEntry, Entry

\* The lines the code computes are lines.
LEMMA LinesType ==
  ASSUME NEW lines \in Lines
  PROVE  Mirror(lines) \in Lines /\ ZeroOut(lines) \in Lines /\ NoLines \in Lines
  BY DEF Mirror, ZeroOut, NoLines, Lines

\* The stage of a request tells what it holds.
LEMMA Holds ==
  ASSUME TypeOK, NEW s \in Requests
  PROVE  /\ txn[s].stage \in {"prepared", "checked"} =>
              /\ txn[s] = [stage |-> txn[s].stage, entry |-> txn[s].entry]
              /\ txn[s].entry \in Entry
         /\ txn[s].stage = "rejecting" => txn[s].draft \in Drafts
         /\ txn[s] = Idle => txn[s].stage = "idle"
<1>1. txn[s] \in Transactions
  BY DEF TypeOK
<1> QED
  BY <1>1 DEF Transactions, Idle

\* The journal stays a sequence of entries when one of them is marked reversed.
LEMMA MarkType ==
  ASSUME TypeOK, NEW k
  PROVE  /\ [journal EXCEPT ![k].reversed = TRUE] \in Seq(Entry)
         /\ Len([journal EXCEPT ![k].reversed = TRUE]) = Len(journal)
<1> DEFINE marked == [journal EXCEPT ![k].reversed = TRUE]
<1>1. DOMAIN marked = 1 .. Len(journal) /\ Len(journal) \in Nat
  BY DEF TypeOK
<1>2. ASSUME NEW j \in 1 .. Len(journal) PROVE marked[j] \in Entry
  <2>1. journal[j] \in Entry
    BY <1>2, ElementOfSeq DEF TypeOK
  <2>2. [journal[j] EXCEPT !.reversed = TRUE] \in Entry
    BY <2>1 DEF Entry
  <2> QED
    BY <1>1, <2>1, <2>2
<1>3. marked = [j \in 1 .. Len(journal) |-> marked[j]]
  BY <1>1
<1> HIDE DEF marked
<1>4. marked \in [1 .. Len(journal) -> Entry]
  BY <1>2, <1>3
<1>5. marked \in Seq(Entry)
  BY <1>1, <1>4, SeqDef
<1> QED
  BY <1>1, <1>5, LenProperties DEF marked

--------------------------------------------------------------------------------
\* Type correctness

\* The initial state has its types.
LEMMA InitType == Init => TypeOK
<1> SUFFICES ASSUME Init PROVE TypeOK
  OBVIOUS
<1>1. NoLines \in Lines /\ NoDraft \in DraftRow
  BY BoundsAssumption DEF NoDraft, DraftRow, NoLines, Lines, Months
<1>2. <<>> \in Seq(Entry) /\ Len(<<>>) = 0
  BY EmptySeq
<1> QED
  BY <1>1, <1>2 DEF Init, TypeOK, Transactions

\* The insert of an entry behind a journal of the same length.
LEMMA InsertType ==
  ASSUME TypeOK, NEW s \in Requests, NEW source, NEW earlier \in Seq(Entry),
         Len(earlier) = Len(journal), Insert(s, source, earlier)
  PROVE  /\ journal' \in Seq(Entry)
         /\ Len(journal') = Len(journal) + 1
         /\ journal'[Len(journal) + 1] = txn[s].entry
         /\ balance' \in Lines
         /\ lock' \subseteq Requests
         /\ txn' \in [Requests -> Transactions]
         /\ txn[s].entry \in Entry
<1>1. txn[s].entry \in Entry /\ txn[s].entry.lines \in Lines
  BY Holds DEF Insert, Entry
<1>2. journal' = Append(earlier, txn[s].entry)
  BY DEF Insert
<1>3. /\ journal' \in Seq(Entry)
      /\ Len(journal') = Len(earlier) + 1
      /\ journal'[Len(earlier) + 1] = txn[s].entry
  BY <1>1, <1>2, AppendProperties
<1>4. balance' \in Lines
  BY <1>1 DEF Insert, TypeOK, Lines
<1>5. lock' \subseteq Requests /\ txn' \in [Requests -> Transactions]
  BY DEF Insert, End, TypeOK, Transactions
<1> QED
  BY <1>1, <1>3, <1>4, <1>5

\* A request that begins keeps the types.
LEMMA StartType ==
  ASSUME TypeOK, NEW s \in Requests, Start(s)
  PROVE  TypeOK'
<1>1. ASSUME NEW entry \in Entry, Prepare(s, entry) PROVE TypeOK'
  <2>1. [stage |-> "prepared", entry |-> entry] \in Transactions
    BY DEF Transactions
  <2> QED
    BY <1>1, <2>1 DEF Prepare, Begin, TypeOK, months, books
<1>2. ASSUME NEW m \in Months, NEW source \in {"manual", "document"},
             NEW lines \in Postings, PreparePost(s, source, m, lines)
      PROVE  TypeOK'
  <2>1. NewEntry(source, 0, m, lines) \in Entry
    BY NewEntryType, PostingsAssumption DEF Sources
  <2> QED
    BY <1>1, <1>2, <2>1 DEF PreparePost
<1>3. ASSUME NEW m \in Months, NEW d \in Drafts, NEW lines \in NeedApproval,
             Park(s, d, m, lines)
      PROVE  TypeOK'
  <2>1. [status |-> "pending", month |-> m, lines |-> lines] \in DraftRow
    BY PostingsAssumption DEF DraftRow
  <2> QED
    BY <1>3, <2>1 DEF Park, TypeOK, months, books
<1>4. ASSUME NEW m \in Months, NEW k \in DOMAIN journal, PrepareVoid(s, k, m)
      PROVE  TypeOK'
  <2>1. journal[k] \in Entry /\ k \in Nat
    BY <1>4, ElementOfSeq, LenProperties DEF TypeOK
  <2>2. Mirror(journal[k].lines) \in Lines
    BY <2>1, LinesType DEF Entry
  <2>3. NewEntry("void", k, m, Mirror(journal[k].lines)) \in Entry
    BY <2>1, <2>2, NewEntryType DEF Sources
  <2> QED
    BY <1>1, <1>4, <2>3 DEF PrepareVoid
<1>5. ASSUME NEW m \in Months, SoftClose(s, m) \/ Reopen(s, m) PROVE TypeOK'
  BY <1>5 DEF SoftClose, Reopen, SetStatus, TypeOK, books
<1>6. ASSUME NEW d \in Drafts, PrepareApprove(s, d) PROVE TypeOK'
  <2>1. draft[d].month \in Months /\ draft[d].lines \in Lines
    BY DEF TypeOK, DraftRow
  <2>2. NewEntry("draft", d, draft[d].month, draft[d].lines) \in Entry
    BY <2>1, NewEntryType DEF Sources
  <2> QED
    BY <1>1, <1>6, <2>2 DEF PrepareApprove
<1>7. ASSUME NEW d \in Drafts, PrepareReject(s, d) PROVE TypeOK'
  <2>1. [stage |-> "rejecting", draft |-> d] \in Transactions
    BY DEF Transactions
  <2> QED
    BY <1>7, <2>1 DEF PrepareReject, Begin, TypeOK, months, books
<1>8. CASE PrepareClose(s)
  <2>1. [stage |-> "closing"] \in Transactions
    BY DEF Transactions
  <2> QED
    BY <1>8, <2>1 DEF PrepareClose, Begin, TypeOK, months, books
<1> QED
  BY <1>2, <1>3, <1>4, <1>5, <1>6, <1>7, <1>8 DEF Start

\* A request that goes on, commits or is rolled back keeps the types.
LEMMA ContinueType ==
  ASSUME TypeOK, NEW s \in Requests, Continue(s)
  PROVE  TypeOK'
<1>1. CASE ReadBalances(s)
  <2> DEFINE closed == NewEntry("year_close", 0, LastMonth, ZeroOut(balance))
  <2>1. LastMonth \in Months
    BY BoundsAssumption DEF Months
  <2>2. closed \in Entry
    BY <2>1, LinesType, NewEntryType DEF TypeOK, Sources
  <2>3. /\ [stage |-> "sealing"] \in Transactions
        /\ [stage |-> "prepared", entry |-> closed] \in Transactions
    BY <2>2 DEF Transactions
  <2> HIDE DEF closed
  <2> QED
    BY <1>1, <2>3 DEF ReadBalances, TypeOK, months, books, closed
<1>2. CASE Check(s)
  <2>1. txn[s].entry \in Entry
    BY <1>2, Holds DEF Check
  <2>2. [stage |-> "checked", entry |-> txn[s].entry] \in Transactions
    BY <2>1 DEF Transactions
  <2> QED
    BY <1>2, <2>2 DEF Check, TypeOK, months, books
<1>3. CASE CommitPost(s)
  <2>1. PICK source \in {"manual", "document"} : Insert(s, source, journal)
    BY <1>3 DEF CommitPost
  <2> QED
    BY <1>3, <2>1, InsertType DEF CommitPost, TypeOK, months
<1>4. CASE CommitApprove(s)
  <2>1. draft' \in [Drafts -> DraftRow]
    BY <1>4 DEF CommitApprove, TypeOK, DraftRow
  <2> QED
    BY <1>4, <2>1, InsertType DEF CommitApprove, TypeOK, months
<1>5. CASE CommitReject(s)
  BY <1>5 DEF CommitReject, End, TypeOK, DraftRow, Transactions, months, books
<1>6. CASE CommitVoid(s)
  <2>1. PICK earlier \in Seq(Entry) :
          Len(earlier) = Len(journal) /\ Insert(s, "void", earlier)
    BY <1>6, MarkType DEF CommitVoid
  <2> QED
    BY <1>6, <2>1, InsertType DEF CommitVoid, TypeOK, months
<1>7. CASE CommitClose(s)
  <2>1. Insert(s, "year_close", journal) /\ journal \in Seq(Entry)
    BY <1>7 DEF CommitClose, TypeOK
  <2>2. status' \in [Months -> {"open", "soft_closed", "closed"}]
    BY <1>7 DEF CommitClose, Seal
  <2>3. closing' \in 0 .. Len(journal')
    BY <1>7, <2>1, InsertType DEF CommitClose, Seal, EntryId, TypeOK
  <2> QED
    BY <1>7, <2>1, <2>2, <2>3, InsertType DEF CommitClose, TypeOK
<1>8. CASE CommitEmptyClose(s)
  BY <1>8 DEF CommitEmptyClose, Seal, End, TypeOK, Transactions, books
<1>9. CASE Rollback(s)
  BY <1>9 DEF Rollback, End, TypeOK, Transactions, months, books
<1> QED
  BY <1>1, <1>2, <1>3, <1>4, <1>5, <1>6, <1>7, <1>8, <1>9 DEF Continue

\* Every step keeps the types.
LEMMA NextType == TypeOK /\ [Next]_vars => TypeOK'
<1> SUFFICES ASSUME TypeOK, [Next]_vars PROVE TypeOK'
  OBVIOUS
<1>1. CASE UNCHANGED vars
  BY <1>1 DEF vars, months, books, TypeOK
<1> QED
  BY <1>1, StartType, ContinueType DEF Next

\* Every reachable state of the ledger is well typed; in particular the closing
\* entry a year points to is an entry of the journal.
THEOREM TypeCorrect == Spec => []TypeOK
  BY InitType, NextType, PTL DEF Spec

--------------------------------------------------------------------------------
\* The year-end close

\* Steps that leave the lock, the months and every checked request alone.
LEMMA NothingChecked ==
  ASSUME SealedInv, lock' = lock, NEW s \in Requests,
         \A m \in Months : Sealed(m)' => Sealed(m),
         \A r \in Requests :
           txn'[r].stage = "checked" =>
             txn[r].stage = "checked" /\ txn'[r].entry = txn[r].entry
             /\ txn[r].entry.month \in Months
  PROVE  SealedInv'
  BY DEF SealedInv

\* A request that has not checked its month yet changes nothing that counts.
LEMMA SealedStart ==
  ASSUME TypeOK, SealedInv, NEW s \in Requests, Start(s)
  PROVE  SealedInv'
<1>1. lock' = lock
  BY DEF Start, PreparePost, PrepareVoid, PrepareApprove, PrepareReject, PrepareClose,
         Prepare, Begin, Park, SoftClose, Reopen, SetStatus
<1>2. \A m \in Months : Sealed(m)' => Sealed(m)
  BY DEF Start, PreparePost, PrepareVoid, PrepareApprove, PrepareReject, PrepareClose,
         Prepare, Begin, Park, SoftClose, Reopen, SetStatus, TypeOK, months, Sealed
<1>3. \/ txn' = txn
      \/ txn'[s].stage # "checked" /\ \A r \in Requests \ {s} : txn'[r] = txn[r]
  BY DEF Start, PreparePost, PrepareVoid, PrepareApprove, PrepareReject, PrepareClose,
         Prepare, Begin, Park, SoftClose, Reopen, SetStatus, TypeOK
<1>4. \A r \in Requests : txn[r].stage = "checked" => txn[r].entry.month \in Months
  BY Holds DEF Entry
<1> QED
  BY <1>1, <1>2, <1>3, <1>4, NothingChecked

\* When the request that holds the row ends, nobody has a checked month.
LEMMA SealedEnd ==
  ASSUME TypeOK, SealedInv, NEW s \in Requests, txn[s].stage = "checked", End(s)
  PROVE  SealedInv'
<1>1. \A r \in Requests : txn'[r].stage # "checked"
  BY DEF SealedInv, End, TypeOK, Idle
<1> QED
  BY <1>1 DEF SealedInv

\* The close of a year that has an entry waits for every posting that has checked
\* its month; one that has none points to no entry.
LEMMA SealedContinue ==
  ASSUME TypeOK, SealedInv, NEW s \in Requests, Continue(s)
  PROVE  SealedInv'
<1>1. \A r \in Requests : txn[r].stage = "checked" => txn[r].entry.month \in Months
  BY Holds DEF Entry
<1>2. CASE ReadBalances(s)
  <2>1. txn'[s].stage # "checked" /\ \A r \in Requests \ {s} : txn'[r] = txn[r]
    BY <1>2 DEF ReadBalances, TypeOK
  <2> QED
    BY <1>1, <1>2, <2>1, NothingChecked DEF ReadBalances, months, Sealed
<1>3. CASE Check(s)
  <2>1. \A r \in Requests : txn[r].stage # "checked"
    BY <1>3 DEF SealedInv, Check, RowFree
  <2>2. txn'[s].entry = txn[s].entry /\ \A r \in Requests \ {s} : txn'[r] = txn[r]
    BY <1>3 DEF Check, TypeOK
  <2>3. lock' = {s} /\ ~Sealed(txn[s].entry.month)
    BY <1>3 DEF Check, RowFree, Postable, Sealed
  <2> QED
    BY <1>3, <2>1, <2>2, <2>3 DEF SealedInv, Check, months, Sealed
<1>4. CASE CommitPost(s) \/ CommitApprove(s) \/ CommitVoid(s) \/ CommitClose(s)
  BY <1>4, SealedEnd DEF CommitPost, CommitApprove, CommitVoid, CommitClose, Insert
<1>5. CASE CommitReject(s)
  <2>1. txn'[s].stage # "checked" /\ \A r \in Requests \ {s} : txn'[r] = txn[r]
    BY <1>5 DEF CommitReject, End, TypeOK, Idle
  <2> QED
    BY <1>1, <1>5, <2>1, NothingChecked DEF CommitReject, months, Sealed
<1>6. CASE CommitEmptyClose(s)
  <2>1. txn'[s].stage # "checked" /\ \A r \in Requests \ {s} : txn'[r] = txn[r]
    BY <1>6 DEF CommitEmptyClose, End, TypeOK, Idle
  <2>2. \A m \in Months : ~Sealed(m)'
    BY <1>6 DEF CommitEmptyClose, Seal, Sealed
  <2> QED
    BY <1>1, <1>6, <2>1, <2>2, NothingChecked DEF CommitEmptyClose
<1>7. CASE Rollback(s)
  <2>1. CASE txn[s].stage = "checked"
    BY <1>7, <2>1, SealedEnd DEF Rollback
  <2>2. CASE txn[s].stage # "checked"
    <3>1. txn'[s].stage # "checked" /\ \A r \in Requests \ {s} : txn'[r] = txn[r]
      BY <1>7 DEF Rollback, End, TypeOK, Idle
    <3>2. \A r \in Requests : txn'[r].stage = "checked" =>
            r # s /\ txn[r].stage = "checked" /\ lock' = lock
      BY <1>7, <3>1 DEF Rollback, SealedInv
    <3> QED
      BY <1>1, <1>7, <3>1, <3>2 DEF Rollback, SealedInv, months, Sealed
  <2> QED
    BY <2>1, <2>2
<1> QED
  BY <1>2, <1>3, <1>4, <1>5, <1>6, <1>7 DEF Continue

\* Only the holder of the row adds an entry, and of a month it has checked.
LEMMA PostedUnsealed ==
  ASSUME TypeOK, SealedInv, [Next]_vars
  PROVE  \A k \in Posted : ~Sealed(journal'[k].month)
<1>1. ASSUME NEW s \in Requests, NEW source, NEW earlier \in Seq(Entry),
             Len(earlier) = Len(journal), Insert(s, source, earlier)
      PROVE  \A k \in Posted : ~Sealed(journal'[k].month)
  <2>1. /\ DOMAIN journal' = 1 .. Len(journal) + 1 /\ DOMAIN journal = 1 .. Len(journal)
        /\ journal'[Len(journal) + 1] = txn[s].entry
        /\ Len(journal) \in Nat
    BY <1>1, InsertType, LenProperties DEF TypeOK
  <2>2. ~Sealed(txn[s].entry.month)
    BY <1>1 DEF Insert, SealedInv
  <2> QED
    BY <2>1, <2>2 DEF Posted
<1>2. ASSUME journal' = journal PROVE \A k \in Posted : ~Sealed(journal'[k].month)
  BY <1>2 DEF Posted
<1>3. ASSUME NEW s \in Requests, CommitVoid(s)
      PROVE  \A k \in Posted : ~Sealed(journal'[k].month)
  <2>1. PICK earlier \in Seq(Entry) :
          Len(earlier) = Len(journal) /\ Insert(s, "void", earlier)
    BY <1>3, MarkType DEF CommitVoid
  <2> QED
    BY <1>1, <2>1
<1>4. ASSUME NEW s \in Requests, CommitPost(s) \/ CommitApprove(s) \/ CommitClose(s)
      PROVE  \A k \in Posted : ~Sealed(journal'[k].month)
  <2>1. PICK source : Insert(s, source, journal)
    BY <1>4 DEF CommitPost, CommitApprove, CommitClose
  <2> QED
    BY <1>1, <2>1 DEF TypeOK
<1>5. ASSUME NEW s \in Requests, Start(s) PROVE journal' = journal
  BY <1>5 DEF Start, PreparePost, PrepareVoid, PrepareApprove, PrepareReject,
              PrepareClose, Prepare, Begin, Park, SoftClose, Reopen, SetStatus, books
<1>6. ASSUME NEW s \in Requests,
             \/ ReadBalances(s) \/ Check(s) \/ CommitReject(s)
             \/ CommitEmptyClose(s) \/ Rollback(s)
      PROVE  journal' = journal
  BY <1>6 DEF ReadBalances, Check, CommitReject, CommitEmptyClose, Rollback, books
<1>7. CASE UNCHANGED vars
  BY <1>2, <1>7 DEF vars, books
<1> QED
  BY <1>2, <1>3, <1>4, <1>5, <1>6, <1>7 DEF Next, Continue

\* Whoever has checked a month holds the row, and the month is not sealed.
LEMMA SealedCorrect == Spec => []SealedInv
<1>1. Init => SealedInv
  BY DEF Init, SealedInv, Idle
<1>2. TypeOK /\ SealedInv /\ [Next]_vars => SealedInv'
  <2> SUFFICES ASSUME TypeOK, SealedInv, [Next]_vars PROVE SealedInv'
    OBVIOUS
  <2>1. CASE UNCHANGED vars
    BY <2>1 DEF vars, months, SealedInv, Sealed
  <2> QED
    BY <2>1, SealedStart, SealedContinue DEF Next
<1> QED
  BY <1>1, <1>2, TypeCorrect, PTL DEF Spec

\* However many requests post, close, soft-close and reopen at the same time, no
\* entry reaches a hard-closed month of a year that was closed with an entry: the
\* close holds the journal's number row, so every posting that found the month open
\* has committed before it, and every later one finds the month closed.
THEOREM SealedYearHolds == Spec => SealedYear
<1>1. TypeOK /\ SealedInv /\ [Next]_vars
        => [\A k \in Posted : ~Sealed(journal'[k].month)]_vars
  BY PostedUnsealed
<1> QED
  BY <1>1, TypeCorrect, SealedCorrect, PTL DEF Spec, SealedYear

--------------------------------------------------------------------------------
\* Its closing entry is the last word in a closed year

\* Who inserts an entry while the year is closed has checked a month that is not
\* sealed, so the year was closed without an entry.
LEMMA InsertUnseals ==
  ASSUME TypeOK, SealedInv, NEW s \in Requests, NEW source, NEW earlier,
         Insert(s, source, earlier), YearClosed
  PROVE  closing = 0
<1>1. txn[s].entry.month \in Months
  BY Holds DEF Insert, Entry
<1> QED
  BY <1>1 DEF Insert, SealedInv, Sealed, YearClosed

\* Opening or soft-closing a month ends a closed year; other first steps leave the
\* months and the journal alone.
LEMMA ClosingStart ==
  ASSUME TypeOK, ClosingIsLast, NEW s \in Requests, Start(s)
  PROVE  ClosingIsLast'
<1>1. closing' = closing /\ journal' = journal
  BY DEF Start, PreparePost, PrepareVoid, PrepareApprove, PrepareReject, PrepareClose,
         Prepare, Begin, Park, SoftClose, Reopen, SetStatus, months, books
<1>2. YearClosed' => YearClosed
  BY DEF Start, PreparePost, PrepareVoid, PrepareApprove, PrepareReject, PrepareClose,
         Prepare, Begin, Park, SoftClose, Reopen, SetStatus, months, TypeOK, YearClosed
<1> QED
  BY <1>1, <1>2 DEF ClosingIsLast

\* A posting finds no sealed month, and a close points to the entry it has added.
LEMMA ClosingContinue ==
  ASSUME TypeOK, SealedInv, ClosingIsLast, NEW s \in Requests, Continue(s)
  PROVE  ClosingIsLast'
<1>1. CASE ReadBalances(s) \/ Check(s) \/ CommitReject(s) \/ Rollback(s)
  BY <1>1 DEF ReadBalances, Check, CommitReject, Rollback, months, books,
              ClosingIsLast, YearClosed
<1>2. CASE CommitPost(s) \/ CommitApprove(s) \/ CommitVoid(s)
  <2>1. PICK source, earlier : Insert(s, source, earlier)
    BY <1>2 DEF CommitPost, CommitApprove, CommitVoid
  <2>2. status' = status /\ closing' = closing
    BY <1>2 DEF CommitPost, CommitApprove, CommitVoid, months
  <2> QED
    BY <2>1, <2>2, InsertUnseals DEF ClosingIsLast, YearClosed
<1>3. CASE CommitClose(s)
  <2>1. Len(journal') = Len(journal) + 1 /\ journal'[Len(journal) + 1] = txn[s].entry
    BY <1>3, InsertType, LenProperties DEF CommitClose, TypeOK
  <2> QED
    BY <1>3, <2>1 DEF CommitClose, Insert, Seal, EntryId, ClosingIsLast
<1>4. CASE CommitEmptyClose(s)
  BY <1>4 DEF CommitEmptyClose, Seal, ClosingIsLast
<1> QED
  BY <1>1, <1>2, <1>3, <1>4 DEF Continue

\* However many requests post, close and reopen at the same time, while the year is
\* closed the entry closing_journal_entry_id names is the closing entry that comes
\* after everything it sums up.
THEOREM ClosingStaysLast == Spec => []ClosingIsLast
<1>1. Init => ClosingIsLast
  BY DEF Init, ClosingIsLast
<1>2. TypeOK /\ SealedInv /\ ClosingIsLast /\ [Next]_vars => ClosingIsLast'
  <2> SUFFICES ASSUME TypeOK, SealedInv, ClosingIsLast, [Next]_vars
               PROVE  ClosingIsLast'
    OBVIOUS
  <2>1. CASE UNCHANGED vars
    BY <2>1 DEF vars, months, books, ClosingIsLast, YearClosed
  <2> QED
    BY <2>1, ClosingStart, ClosingContinue DEF Next
<1> QED
  BY <1>1, <1>2, TypeCorrect, SealedCorrect, PTL DEF Spec

--------------------------------------------------------------------------------
\* One request at a time: a closed year is zero

\* With balances on their normal side, the closing lines are their negatives.
LEMMA ZeroOutMirrors ==
  ASSUME NEW bal \in Lines, Normal(bal)
  PROVE  ZeroOut(bal) = Mirror(bal)
<1>1. \A a \in Accounts : ZeroOut(bal)[a] = -bal[a]
  BY DEF Lines, Accounts, Normal, ZeroOut
<1> QED
  BY <1>1 DEF ZeroOut, Mirror

\* Normal lines keep balances normal; the closing lines make them zero.
LEMMA NormalAdds ==
  ASSUME NEW bal \in Lines, NEW lines \in Lines, Normal(bal)
  PROVE  /\ Normal(lines) => Normal([a \in Accounts |-> bal[a] + lines[a]])
         /\ lines = Mirror(bal) => [a \in Accounts |-> bal[a] + lines[a]] = NoLines
  BY DEF Lines, Accounts, Normal, Mirror, NoLines

\* Before any request every balance and every draft is zero.
LEMMA YearInit == Init => YearInv
<1> SUFFICES ASSUME Init PROVE YearInv
  OBVIOUS
<1>1. Normal(NoLines)
  BY DEF Normal, NoLines, Accounts
<1> QED
  BY <1>1 DEF Init, YearInv, NoDraft, InFlightIsCurrent, Idle, ClosedYearIsZero, YearClosed

\* The request that has ended was the only one.
LEMMA NothingLeft ==
  ASSUME TypeOK, OneRequestAtATime, NEW s \in Requests, End(s)
  PROVE  \A r \in Requests : InFlightIsCurrent(txn[r])'
<1>1. \A r \in Requests : txn'[r] = Idle
  BY DEF OneRequestAtATime, End, TypeOK
<1> QED
  BY <1>1 DEF InFlightIsCurrent, Idle

\* A request that begins has a normal entry, and the others are not there.
LEMMA YearStart ==
  ASSUME TypeOK, YearInv, OneRequestAtATime, NormalBusiness, NEW s \in Requests, Start(s)
  PROVE  YearInv'
<1>1. \A r \in Requests : r = s
  BY DEF OneRequestAtATime
<1>2. ASSUME NEW t, Begin(s, t), InFlightIsCurrent(t) PROVE YearInv'
  <2>1. txn'[s] = t
    BY <1>2 DEF Begin, TypeOK
  <2> QED
    BY <1>1, <1>2, <2>1 DEF Begin, YearInv, InFlightIsCurrent, ClosedYearIsZero, YearClosed, months, books
<1>3. ASSUME NEW source \in {"manual", "document", "draft"}, NEW of, NEW m,
             NEW lines, NEW c, Normal(lines),
             Prepare(s, NewEntry(source, of, m, lines))
      PROVE  YearInv'
  BY <1>2, <1>3 DEF Prepare, InFlightIsCurrent, NewEntry
<1>4. ASSUME NEW m \in Months, NEW source \in {"manual", "document"},
             NEW lines \in Postings, PreparePost(s, source, m, lines)
      PROVE  YearInv'
  BY <1>3, <1>4 DEF PreparePost, NormalBusiness
<1>5. ASSUME NEW m \in Months, NEW d \in Drafts, NEW lines \in NeedApproval,
             Park(s, d, m, lines)
      PROVE  YearInv'
  <2>1. \A e \in Drafts : Normal(draft'[e].lines)
    BY <1>5, PostingsAssumption DEF Park, YearInv, NormalBusiness, TypeOK
  <2> QED
    BY <1>5, <2>1 DEF Park, YearInv, InFlightIsCurrent, ClosedYearIsZero, YearClosed, months, books
<1>6. ASSUME NEW m \in Months, NEW k \in DOMAIN journal, PrepareVoid(s, k, m)
      PROVE  FALSE
  BY <1>6 DEF PrepareVoid, NormalBusiness
<1>7. ASSUME NEW m \in Months, SoftClose(s, m) \/ Reopen(s, m) PROVE YearInv'
  <2>1. \A r \in Requests : txn'[r] = Idle
    BY <1>1, <1>7 DEF SoftClose, Reopen, SetStatus
  <2>2. status'[m] # "closed"
    BY <1>7 DEF SoftClose, Reopen, SetStatus, TypeOK
  <2> QED
    BY <1>7, <2>1, <2>2 DEF SoftClose, Reopen, SetStatus, YearInv, InFlightIsCurrent, Idle,
                            ClosedYearIsZero, YearClosed, books
<1>8. ASSUME NEW d \in Drafts, PrepareApprove(s, d) PROVE YearInv'
  BY <1>3, <1>8 DEF PrepareApprove, YearInv
<1>9. ASSUME NEW d \in Drafts, PrepareReject(s, d) PROVE YearInv'
  BY <1>2, <1>9 DEF PrepareReject, InFlightIsCurrent
<1>10. CASE PrepareClose(s)
  BY <1>2, <1>10 DEF PrepareClose, InFlightIsCurrent
<1> QED
  BY <1>4, <1>5, <1>6, <1>7, <1>8, <1>9, <1>10 DEF Start

\* What a commit adds is normal, or takes every balance to zero.
LEMMA YearContinue ==
  ASSUME TypeOK, YearInv, OneRequestAtATime, NormalBusiness, NEW s \in Requests,
         Continue(s)
  PROVE  YearInv'
<1>1. \A r \in Requests : r = s
  BY DEF OneRequestAtATime
<1>2. InFlightIsCurrent(txn[s])
  BY DEF YearInv
<1>3. CASE ReadBalances(s)
  <2> DEFINE lines == ZeroOut(balance)
             t == IF lines = NoLines
                  THEN [stage |-> "sealing"]
                  ELSE [stage |-> "prepared",
                        entry |-> NewEntry("year_close", 0, LastMonth, lines)]
  <2>1. lines = Mirror(balance)
    BY ZeroOutMirrors DEF YearInv, TypeOK
  <2>2. lines = NoLines => balance = NoLines
    BY <2>1 DEF Mirror, NoLines, TypeOK, Lines
  <2>3. txn'[s] = t
    BY <1>3 DEF ReadBalances, TypeOK
  <2> HIDE DEF lines
  <2>4. InFlightIsCurrent(t)
    BY <2>1, <2>2 DEF InFlightIsCurrent, NewEntry
  <2> HIDE DEF t
  <2> QED
    BY <1>1, <1>3, <2>3, <2>4
    DEF ReadBalances, YearInv, InFlightIsCurrent, ClosedYearIsZero, YearClosed, months, books
<1>4. CASE Check(s)
  <2>1. txn'[s] = [stage |-> "checked", entry |-> txn[s].entry]
    BY <1>4 DEF Check, TypeOK
  <2>2. InFlightIsCurrent(txn'[s])
    BY <1>2, <1>4, <2>1 DEF InFlightIsCurrent, Check, Postable
  <2> QED
    BY <1>1, <1>4, <2>2 DEF Check, YearInv, InFlightIsCurrent, ClosedYearIsZero, YearClosed, months, books
<1>5. ASSUME NEW source \in {"manual", "document", "draft"}, NEW earlier,
             Insert(s, source, earlier), status' = status,
             \A d \in Drafts : draft'[d].lines = draft[d].lines
      PROVE  YearInv'
  <2>1. txn[s].entry.lines \in Lines /\ Normal(txn[s].entry.lines)
        /\ txn[s].entry.month \in Months /\ status[txn[s].entry.month] = "open"
    BY <1>2, <1>5, Holds DEF Insert, InFlightIsCurrent, Entry
  <2>2. Normal(balance')
    BY <1>5, <2>1, NormalAdds DEF Insert, YearInv, TypeOK
  <2> QED
    BY <1>5, <2>1, <2>2, NothingLeft DEF Insert, YearInv, ClosedYearIsZero, YearClosed
<1>6. CASE CommitPost(s)
  BY <1>5, <1>6 DEF CommitPost, months
<1>7. CASE CommitApprove(s)
  BY <1>5, <1>7 DEF CommitApprove, months, TypeOK
<1>8. CASE CommitReject(s)
  <2>1. \A d \in Drafts : draft'[d].lines = draft[d].lines
    BY <1>8 DEF CommitReject, TypeOK
  <2> QED
    BY <1>8, <2>1, NothingLeft DEF CommitReject, YearInv, ClosedYearIsZero, YearClosed, months, books
<1>9. CASE CommitVoid(s)
  BY <1>2, <1>9 DEF CommitVoid, Insert, InFlightIsCurrent
<1>10. CASE CommitClose(s)
  <2>1. txn[s].entry.lines = Mirror(balance) /\ txn[s].entry.lines \in Lines
    BY <1>2, <1>10, Holds DEF CommitClose, Insert, InFlightIsCurrent, Entry
  <2>2. balance' = NoLines
    BY <1>10, <2>1, NormalAdds DEF CommitClose, Insert, YearInv, TypeOK
  <2>3. Normal(NoLines)
    BY DEF Normal, NoLines, Accounts
  <2> QED
    BY <1>10, <2>2, <2>3, NothingLeft DEF CommitClose, Insert, YearInv, ClosedYearIsZero, YearClosed
<1>11. CASE CommitEmptyClose(s)
  <2>1. balance = NoLines
    BY <1>2, <1>11 DEF CommitEmptyClose, InFlightIsCurrent
  <2> QED
    BY <1>11, <2>1, NothingLeft DEF CommitEmptyClose, YearInv, ClosedYearIsZero, YearClosed, books
<1>12. CASE Rollback(s)
  BY <1>12, NothingLeft DEF Rollback, YearInv, ClosedYearIsZero, YearClosed, months, books
<1> QED
  BY <1>3, <1>4, <1>6, <1>7, <1>8, <1>9, <1>10, <1>11, <1>12 DEF Continue

\* When one request runs at a time and no entry takes an income account to the
\* debit side or an expense account to the credit side, a year whose months are all
\* hard-closed has zero on every income and expense account, however often it was
\* closed, reopened and posted to.
THEOREM ClosedYearZeroes ==
  OneRequestAtATime /\ NormalBusiness => (Spec => []ClosedYearIsZero)
<1> SUFFICES ASSUME OneRequestAtATime, NormalBusiness PROVE Spec => []ClosedYearIsZero
  OBVIOUS
<1>1. TypeOK /\ YearInv /\ [Next]_vars => YearInv'
  <2> SUFFICES ASSUME TypeOK, YearInv, [Next]_vars PROVE YearInv'
    OBVIOUS
  <2>1. CASE UNCHANGED vars
    BY <2>1 DEF vars, months, books, YearInv, InFlightIsCurrent, ClosedYearIsZero, YearClosed
  <2> QED
    BY <2>1, YearStart, YearContinue DEF Next
<1>2. YearInv => ClosedYearIsZero
  BY DEF YearInv
<1> QED
  BY <1>1, <1>2, YearInit, TypeCorrect, PTL DEF Spec

--------------------------------------------------------------------------------
\* The drafts

\* Before any request no draft exists, and no entry.
LEMMA DraftsInit == Init => DraftInv
<1> SUFFICES ASSUME Init PROVE DraftInv
  OBVIOUS
<1>1. \A d \in Drafts : EntriesOf(d) = {}
  BY EmptySeq DEF Init, EntriesOf
<1>2. Cardinality({}) = 0
  BY FS_EmptySet
<1> QED
  BY <1>1, <1>2 DEF Init, DraftInv, DraftPostsOnce, DecidesPending, Idle, NoDraft

\* An insert adds its entry to those of the draft it comes from.
LEMMA InsertCounts ==
  ASSUME TypeOK, NEW s \in Requests, NEW source, NEW earlier \in Seq(Entry),
         Len(earlier) = Len(journal), Insert(s, source, earlier),
         \A k \in DOMAIN journal : earlier[k].of = journal[k].of,
         NEW d \in Drafts
  PROVE  Cardinality(EntriesOf(d))'
           = Cardinality(EntriesOf(d)) + (IF txn[s].entry.of = d THEN 1 ELSE 0)
<1> DEFINE n == Len(journal)
<1>1. journal' = Append(earlier, txn[s].entry) /\ txn[s].entry \in Entry
  BY InsertType DEF Insert
<1>2. /\ DOMAIN journal = 1 .. n /\ n \in Nat
      /\ DOMAIN earlier = 1 .. n
  BY LenProperties DEF TypeOK
<1>3. /\ DOMAIN journal' = 1 .. (n + 1)
      /\ journal'[n + 1] = txn[s].entry
      /\ \A k \in 1 .. n : journal'[k] = earlier[k]
  <2>1. /\ journal' \in Seq(Entry) /\ Len(journal') = n + 1
        /\ journal'[n + 1] = txn[s].entry
    BY InsertType
  <2>2. \A k \in 1 .. n : journal'[k] = earlier[k]
    BY <1>1, <1>2, AppendProperties
  <2> QED
    BY <2>1, <2>2, LenProperties
<1>4. IsFiniteSet(EntriesOf(d)) /\ n + 1 \notin EntriesOf(d)
  <2>1. IsFiniteSet(1 .. n)
    BY <1>2, FS_Interval
  <2>2. EntriesOf(d) \subseteq 1 .. n
    BY <1>2 DEF EntriesOf
  <2>3. n + 1 \notin 1 .. n
    BY <1>2
  <2> QED
    BY <2>1, <2>2, <2>3, FS_Subset
<1>5. EntriesOf(d)' = EntriesOf(d) \cup (IF txn[s].entry.of = d THEN {n + 1} ELSE {})
  <2>1. \A k \in 1 .. n : journal'[k].of = journal[k].of
    BY <1>2, <1>3
  <2>2. 1 .. (n + 1) = (1 .. n) \cup {n + 1}
    BY <1>2
  <2> HIDE DEF n
  <2> QED
    BY <1>2, <1>3, <2>1, <2>2 DEF EntriesOf
<1>6. Cardinality(EntriesOf(d)) \in Nat
  BY <1>4, FS_CardinalityType
<1> HIDE DEF n
<1>7. CASE txn[s].entry.of = d
  BY <1>4, <1>5, <1>7, FS_AddElement
<1>8. CASE txn[s].entry.of # d
  <2>1. EntriesOf(d)' = EntriesOf(d)
    BY <1>5, <1>8
  <2> QED
    BY <1>6, <1>8, <2>1
<1> QED
  BY <1>7, <1>8

\* The insert of an entry of no draft changes the count of none.
LEMMA InsertOfNone ==
  ASSUME TypeOK, DraftInv, OneRequestAtATime, NEW s \in Requests, NEW source,
         NEW earlier \in Seq(Entry),
         Len(earlier) = Len(journal), Insert(s, source, earlier),
         \A k \in DOMAIN journal : earlier[k].of = journal[k].of,
         source # "draft", draft' = draft
  PROVE  DraftInv'
<1>1. txn[s].entry.of \in Nat
  BY DEF DraftInv, DecidesPending, Insert
<1>2. ASSUME NEW d \in Drafts
      PROVE  Cardinality(EntriesOf(d))' = Cardinality(EntriesOf(d))
  <2>1. txn[s].entry.of # d
    BY <1>1, DraftsAssumption
  <2>2. Cardinality(EntriesOf(d)) = IF draft[d].status = "approved" THEN 1 ELSE 0
    BY DEF DraftInv, DraftPostsOnce
  <2> QED
    BY <2>1, <2>2, InsertCounts
<1>3. DraftPostsOnce'
  BY <1>2 DEF DraftInv, DraftPostsOnce
<1>4. \A r \in Requests : txn'[r] = Idle
  BY DEF OneRequestAtATime, Insert, End, TypeOK
<1> QED
  BY <1>3, <1>4 DEF DraftInv, DecidesPending, Idle

\* A request that begins to decide a draft has found it waiting, and is alone.
LEMMA DraftsStart ==
  ASSUME TypeOK, DraftInv, OneRequestAtATime, NEW s \in Requests, Start(s)
  PROVE  DraftInv'
<1>1. \A r \in Requests : r = s
  BY DEF OneRequestAtATime
<1>2. ASSUME UNCHANGED <<journal, draft>>, DecidesPending(txn'[s])
      PROVE  DraftInv'
  <2>1. DraftPostsOnce'
    BY <1>2 DEF DraftInv, DraftPostsOnce, EntriesOf
  <2> QED
    BY <1>1, <1>2, <2>1 DEF DraftInv, DecidesPending
<1>3. ASSUME NEW m \in Months, NEW source \in {"manual", "document"},
             NEW lines \in Postings, PreparePost(s, source, m, lines)
      PROVE  DraftInv'
  <2>1. txn'[s] = [stage |-> "prepared", entry |-> NewEntry(source, 0, m, lines)]
    BY <1>3 DEF PreparePost, Prepare, Begin, TypeOK
  <2>2. DecidesPending(txn'[s])
    BY <2>1 DEF DecidesPending, NewEntry
  <2> QED
    BY <1>2, <1>3, <2>2 DEF PreparePost, Prepare, Begin, books
<1>4. ASSUME NEW m \in Months, NEW d \in Drafts, NEW lines \in NeedApproval,
             Park(s, d, m, lines)
      PROVE  DraftInv'
  <2>1. /\ draft[d].status = "absent" /\ draft'[d].status = "pending"
        /\ \A e \in Drafts \ {d} : draft'[e] = draft[e]
    BY <1>4 DEF Park, TypeOK
  <2>2. \A e \in Drafts :
          draft'[e].status = "approved" <=> draft[e].status = "approved"
    BY <2>1
  <2>3. \A e \in Drafts : EntriesOf(e)' = EntriesOf(e)
    BY <1>4 DEF Park, books, EntriesOf
  <2>4. DraftPostsOnce'
    BY <2>2, <2>3 DEF DraftInv, DraftPostsOnce
  <2>5. \A r \in Requests : txn'[r] = Idle
    BY <1>1, <1>4 DEF Park
  <2> QED
    BY <2>4, <2>5 DEF DraftInv, DecidesPending, Idle
<1>5. ASSUME NEW m \in Months, NEW k \in DOMAIN journal, PrepareVoid(s, k, m)
      PROVE  DraftInv'
  <2> DEFINE entry == NewEntry("void", k, m, Mirror(journal[k].lines))
  <2>1. txn'[s] = [stage |-> "prepared", entry |-> entry]
    BY <1>5 DEF PrepareVoid, Prepare, Begin, TypeOK
  <2>2. k \in Nat
    BY LenProperties DEF TypeOK
  <2>3. DecidesPending(txn'[s])
    BY <2>1, <2>2 DEF DecidesPending, NewEntry
  <2> QED
    BY <1>2, <1>5, <2>3 DEF PrepareVoid, Prepare, Begin, books
<1>6. ASSUME NEW m \in Months, SoftClose(s, m) \/ Reopen(s, m) PROVE DraftInv'
  <2>1. UNCHANGED <<journal, draft, txn>>
    BY <1>6 DEF SoftClose, Reopen, SetStatus, books
  <2> QED
    BY <1>2, <2>1 DEF DraftInv
<1>7. ASSUME NEW d \in Drafts, PrepareApprove(s, d) PROVE DraftInv'
  <2> DEFINE entry == NewEntry("draft", d, draft[d].month, draft[d].lines)
  <2>1. txn'[s] = [stage |-> "prepared", entry |-> entry]
    BY <1>7 DEF PrepareApprove, Prepare, Begin, TypeOK
  <2>2. draft[d].status = "pending"
    BY <1>7 DEF PrepareApprove, Pending
  <2>3. DecidesPending(txn'[s])
    BY <1>7, <2>1, <2>2 DEF DecidesPending, NewEntry
  <2> QED
    BY <1>2, <1>7, <2>3 DEF PrepareApprove, Prepare, Begin, books
<1>8. ASSUME NEW d \in Drafts, PrepareReject(s, d) PROVE DraftInv'
  <2>1. txn'[s] = [stage |-> "rejecting", draft |-> d] /\ draft[d].status = "pending"
    BY <1>8 DEF PrepareReject, Begin, Pending, TypeOK
  <2>2. DecidesPending(txn'[s])
    BY <2>1 DEF DecidesPending
  <2> QED
    BY <1>2, <1>8, <2>2 DEF PrepareReject, Begin, books
<1>9. CASE PrepareClose(s)
  <2>1. txn'[s] = [stage |-> "closing"]
    BY <1>9 DEF PrepareClose, Begin, TypeOK
  <2>2. DecidesPending(txn'[s])
    BY <2>1 DEF DecidesPending
  <2> QED
    BY <1>2, <1>9, <2>2 DEF PrepareClose, Begin, books
<1> QED
  BY <1>3, <1>4, <1>5, <1>6, <1>7, <1>8, <1>9 DEF Start

\* An approval posts its draft once; a rejection finds it not posted.
LEMMA DraftsContinue ==
  ASSUME TypeOK, DraftInv, OneRequestAtATime, NEW s \in Requests, Continue(s)
  PROVE  DraftInv'
<1>1. \A r \in Requests : r = s
  BY DEF OneRequestAtATime
<1>2. ASSUME UNCHANGED <<journal, draft>>, DecidesPending(txn'[s])
      PROVE  DraftInv'
  <2>1. DraftPostsOnce'
    BY <1>2 DEF DraftInv, DraftPostsOnce, EntriesOf
  <2> QED
    BY <1>1, <1>2, <2>1 DEF DraftInv, DecidesPending
<1>3. journal \in Seq(Entry)
  BY DEF TypeOK
<1>4. CASE ReadBalances(s)
  <2> DEFINE entry == NewEntry("year_close", 0, LastMonth, ZeroOut(balance))
  <2>1. txn'[s] = [stage |-> "sealing"] \/ txn'[s] = [stage |-> "prepared", entry |-> entry]
    BY <1>4 DEF ReadBalances, TypeOK
  <2>2. DecidesPending(txn'[s])
    BY <2>1 DEF DecidesPending, NewEntry
  <2> QED
    BY <1>2, <1>4, <2>2 DEF ReadBalances, books
<1>5. CASE Check(s)
  <2>1. /\ txn[s].stage = "prepared"
        /\ txn'[s] = [stage |-> "checked", entry |-> txn[s].entry]
    BY <1>5 DEF Check, TypeOK
  <2>2. DecidesPending(txn[s])
    BY DEF DraftInv
  <2>3. DecidesPending(txn'[s])
    BY <2>1, <2>2 DEF DecidesPending
  <2> QED
    BY <1>2, <1>5, <2>3 DEF Check, books
<1>6. CASE CommitPost(s)
  <2>1. PICK source \in {"manual", "document"} : Insert(s, source, journal)
    BY <1>6 DEF CommitPost
  <2> QED
    BY <1>3, <1>6, <2>1, InsertOfNone DEF CommitPost
<1>7. CASE CommitApprove(s)
  <2> DEFINE e == txn[s].entry.of
  <2>1. Insert(s, "draft", journal) /\ draft' = [draft EXCEPT ![e].status = "approved"]
    BY <1>7 DEF CommitApprove
  <2>2. e \in Drafts /\ draft[e].status = "pending"
    BY <2>1 DEF Insert, DraftInv, DecidesPending
  <2>3. draft'[e].status = "approved" /\ \A d \in Drafts \ {e} : draft'[d] = draft[d]
    BY <2>1, <2>2 DEF TypeOK, DraftRow
  <2>4. ASSUME NEW d \in Drafts
        PROVE  Cardinality(EntriesOf(d))'
                 = Cardinality(EntriesOf(d)) + (IF e = d THEN 1 ELSE 0)
    BY <1>3, <2>1, InsertCounts
  <2>5. DraftPostsOnce'
    <3> SUFFICES ASSUME NEW d \in Drafts
                 PROVE  Cardinality(EntriesOf(d))'
                          = IF draft'[d].status = "approved" THEN 1 ELSE 0
      BY DEF DraftPostsOnce
    <3>1. Cardinality(EntriesOf(d)) = IF draft[d].status = "approved" THEN 1 ELSE 0
      BY DEF DraftInv, DraftPostsOnce
    <3> QED
      BY <2>2, <2>3, <2>4, <3>1
  <2>6. \A r \in Requests : txn'[r] = Idle
    BY <1>1, <2>1 DEF Insert, End, TypeOK
  <2> QED
    BY <2>5, <2>6 DEF DraftInv, DecidesPending, Idle
<1>8. CASE CommitReject(s)
  <2> DEFINE e == txn[s].draft
  <2>1. e \in Drafts /\ draft[e].status = "pending"
    BY <1>8, Holds DEF CommitReject, DraftInv, DecidesPending
  <2>2. draft'[e].status = "rejected" /\ \A d \in Drafts \ {e} : draft'[d] = draft[d]
    BY <1>8, <2>1 DEF CommitReject, TypeOK, DraftRow
  <2>3. \A d \in Drafts :
          draft'[d].status = "approved" <=> draft[d].status = "approved"
    BY <2>1, <2>2
  <2>4. \A d \in Drafts : EntriesOf(d)' = EntriesOf(d)
    BY <1>8 DEF CommitReject, books, EntriesOf
  <2>5. DraftPostsOnce'
    BY <2>3, <2>4 DEF DraftInv, DraftPostsOnce
  <2>6. \A r \in Requests : txn'[r] = Idle
    BY <1>1, <1>8 DEF CommitReject, End, TypeOK
  <2> QED
    BY <2>5, <2>6 DEF DraftInv, DecidesPending, Idle
<1>9. CASE CommitVoid(s)
  <2> DEFINE earlier == [journal EXCEPT ![txn[s].entry.of].reversed = TRUE]
  <2>1. Insert(s, "void", earlier) /\ draft' = draft
    BY <1>9 DEF CommitVoid
  <2>2. earlier \in Seq(Entry) /\ Len(earlier) = Len(journal)
    BY MarkType
  <2>3. ASSUME NEW k \in DOMAIN journal PROVE earlier[k].of = journal[k].of
    <3>1. journal[k] \in Entry
      BY ElementOfSeq, LenProperties DEF TypeOK
    <3> QED
      BY <3>1 DEF Entry
  <2> HIDE DEF earlier
  <2> QED
    BY <2>1, <2>2, <2>3, InsertOfNone
<1>10. CASE CommitClose(s)
  BY <1>3, <1>10, InsertOfNone DEF CommitClose
<1>11. CASE CommitEmptyClose(s) \/ Rollback(s)
  <2>1. txn'[s] = Idle /\ UNCHANGED <<journal, draft>>
    BY <1>11 DEF CommitEmptyClose, Rollback, End, TypeOK, books
  <2> QED
    BY <1>2, <2>1 DEF DecidesPending, Idle
<1> QED
  BY <1>4, <1>5, <1>6, <1>7, <1>8, <1>9, <1>10, <1>11 DEF Continue

\* One request at a time, whatever the order of parking, approving and rejecting
\* drafts, failed attempts among them: a draft is in the journal once if it was approved,
\* and not at all otherwise.  Voids of documents and year-end closes do not disturb it.
THEOREM DraftsPostOnce == OneRequestAtATime => (Spec => []DraftPostsOnce)
<1> SUFFICES ASSUME OneRequestAtATime PROVE Spec => []DraftPostsOnce
  OBVIOUS
<1>1. Init => TypeOK /\ DraftInv
  BY InitType, DraftsInit
<1>2. TypeOK /\ DraftInv /\ [Next]_vars => (TypeOK /\ DraftInv)'
  <2> SUFFICES ASSUME TypeOK, DraftInv, [Next]_vars PROVE TypeOK' /\ DraftInv'
    OBVIOUS
  <2>1. TypeOK'
    BY NextType
  <2>2. CASE UNCHANGED vars
    <3>1. \A d \in Drafts : EntriesOf(d)' = EntriesOf(d)
      BY <2>2 DEF vars, books, EntriesOf
    <3>2. DraftPostsOnce'
      BY <2>2, <3>1 DEF vars, DraftInv, DraftPostsOnce
    <3> QED
      BY <2>1, <2>2, <3>2 DEF vars, DraftInv, DecidesPending
  <2>3. CASE Next
    BY <2>1, <2>3, DraftsStart, DraftsContinue DEF Next
  <2> QED
    BY <2>1, <2>2, <2>3
<1>3. DraftInv => DraftPostsOnce
  BY DEF DraftInv
<1> QED
  BY <1>1, <1>2, <1>3, PTL DEF Spec

================================================================================
