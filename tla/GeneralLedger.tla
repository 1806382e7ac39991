----------------------------- MODULE GeneralLedger -----------------------------
(****************************************************************************)
(* The general ledger of one fiscal year: postJournal and                   *)
(* postReversingJournal, manual entries and their approval, the closing and *)
(* reopening of months, and the year-end close                              *)
(* (apps/api/src/modules/accounting).                                       *)
(*                                                                          *)
(* A handler that posts reads what it needs (Prepare...), takes the journal *)
(* number and checks the month of the entry (Check), and commits.  From     *)
(* Check on it holds the row of the number series.  The status of a month   *)
(* is changed by plain UPDATEs, which do not wait for that row.             *)
(****************************************************************************)
EXTENDS Integers, FiniteSets, Sequences

CONSTANTS
  Requests,     \* API requests that can be in flight together
  LastMonth,    \* months of the fiscal year
  Income,       \* income accounts
  Expense,      \* expense accounts
  Postings,     \* what an entry can put on the income and expense accounts
  NeedApproval, \* the postings at or above journalApprovalThresholdCents
  Drafts,       \* identities for rows of journal_entry_drafts
  Handlers,     \* the endpoints in use
  MaxEntries    \* bound on the number of entries

Months == 1 .. LastMonth

\* Amounts are signed: a debit is positive.  The lines on balance sheet accounts
\* are whatever balances the entry, and are left out.
Accounts == Income \cup Expense
Lines == [Accounts -> Int]

AllHandlers == {"manual", "approve", "reject", "document", "void",
                "soft-close", "reopen", "close-year"}

ASSUME BoundsAssumption == LastMonth \in Nat \ {0} /\ MaxEntries \in Nat
ASSUME AccountsAssumption == Income \cap Expense = {}
ASSUME PostingsAssumption == NeedApproval \subseteq Postings /\ Postings \subseteq Lines
ASSUME HandlersAssumption == Handlers \subseteq AllHandlers
\* The id of a draft is none of an entry.
ASSUME DraftsAssumption == \A d \in Drafts : d \notin Nat

VARIABLES
  status,   \* per month, fiscal_periods.status
  closing,  \* closing_journal_entry_id of the last month, 0 for NULL
  journal,  \* the committed entries, in the order of their numbers
  balance,  \* per account, what its lines in the journal add up to
  draft,    \* rows of journal_entry_drafts
  lock,     \* the requests that hold the row of the journal's number series
  txn       \* the requests in flight

months == <<status, closing>>
books == <<journal, balance>>
vars == <<months, books, draft, lock, txn>>

--------------------------------------------------------------------------------
\* Rows

Sources == {"manual", "draft", "document", "void", "year_close"}

\* of is the draft or the entry that this entry comes from, 0 if there is none.
Entry ==
  [source : Sources, of : Drafts \cup Nat, month : Months, lines : Lines,
   reversed : BOOLEAN]

NewEntry(source, of, month, lines) ==
  [source |-> source, of |-> of, month |-> month, lines |-> lines,
   reversed |-> FALSE]

DraftRow ==
  [status : {"absent", "pending", "approved", "rejected"}, month : Months, lines : Lines]

NoLines == [a \in Accounts |-> 0]
NoDraft == [status |-> "absent", month |-> 1, lines |-> NoLines]

\* What a request in flight knows: the entry it is going to post, the draft it
\* is going to reject, or that it found no month of the year hard-closed.
Idle == [stage |-> "idle"]

Transactions ==
  {Idle}
    \cup [stage : {"prepared", "checked"}, entry : Entry]
    \cup [stage : {"rejecting"}, draft : Drafts]
    \cup [stage : {"closing", "sealing"}]

\* Mutant: the id of the entry after.
EntryIdAhead == Len(journal) + 2

\* The id the next entry gets.
EntryId == Len(journal) + 1

TypeOK ==
  /\ status \in [Months -> {"open", "soft_closed", "closed"}]
  /\ closing \in 0 .. Len(journal)
  /\ journal \in Seq(Entry)
  /\ balance \in Lines
  /\ draft \in [Drafts -> DraftRow]
  /\ lock \subseteq Requests
  /\ txn \in [Requests -> Transactions]

Init ==
  /\ status = [m \in Months |-> "open"]
  /\ closing = 0
  /\ journal = <<>>
  /\ balance = NoLines
  /\ draft = [d \in Drafts |-> NoDraft]
  /\ lock = {}
  /\ txn = [s \in Requests |-> Idle]

--------------------------------------------------------------------------------
\* What the handlers test and compute

\* resolveAndCheckPeriod
Postable(m) == status[m] = "open"

\* Mutant: numbers from a PostgreSQL sequence, which locks nothing.
NoWait == TRUE

\* SELECT ... FOR UPDATE on the number series waits for its holder to end.
RowFree == lock = {}

\* Mutant: any draft that was not rejected.
NotRejected(d) == draft[d].status \in {"pending", "approved"}

\* A draft can be decided.
Pending(d) == draft[d].status = "pending"

\* An entry that can be reversed: a document's, not reversed yet.
Reversible(k) == journal[k].source = "document" /\ ~journal[k].reversed

\* The mirror of an entry.
Mirror(lines) == [a \in Accounts |-> -lines[a]]

\* Mutant: expense accounts are forgotten.
ZeroIncome(bal) ==
  [a \in Accounts |-> IF a \in Income /\ bal[a] < 0 THEN -bal[a] ELSE 0]

\* The lines that zero the year: for income accounts with a credit balance and
\* expense accounts with a debit balance.
ZeroOut(bal) ==
  [a \in Accounts |->
     IF (a \in Income /\ bal[a] < 0) \/ (a \in Expense /\ bal[a] > 0)
     THEN -bal[a] ELSE 0]

--------------------------------------------------------------------------------
\* Steps of a posting

End(s) == txn' = [txn EXCEPT ![s] = Idle]

Begin(s, t) ==
  /\ txn[s] = Idle
  /\ txn' = [txn EXCEPT ![s] = t]
  /\ UNCHANGED <<months, books, draft, lock>>

Prepare(s, entry) == Begin(s, [stage |-> "prepared", entry |-> entry])

\* postJournal, up to the insert: the number, then the status of the month.
Check(s) ==
  /\ txn[s].stage = "prepared"
  /\ Len(journal) < MaxEntries
  /\ RowFree
  /\ Postable(txn[s].entry.month)
  /\ lock' = lock \cup {s}
  /\ txn' = [txn EXCEPT ![s] = [stage |-> "checked", entry |-> txn[s].entry]]
  /\ UNCHANGED <<months, books, draft>>

\* The insert of an entry of that source behind the earlier ones, and COMMIT.
Insert(s, source, earlier) ==
  LET entry == txn[s].entry IN
  /\ txn[s].stage = "checked"
  /\ entry.source = source
  /\ journal' = Append(earlier, entry)
  /\ balance' = [a \in Accounts |-> balance[a] + entry.lines[a]]
  /\ lock' = lock \ {s}
  /\ End(s)

Rollback(s) ==
  /\ txn[s] # Idle
  /\ lock' = lock \ {s}
  /\ End(s)
  /\ UNCHANGED <<months, books, draft>>

--------------------------------------------------------------------------------
\* Manual entries and their approval

\* POST /journal-entries below the threshold, and the post handler of a document
PreparePost(s, source, m, lines) ==
  /\ source \in Handlers
  /\ source = "manual" => lines \notin NeedApproval
  /\ Prepare(s, NewEntry(source, 0, m, lines))

CommitPost(s) ==
  /\ \E source \in {"manual", "document"} : Insert(s, source, journal)
  /\ UNCHANGED <<months, draft>>

\* POST /journal-entries at or above it
Park(s, d, m, lines) ==
  /\ "manual" \in Handlers
  /\ txn[s] = Idle
  /\ draft[d].status = "absent"
  /\ draft' = [draft EXCEPT
       ![d] = [status |-> "pending", month |-> m, lines |-> lines]]
  /\ UNCHANGED <<months, books, lock, txn>>

\* POST /journal-entries/drafts/:id/approve
PrepareApprove(s, d) ==
  /\ "approve" \in Handlers
  /\ Pending(d)
  /\ Prepare(s, NewEntry("draft", d, draft[d].month, draft[d].lines))

CommitApprove(s) ==
  /\ Insert(s, "draft", journal)
  /\ draft' = [draft EXCEPT ![txn[s].entry.of].status = "approved"]
  /\ UNCHANGED months

\* POST /journal-entries/drafts/:id/reject
PrepareReject(s, d) ==
  /\ "reject" \in Handlers
  /\ Pending(d)
  /\ Begin(s, [stage |-> "rejecting", draft |-> d])

CommitReject(s) ==
  /\ txn[s].stage = "rejecting"
  /\ draft' = [draft EXCEPT ![txn[s].draft].status = "rejected"]
  /\ End(s)
  /\ UNCHANGED <<months, books, lock>>

--------------------------------------------------------------------------------
\* postReversingJournal, from the void handler of the document

PrepareVoid(s, k, m) ==
  /\ "void" \in Handlers
  /\ Reversible(k)
  /\ Prepare(s, NewEntry("void", k, m, Mirror(journal[k].lines)))

CommitVoid(s) ==
  /\ Insert(s, "void", [journal EXCEPT ![txn[s].entry.of].reversed = TRUE])
  /\ UNCHANGED <<months, draft>>

--------------------------------------------------------------------------------
\* Fiscal periods

\* POST /periods/:id/soft-close and /reopen: one UPDATE each, guarded by status
SetStatus(s, m, handler, from, to) ==
  /\ handler \in Handlers
  /\ txn[s] = Idle
  /\ status[m] \in from
  /\ status' = [status EXCEPT ![m] = to]
  /\ UNCHANGED <<closing, books, draft, lock, txn>>

SoftClose(s, m) == SetStatus(s, m, "soft-close", {"open"}, "soft_closed")
Reopen(s, m) == SetStatus(s, m, "reopen", {"soft_closed", "closed"}, "open")

\* POST /periods/close-year: reads the months, then sums up the year.
PrepareClose(s) ==
  /\ "close-year" \in Handlers
  /\ \A m \in Months : status[m] # "closed"
  /\ Begin(s, [stage |-> "closing"])

ReadBalances(s) ==
  /\ txn[s].stage = "closing"
  /\ LET lines == ZeroOut(balance) IN
     txn' = [txn EXCEPT ![s] =
       IF lines = NoLines
       THEN [stage |-> "sealing"]
       ELSE [stage |-> "prepared",
             entry |-> NewEntry("year_close", 0, LastMonth, lines)]]
  /\ UNCHANGED <<months, books, draft, lock>>

\* Every month of the year is closed, whatever its status has become.
Seal(entry) ==
  /\ status' = [m \in Months |-> "closed"]
  /\ closing' = entry

CommitClose(s) ==
  /\ Insert(s, "year_close", journal)
  /\ Seal(EntryId)
  /\ UNCHANGED draft

\* A year without balances closes without an entry, and so without the number.
CommitEmptyClose(s) ==
  /\ txn[s].stage = "sealing"
  /\ Seal(0)
  /\ End(s)
  /\ UNCHANGED <<books, draft, lock>>

--------------------------------------------------------------------------------
Start(s) ==
  \/ \E m \in Months :
       \/ \E source \in {"manual", "document"}, lines \in Postings :
            PreparePost(s, source, m, lines)
       \/ \E d \in Drafts, lines \in NeedApproval : Park(s, d, m, lines)
       \/ \E k \in DOMAIN journal : PrepareVoid(s, k, m)
       \/ SoftClose(s, m)
       \/ Reopen(s, m)
  \/ \E d \in Drafts : PrepareApprove(s, d) \/ PrepareReject(s, d)
  \/ PrepareClose(s)

Continue(s) ==
  \/ ReadBalances(s)
  \/ Check(s)
  \/ CommitPost(s)
  \/ CommitApprove(s)
  \/ CommitReject(s)
  \/ CommitVoid(s)
  \/ CommitClose(s)
  \/ CommitEmptyClose(s)
  \/ Rollback(s)

Next == \E s \in Requests : Start(s) \/ Continue(s)

Spec == Init /\ [][Next]_vars

--------------------------------------------------------------------------------
\* Properties

Posted == DOMAIN journal' \ DOMAIN journal   \* in an action: the new entries

\* The year-end close posts under the number that every posting waits for: into
\* a year closed with an entry nothing is posted until it is reopened, however
\* requests interleave.
Sealed(m) == closing # 0 /\ status[m] = "closed"
SealedYear == [][\A k \in Posted : ~Sealed(journal'[k].month)]_vars

\* The inductive invariant behind it: whoever has checked a month holds the row.
SealedInv ==
  \A s \in Requests :
    txn[s].stage = "checked" => lock = {s} /\ ~Sealed(txn[s].entry.month)

\* While the whole year is closed, its closing entry is the last word in it: the
\* entry that closing_journal_entry_id names comes after every entry it sums up,
\* also when several requests close and reopen the year.
YearClosed == \A m \in Months : status[m] = "closed"

ClosingIsLast ==
  YearClosed /\ closing # 0 =>
    closing = Len(journal) /\ journal[closing].source = "year_close"

\* docs/accounting/period-lock.md: "every income and expense account is zeroed
\* out".
ClosedYearIsZero == YearClosed => balance = NoLines

\* The inductive invariant behind it when one request runs at a time and entries
\* only ever move accounts to their normal side: so do the drafts and the entry
\* in flight, and a closing entry is still the negative of the balances.
OneRequestAtATime == \A s, t \in Requests : s = t

Normal(lines) ==
  /\ \A a \in Income : lines[a] <= 0
  /\ \A a \in Expense : lines[a] >= 0

NormalBusiness == "void" \notin Handlers /\ \A lines \in Postings : Normal(lines)

InFlightIsCurrent(t) ==
  /\ t.stage = "sealing" => balance = NoLines
  /\ t.stage \in {"prepared", "checked"} =>
       CASE t.entry.source = "year_close" -> t.entry.lines = Mirror(balance)
         [] t.entry.source = "void"       -> FALSE
         [] OTHER                         -> Normal(t.entry.lines)
  /\ t.stage = "checked" => status[t.entry.month] = "open"

YearInv ==
  /\ Normal(balance)
  /\ \A d \in Drafts : Normal(draft[d].lines)
  /\ \A s \in Requests : InFlightIsCurrent(txn[s])
  /\ ClosedYearIsZero

\* A draft is in the journal once if it was approved, and else not at all.
EntriesOf(d) == {k \in DOMAIN journal : journal[k].of = d}

DraftPostsOnce ==
  \A d \in Drafts :
    Cardinality(EntriesOf(d)) = IF draft[d].status = "approved" THEN 1 ELSE 0

\* The inductive invariant behind it when one request runs at a time: the draft that
\* the request is going to post or to reject still waits for its decision, and no
\* other request is going to post a draft.
DecidesPending(t) ==
  /\ t.stage \in {"prepared", "checked"} =>
       IF t.entry.source = "draft"
       THEN t.entry.of \in Drafts /\ draft[t.entry.of].status = "pending"
       ELSE t.entry.of \in Nat
  /\ t.stage = "rejecting" => draft[t.draft].status = "pending"

DraftInv ==
  /\ \A s \in Requests : DecidesPending(txn[s])
  /\ DraftPostsOnce

================================================================================
