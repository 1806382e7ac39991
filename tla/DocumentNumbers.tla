---------------------------- MODULE DocumentNumbers ----------------------------
(****************************************************************************)
(* One document number series of a tenant: the row of document_sequences,   *)
(* next_document_number() and PATCH /settings/number-series/:name.          *)
(*                                                                          *)
(* A transaction takes its number with SELECT ... FOR UPDATE, so from there *)
(* to its end it holds the row, and what it wrote is rolled back with it.   *)
(* current_date is the day the transaction began, not the day it gets the   *)
(* lock.  Periods are years or months, as the scope of the series says.     *)
(****************************************************************************)
EXTENDS Integers, FiniteSets

CONSTANTS
  Requests,          \* transactions that can be in flight together
  LastPeriod,        \* bound on the periods that go by
  MaxCounter,        \* bound on the counter
  None               \* nobody holds the row

ASSUME BoundsAssumption == LastPeriod \in Nat \ {0} /\ MaxCounter \in Nat
ASSUME NobodyAssumption == None \notin Requests

VARIABLES
  seq,     \* the committed row: period (0 is NULL) and counter
  lock,    \* the request that holds the row
  issued,  \* numbers on committed documents, as <<period, counter>>
  today,   \* the current period
  txn,     \* the requests in flight
  skipped, \* history: a number was spent without a document, or skipped by hand
  stale    \* history: the row was overwritten from what it held before

vars == <<seq, lock, issued, today, txn, skipped, stale>>

Periods == 1 .. LastPeriod
Counters == 0 .. MaxCounter

\* A request has the period it began in, and the counter it was given.
Txn(stage, date, counter) ==
  [stage |-> stage, date |-> date, counter |-> counter]

Idle == Txn("idle", 0, 0)

\* An edit has the counter it saw, and the one it wants.
Patching(seen, counter) ==
  [stage |-> "patching", seen |-> seen, counter |-> counter]

Transactions ==
  {Idle}
    \cup [stage : {"begun"}, date : Periods, counter : {0}]
    \cup [stage : {"numbered"}, date : Periods, counter : 1 .. MaxCounter]
    \cup [stage : {"patching"}, seen : Counters, counter : Counters]

TypeOK ==
  /\ seq \in [period : Periods \cup {0}, counter : Counters]
  /\ lock \in Requests \cup {None}
  /\ issued \subseteq Periods \X (1 .. MaxCounter)
  /\ today \in Periods
  /\ txn \in [Requests -> Transactions]
  /\ skipped \in BOOLEAN /\ stale \in BOOLEAN

Init ==
  /\ seq = [period |-> 0, counter |-> 0]
  /\ lock = None
  /\ issued = {}
  /\ today = 1
  /\ txn = [s \in Requests |-> Idle]
  /\ skipped = FALSE /\ stale = FALSE

--------------------------------------------------------------------------------
\* Mutant: no reset at a period boundary.
NeverReset(date) == seq.counter

\* Mutant: the counter read back is the one before.
BaseBehind(date) == IF seq.period = date THEN seq.counter ELSE -1

\* The counter a request of that date counts on from.
Base(date) == IF seq.period = date THEN seq.counter ELSE 0

\* format_document_number, with a template that shows the period of the series:
\* it prints the period of the request.
Number(date, n) == <<date, n>>

End(s) == txn' = [txn EXCEPT ![s] = Idle]

Midnight ==
  /\ today < LastPeriod
  /\ today' = today + 1
  /\ UNCHANGED <<seq, lock, issued, txn, skipped, stale>>

Begin(s) ==
  /\ txn[s] = Idle
  /\ txn' = [txn EXCEPT ![s] = Txn("begun", today, 0)]
  /\ UNCHANGED <<seq, lock, issued, today, skipped, stale>>

\* next_document_number: waits for the row, reads what is committed by then.
Allocate(s) ==
  /\ txn[s].stage = "begun"
  /\ lock = None
  /\ Base(txn[s].date) < MaxCounter
  /\ lock' = s
  /\ txn' = [txn EXCEPT
       ![s] = Txn("numbered", txn[s].date, Base(txn[s].date) + 1)]
  /\ UNCHANGED <<seq, issued, today, skipped, stale>>

\* The row as the request has written it becomes visible.  A request that began
\* before midnight moves the row back, if one that began after it was faster.
Release(s) ==
  /\ txn[s].stage = "numbered"
  /\ seq' = [period |-> txn[s].date, counter |-> txn[s].counter]
  /\ stale' = (stale \/ txn[s].date < seq.period)
  /\ lock' = None
  /\ End(s)
  /\ UNCHANGED today

\* The document commits with its number; the unique index on the document's
\* number lets no second one through.
Commit(s) ==
  LET number == Number(txn[s].date, txn[s].counter) IN
  /\ Release(s)
  /\ number \notin issued
  /\ issued' = issued \cup {number}
  /\ UNCHANGED skipped

\* An error returned from the withTenant callback commits the row alone.
Refuse(s) ==
  /\ Release(s)
  /\ skipped' = TRUE
  /\ UNCHANGED issued

Rollback(s) ==
  /\ txn[s] # Idle
  /\ lock' = IF lock = s THEN None ELSE lock
  /\ End(s)
  /\ UNCHANGED <<seq, issued, today, skipped, stale>>

\* Mutant: the counter may be set to anything.
AnyCounter(n) == TRUE

\* The counter may not go backwards.
ForwardOnly(n) == seq.counter <= n

\* PATCH /number-series/:name with a counter: the check reads the row without a
\* lock, the UPDATE waits for it.
ReadCounter(s, n) ==
  /\ txn[s] = Idle
  /\ ForwardOnly(n)
  /\ txn' = [txn EXCEPT ![s] = Patching(seq.counter, n)]
  /\ UNCHANGED <<seq, lock, issued, today, skipped, stale>>

PatchCounter(s) ==
  /\ txn[s].stage = "patching"
  /\ lock = None
  /\ seq' = [seq EXCEPT !.counter = txn[s].counter]
  /\ skipped' = TRUE
  /\ stale' = (stale \/ txn[s].seen < seq.counter)
  /\ End(s)
  /\ UNCHANGED <<lock, issued, today>>

Next ==
  \/ Midnight
  \/ \E s \in Requests :
       \/ Begin(s) \/ Allocate(s)
       \/ Commit(s) \/ Refuse(s) \/ Rollback(s)
       \/ \E n \in 0 .. MaxCounter : ReadCounter(s, n)
       \/ PatchCounter(s)

Spec == Init /\ [][Next]_vars

--------------------------------------------------------------------------------
\* Properties

\* As long as every number commits with its document, as the journal's numbers do
\* that postJournal takes, the series is gapless in every period, whatever requests
\* are in flight at midnight and however they overlap.
Series == INSTANCE NumberSeries WITH Numbers <- 1 .. MaxCounter
GaplessSeries == Series!Spec

\* The next request will not be given a number that a document carries already,
\* whose unique index would roll back every posting from then on: unless the row
\* was overwritten from what it held before, by an edit whose check was overtaken
\* or by a request that began before midnight.
NextIsFresh ==
  LET next == Number(today, Base(today) + 1) IN stale \/ next \notin issued

\* The inductive invariants behind them.  The request that holds the row has the
\* number after it; as long as none was skipped, the row is what the documents of
\* its period add up to; and as long as it is not stale, it is at or after every
\* document of its period, and no document is of a later one.
UpTo(p, n) == \A m \in 1 .. MaxCounter : <<p, m>> \in issued <=> m <= n

HolderInv ==
  \A s \in Requests : txn[s].stage = "numbered" =>
    lock = s /\ txn[s].counter = Base(txn[s].date) + 1

SeriesInv ==
  skipped \/ /\ \A p \in Periods : \E n \in 0 .. MaxCounter : UpTo(p, n)
             /\ seq.period # 0 => UpTo(seq.period, seq.counter)

FreshInv ==
  /\ seq.period <= today
  /\ \A s \in Requests :
       /\ txn[s].stage \in {"begun", "numbered"} => txn[s].date <= today
       /\ txn[s].stage = "patching" => txn[s].seen <= txn[s].counter
  /\ stale \/ \A number \in issued :
       \/ number[1] < seq.period
       \/ number[1] = seq.period /\ number[2] <= seq.counter
================================================================================
