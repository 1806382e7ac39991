# PettahPro: specifications, model checks and proofs

PettahPro is accounting software for small Sri Lankan businesses: a Fastify API
(`apps/api`), a BullMQ worker, PostgreSQL with row-level security
(`docker/postgres/init`, `packages/db`) and a Next.js front end. The repository has no
tests. What can go wrong in it is mostly not in one function: documents, control
accounts, number series, periods and approvals are kept in step by handlers that each
run in one READ COMMITTED transaction, read their rows without locks, and are called
in any order by several users at a time.

This directory models those handlers in TLA+, checks them with TLC on small instances
and proves the results that matter most, for every instance, with TLAPS.

    tlc -workers 2 -config serial_books.cfg MCReceivables
    tlapm ReceivablesProofs.tla

`PROJECT.json` lists the components, the runs, the source lines each definition
stands for, the hazards, the findings and the theorems.

Contents: [modules](#the-modules) · [the transaction model](#how-a-handler-is-modelled) ·
[Receivables](#receivables) · [DocumentNumbers](#documentnumbers) ·
[GeneralLedger](#generalledger) · [Subscription](#subscription) · [Stock](#stock) ·
[Approvals](#approvals) · [Payroll](#payroll) · [Recurring](#recurring) ·
[proofs](#what-is-proved) ·
[findings](#where-the-code-and-its-documentation-disagree) ·
[inventory](#inventory-of-the-system) · [plan](#plan) · [limits](#what-is-not-modelled)

## The modules

| module | what it is | checked through | proved in |
|---|---|---|---|
| `Receivables` | sales invoices, customer payments, received cheques, credit notes, credit hold, and what each handler posts to AR, Bank-in-Clearing and the bank | `MCReceivables` | `ReceivablesProofs` |
| `NumberSeries` | what a gapless series of document numbers promises (abstract) | – | – |
| `DocumentNumbers` | one row of `document_sequences`: allocation under its row lock, period reset, edit of the counter; implements `NumberSeries` | `MCDocumentNumbers` | `DocumentNumbersProofs` |
| `GeneralLedger` | one fiscal year of the journal: posting, reversal, approval of manual entries, closing and reopening of months, year-end close | `MCGeneralLedger` | `GeneralLedgerProofs` |
| `Subscription` | one tenant's subscription: the daily jobs that expire trials, roll periods and charge the card, the tenant's plan picker, the operators' dunning console; crashes of the worker, late jobs, liveness | `MCSubscription` | `SubscriptionProofs` |
| `Stock` | quantity and weighted average value per item and warehouse, moved by bills, invoices, transfers and counts, with refusals half-way and void | `MCStock` | `StockProofs` |
| `DocumentLife` | what the life of a document promises once it is out or cancelled (abstract) | – | – |
| `Approvals` | the approval engine and the documents that go through it: submit, decide, withdraw, cancel, edit, issue; implements `DocumentLife` | `MCApprovals` | `ApprovalsProofs` |
| `Payroll` | payroll runs, the staff loans they recover, the expense claims they reimburse | `MCPayroll` | `PayrollProofs` |
| `Recurring` | templates of invoices, bills and journals, the hourly jobs that make a document per cycle, generate-now and the other endpoints; crashes of the worker, liveness | `MCRecurring` | `RecurringProofs` |

The MC modules only give constants their values. Operators whose comment begins with
"Mutant:" are the definition below them as a plausible bug would have it; no action
uses them. They document what each property is sensitive to: put in the place of the
real operator, the property named in `PROJECT.json` fails.

## How a handler is modelled

`withTenant` (`packages/db/src/client.ts`) opens a transaction, sets the tenant, runs
the handler's callback and commits when the callback **returns**, whatever it returns.
Only a throw rolls back. Two consequences shape every module:

* A handler that has written something and then does `return { error: ... }` commits
  what it wrote. The models have an action for it (`CommitPostRefused`, `Refuse`).
* Documents are read by plain SELECTs. The only row lock that handlers share is the one
  `next_document_number` takes on the row of the series (`SELECT ... FOR UPDATE`). Each
  posting takes the number of the `journal` series inside `postJournal`, so two
  postings of one tenant serialise from there to the end of the transaction, and
  only from there.

A posting handler is therefore two or three actions. `Request...` / `Prepare...` reads
and validates; what it has read is kept in `txn[s]`. `Check`, where the module needs
it, is the wait for the number row and the test of the period. `Commit...` is
everything from there to COMMIT in one step. What the code reads after the lock is read
from the state in `Commit`, what it read before is taken from `txn[s]`, and the guards
of `Commit` are only those that the database enforces at that point (unique indexes,
CHECK constraints, the wait for the lock). `Rollback(s)` stands for every throw and
every lost connection. A request that commits with a single UPDATE is one action.

`Requests` is the set of requests in flight. With one element the model is the code
run one request at a time, which is what a test would exercise; with more, requests
interleave at the points where the code lets them.

The newer modules name the two halves `Begin` (what is read without a lock) and the
operation itself, which is the write and commit in one step. Where a handler writes by id
what it decided on a row that has changed since, its documents are put in a history set
(`late`, `overtaken`, `astray`): the code has no protection against it, the
disagreements below tell what happens, and the properties are about all the documents
that no such write touched. A request that comes second *and is stopped by the database*,
through a unique index or a CHECK, is not in the set: that this suffices is what many of
the properties say.

Only `Subscription` and `Recurring` state fairness, since only there does something happen
without a user: see those sections. Everything else is safety, and a request may always stay
in flight or roll back. `CHECK_DEADLOCK FALSE` is set where a run ends at a bound.

## Receivables

`apps/api/src/modules/sell/{invoices,invoice-posting,payments,credit-notes}.ts`,
`cheques/routes.ts`, `flag_stale_cheques()`, and hold/unhold of a customer.

**State.** `inv` is the row of an invoice: status, `amount_paid_cents`,
`balance_due_cents`, write-off amounts (principal and VAT relief together) and `entry`,
the number of sale entries it has posted, the latest of which is its `journal_entry_id`;
`reversed` holds the ones whose `is_reversed` is set. `receipt` is a customer payment with
its allocations and its cheque, `cn` a credit note, `hold` the customer's credit hold. The
ledger is `ar` (the AR account, split by the invoice a line belongs to), `standing`
(credit left unapplied on a credit note), `clearing` and `bank` (per receipt). Splitting
an account by document loses nothing: the account is the sum, and a per-document
invariant is the stronger statement.

**Actions.**

| action | code |
|---|---|
| `RequestPost`, `CommitPost`, `CommitPostRefused` | `postDraftInvoice`; the last when `applyStockIssue` refuses a line after the entry is in |
| `RequestVoid`, `CommitVoid` | `POST /invoices/:id/void` |
| `RequestWriteOff`, `CommitWriteOff`, `RequestReverse`, `CommitReverse` | write-off and its reversal |
| `RequestPay`, `CommitPay` | `POST /payments`, cash or cheque, several allocations |
| `CreateCreditNote`, `RequestCredit`, `CommitCredit` | draft and post of a credit note |
| `RequestClear`, `CommitClear`, `RequestBounce`, `CommitBounce` | outcome of a deposited cheque |
| `FlagStale` | the daily sweep, and its on-demand endpoint |
| `SetHold` | `POST /customers/:id/hold`, `/unhold` |

An invoice starts as a draft: creating and editing drafts has no ledger effect. Income,
tax and stock legs of an entry, commissions and foreign currency are left out; they
balance against AR and no property looks at them. So are the bank's fees for a bounce,
which are a pair of lines of their own.

**Properties that hold.**

* `TypeOK`: beside the types, no balance and no amount paid becomes negative.
* `ReceivableTies`: the AR account holds for each invoice exactly the balance of its
  row. Six handlers move the two sides by different code; the property takes a
  payment, a bounce, a write-off and its reversal in an awkward order to break.
  Two kinds of invoice are outside of it, because the code does break it for them:
  one whose latest sale entry has been reversed (voided, perhaps after a bounce
  revived a write-off) and one whose stock issue can be refused.
* `PaidIsCollected`: `amount_paid` is the sum of live allocations and applied credit.
* `ClearingTies`: Bank-in-Clearing holds exactly the cheques still on their way, the
  bank exactly the money that arrived, also with bounces and the sweep in flight. It breaks
  only where `clear` overlaps with another outcome of the same cheque.
* `CreditLimitRespected` (one request at a time): open receivables rise above the limit
  only by money taken back, a bounced cheque or a write-off that ends.
* `RowAddsUp` (concurrent): paid and due make the total even when updates are lost.
  It says that a lost payment is *invisible* in the row, so a per-row audit will not
  find it; compare `NoOverCollection`, which fails.
* `TwoBouncesHold` (concurrent): two bounces in parallel cannot count each other out.

**Runs.** `serial_books`: one customer with a limit of 2, two invoices of 2 and 1, two
receipts of up to 2, one credit note, every endpoint, at most 8 entries. One
receipt can cover both invoices or part of one, so that partial payment, exact
payment, two payments on one invoice, and a bounce of either occur before and after a
write-off, a reversal or a credit note. The limit is tight: both invoices can be open
together only after a payment on the first, and a bounce can then exceed it, which is
not a post and is allowed. Eight entries are enough to post, pay twice,
bounce, write off, reverse and credit. Interactions between three or more invoices go only
through the customer's open balance, a sum for which two terms suffice; that the tie
holds for any number is a theorem. `concurrent_collections`: one invoice,
two requests, `post pay credit bounce stale`. The endpoints left out are those for which
a race is known to break the property (the runs below), so what is shown is the
part of the system that is safe under concurrency. `clear` is among them:
a cheque that clears and bounces in parallel breaks `ClearingTies`.

## DocumentNumbers

`next_document_number()` in `49-number-series.sql` and `PATCH
/settings/number-series/:name`.

**State.** `seq` is the committed row (period, counter; period 0 is NULL), `lock` the
transaction that holds it, `issued` the numbers on committed documents, `today` the
period the clock is in, `txn` the requests, each with the period it *began* in:
PostgreSQL's `current_date` is the date of the transaction start, so a request that waits
over midnight still counts in the old period. Periods are years or months according
to the scope; the reset logic is the same code. Two histories: `skipped`, a number was spent
without a document or skipped by hand; `stale`, the row was overwritten from what it held
before.

**Actions.** `Begin`, `Allocate` (wait for the row, reset if the period differs,
increment), `Commit` (document and row together, under the unique index on the
document's number), `Refuse` (an error is returned after the number was taken: the row
commits alone), `Rollback` (number returned), `ReadCounter` / `PatchCounter` (the check
that the counter does not go backwards, and the UPDATE, which waits), `Midnight`.

**Properties that hold.** `GaplessSeries`: the series implements `NumberSeries`, i.e. until
a number is skipped the documents of every period are numbered 1, 2, 3, ... in commit
order. It holds even for requests that straddle midnight, where it rests on the unique
index, not on the lock: the reset tests `IS DISTINCT FROM`, so a straggler can move the row
*back* to the old year and the next request then starts the new year again at 1.
`NextIsFresh`: after any refusals and edits the next number is on no document, as long as
the row is not `stale`. The two ways it can become so, an edit overtaken by a posting and the
straggler, are defects (see the disagreements), and are the only two.

**Run.** `number_series`: three requests, three periods, counters up to 3, with refusals and
edits; three requests so that one holds the row while a straggler of the old and a request
of the new period wait, 3.7 million states.

Templates, prefixes, widths and scope changes are not modelled; a template is taken to
show the period of its scope, as the default ones do.

## GeneralLedger

`journal-posting.ts`, `reversing-journal.ts`, `periods.ts`, `journal-entries.ts`.

**State.** `status` of each month and `closing` (`closing_journal_entry_id`) of the
last; `journal`, the committed entries in number order, each with source, origin,
month, lines on income and expense accounts and `is_reversed`; `balance`,
what the lines add up to; `draft`, the rows of `journal_entry_drafts`; `lock`, who holds
the number row; `txn`. Lines on balance-sheet accounts are whatever balances the entry:
`postJournal` refuses an unbalanced one before it takes a number, and `close-year` puts the
difference on retained earnings.

**Actions.** `PreparePost` / `CommitPost` for manual entries below the approval threshold
and for documents; `Park`, `PrepareApprove` / `CommitApprove`, `PrepareReject` /
`CommitReject` for the others; `PrepareVoid` / `CommitVoid` for
`postReversingJournal`; `SoftClose`, `Reopen`; `PrepareClose`, `ReadBalances`,
`CommitClose`, `CommitEmptyClose` for the year end, whose statements see different
states: the months first, then the sums, then (under the lock) the month it posts to. A
close that finds nothing to transfer takes no number, hence does not wait for anyone.
`Check` is common to every posting.

**Properties that hold.**

* `SealedYear` (concurrent): into a year closed with an entry nothing is posted until it
  is reopened. The check of the month is an unlocked read, yet for a *year* close it
  is safe, because the close holds the number row from its own check to its commit
  and every other posting checks after it got that row. The same is *not* true for
  `soft-close`, which posts nothing and so takes no number.
  Two users who close one year transfer its profit once for the same reason: the
  second finds the last month closed when it gets the row.
* `ClosingIsLast` (concurrent): while the year is closed, the entry that
  `closing_journal_entry_id` names is the closing entry and the last entry of the journal,
  also when two closes, one with and one without an entry, and reopenings overlap.
* `ClosedYearIsZero` (one request at a time, without voids): any sequence of posts,
  closes, reopenings and closes leaves zero on income and expense accounts.
* `DraftPostsOnce` (one request at a time): a draft is posted once, and only if it was
  approved and not rejected.

**Runs.** `year_end`: two months, one income and one expense account, one draft, one
request, four entries, so that a draft, its approval, close, reopen, post and close fit.
`year_end_concurrent`: two requests, three entries: a close, the
entry it races and one more. Two months are enough to tell the
last one, which takes the closing entry, from the others; accounts do not interact.

Left out: the creation of a period on first use and its cut-off, drafts decided by
the approval engine, cost centres.

## Subscription

`subscription/{trial-expiry,renewal-cron,dunning-cron,routes}.ts`,
`platform-admin/dunning-routes.ts`, the schedule in `worker.ts`.

**State.** `sub` is the row of `tenant_subscriptions` with its four dates (end of trial, end
of period, `next_billing_attempt_at`, end of a pause) and `failed_payment_attempts`; `job`
is the dunning job, with the columns it read when it made its list; `request` a call of
the tenant or an operator that has read the row; `card` whether the bank accepts the card;
`paused` the switch of the dunning policy. Dates are days from today: `Day` takes one from
each, so no clock is needed and the runs are infinite, which the liveness
properties want.

**Actions.** `ExpireTrial`, `CancelLapsed` (`runTrialExpiryJob`), `AutoResume`, `Rollover`
(`runRenewalCron`), each one UPDATE that commits by itself; `Select`, `Skip`, `Charge`,
`Settle` (`runDunningCron`: the list, the paused policy, the call of the gateway, the write
of its answer by id); `Crash`; `Request` then `ChangePlan`, `AssignPlan`, `Pause`,
`Resume`, `MarkPaid`; the single guarded statements `RetryNow`, `SuspendNow`; `SetPolicy`;
`CardChanges`; `Day`. The worker has concurrency 1, so no other job runs while the
dunning job is between two rows; requests do.

**Properties that hold.** `ChargedOnce`: a period is charged once, plus once for each crash
and each retry-now. `DeclinesBounded`: a bad card is tried as often as the policy says, across
periods, pauses and plans, because `Rollover` does not reset the counter: if it did,
a card could be tried for ever. `PastDueResolves` (past due leads to something else) and
`UnpaidIsCancelled` (a tenant who never pays ends up cancelled or paused): both
rest on `Rollover` setting the next attempt, without which a subscription whose attempt date
was never set stays past due, or active, for good.

**Fairness.** `WF` of `Day`: time passes. A day may not end while a row is `MaxLate` days
late for its job: jobs come late, but not never. `SF` of each daily job: BullMQ's queue is
first in first out, so a job that is enabled again and again gets its turn even if others
go in between. `WF` of the steps of a job or request that has begun: it is running code. No
fairness for tenant, bank, operators or crashes.

**Run.** `billing`: periods of 3 and 4 days, a trial of 1, retries after 1 and 2 days and
suspension at the third failure, as three is the least number that tells first, middle and
last attempt; jobs up to a day late, two acts of tenant, bank and operators and one
crash. Two acts are enough for each pair (pause and resume, retry-now and card change, ...) to
fall on each side of each job.

## Stock

`inventory/{stock-posting,stock-transfers,stock-counts}.ts`, `reversing-journal.ts`
(`rewindStockForSource`), the stock part of posting bills and invoices.

**State.** `stock` is `item_balances` (quantity, value; the average is computed from
them and rounded as the code does); `doc` the status and lines of bills, invoices,
transfers and counts; `ledger` the rows of `stock_ledger` by document; `txn` the requests
with the document each has read. Two histories: `gap` is how much more the book has than the
shelf, `late` the documents a refused request wrote stock for after someone had
changed their status.

**Actions.** `Begin` (read and check the status), then one of `PostBill`, `PostInvoice`,
`Void`, `Dispatch`, `Receive`, `Cancel`, `EnterCounts`, `Review`, `Approve`, `PostCount`,
or `Fail`. They share `Loop`, a recursive function over the lines that stops at the first line
the stock does not cover and passes over those of which nothing moves, and `Commit`, which keeps what the loop did *also when it stopped*: each of
these handlers returns its error. `PostInvoice` looks at all the lines first
(`peekStockIssue`), so that only two lines of one item can be refused later, or a line for
its batch or serial numbers, which is the free choice of how many are `taken`. `Lose`: a unit
disappears from the shelf.

**Properties that hold.**

* `VoidedMovesNothing`: after a void the rows of the document add up to nothing in
  quantity *and* value, however many refused posts and voids came before, since the rewind
  replays rewinds too. Taking back only what the posting wrote would not do.
* `CountSettlesGap`: a count whose snapshot still was the book when it was counted corrects
  exactly the gap of that moment, whatever is sold between counting, review, approval
  and post. It holds because the variance is added to the book, not the book set to
  what was counted.
* `TypeOK`: no quantity or value becomes negative.

An item is on one line of a count's sheet (`SheetAssumption`: the unique index
`stock_count_lines_unique_item`, `45-stock-counts.sql:186`); every other document may have
several lines of an item.

**Runs.** `stock`: one item, two warehouses, one document of each kind, two requests at a
time, six in all, one lost unit. Three units worth 10 make the average inexact; the transfer
and the invoice have two lines of the item, so that they can be refused half-way; the void
then needs the fourth request. Items do not interact, and balances only by transfers. The
violation run `received_twice` needs the transfer alone.

## Approvals

`admin/{approval-engine,approvals}.ts` and the submit, cancel, edit and acknowledge handlers
of bills, purchase orders, requisitions and expense claims.

**State.** `doc`: kind, status and `approval_request_id`; `request`: the rows of
`approval_requests`, each with its steps and `current_step_index`; `txn`; the histories
`issued` (how often a document was posted, sent or approved), `via` (by which request) and
`overtaken`.

**Actions.** `BeginX` reads and checks, the operation writes. `SubmitToEngine` when a
policy matches (which one is free), `SubmitDirect` when none does; `Approve`, `Reject`
(`recordDecision`, `finaliseApprovedDocument`), `Withdraw`; the documents' own `Cancel`,
`Edit`, `Acknowledge`; `Direct` for the claims and requisitions the engine does
not own; `Fail`. A kind stands for the handlers of its shape, and the run starts with a
document of each.

**Properties that hold.** `IssuedOnce`; `IssuedWithConsent`: every step of the request that
issued a document was approved by one of its approvers other than the submitter, and no
later request for it exists; `QueueTies`: pending requests and waiting documents name each
other, which for two submissions at the same time rests on
`approval_requests_open_document_unique` alone; `OutcomeIsFinal`; `NoWayBack`, the
refinement of `DocumentLife`: what was posted, sent or approved is never a draft again and
what was cancelled stays cancelled, whichever of the engine, the document's own handlers and the
legacy claim handlers move it. All with two calls
overlapping at every point, for documents no call has overtaken (the calls that do are in
the disagreements below).

**Run.** `approvals`: one document, two users who both submit and decide, two calls, two requests for
it (so that it is rejected or withdrawn and comes back), three steps: with three a late
decision on the first meets a request that is neither at its first nor its last step.

## Payroll

`hr/{payroll-runs,staff-loans}.ts`, the void of `hr/expense-claims.ts`.

**State.** `run` with what its payslips deduct and reimburse, `loan` (header), `row`
(schedule), `claim`, and the accounts: the staff-loan receivable and pay-outs per loan,
salaries payable and deductions withheld per run. `Part` is `buildSchedule`: flat
interest, equal instalments, the remainder in the last.

**Actions.** `Begin` reads and checks; `Create` (claims the instalments and claims it read, by id),
`Post` (`postPayrollRunCore`), `Pay`, `Void`, `Approve`, `Disburse`, `Cancel`, `WriteOff`,
`VoidClaim`, `RollBack`. `Void` changes nothing, because the database refuses the status it
writes (see the disagreements): its whole transaction rolls back. One employee earns `Wage`, all
loans and claims are theirs, and the net pay is clamped at zero (`sl-tax.ts:192`). `Post` asks that the
journal balances and has no line of nothing (`Balances`): otherwise `postJournal` or the database
throws, which is `RollBack`.

**Properties that hold.** `LentOnce`: a loan is paid out once under any interleaving, which
rests on the unique index of the schedule, not on its status. `LoanTies`: receivable, header and schedule agree, and a loan closes exactly
when its last instalment is paid; without the remainder on the last instalment it never
would. It needs instalments of more than nothing: a loan of one cent over two months has a
first instalment of zero, and the run of the second month, if posted first, pays it off and closes it
while the first is still held by a draft run. A loan of at least *n*² cents over *n* months has none
such (the run has 6 over 2). The API accepts less (`staff-loans.ts:29-36`: one cent, 120 months), but
120 months ask for 14 400 cents, far below any real loan. `RunTies`: salaries payable holds exactly what posted runs owe. `TakenOnce`: no month
has two runs, and no instalment or claim is in two.

**Run.** `payroll`: one loan of two instalments that differ, with interest; one claim; two
runs in two months; two requests. Two runs are enough to claim an instalment twice, and a
first month left out makes the second recover both. The wage covers each instalment, and both only
together with the claim, so that runs occur that cannot be posted.

## Recurring

`sell/recurring-invoices.ts`, `buy/recurring-bills.ts`, `accounting/recurring-journals.ts`,
which share one shape, and the hourly jobs in `worker.ts`.

**State.** `tmpl` is the row of a template: run day, `next_run_date`, end date,
`generated_count`, `is_active`, `deleted_at`, and its *way*: a draft (an invoice, a bill
without a number, a journal for review), a bill whose supplier number shows the month or the
count, or a posted journal. `list` is what the job of the worker has listed and not come to
yet, `txn` what a transaction has read, `locked` the closed months, `made` the documents by
template and cycle (the month of the `next_run_date` they were made from; they are *dated* the
day they are made), `numbers` the supplier numbers in use. Histories: `early`, documents
the *worker* made before the date of their cycle; `asked`, documents made by generate-now; `raced`,
templates overwritten by a transaction that had read them before the last change.

**Actions.** `List`, `Take`, `Make` or `Log` are the three `runDue...` functions, one job at a
time; `Crash` stops the worker and its list is lost. `GenerateNow` and `Answer` are the endpoint,
which runs the same transaction (`Begin`, then `Generate` or `Refuse`) beside the worker.
`Generate` writes document and template together, next date and count as absolute values
from what was read. `Pause`, `Resume`, `Edit`, `Delete` are single updates; `Lock` closes or
reopens a month; `Day` is the clock.

**Properties that hold.** `NoCycleMissed`: from the first cycle to the next date no cycle is
without a document, through overlaps of job and generate-now, crashes, and edits: stale
writers set the date back, never forward, since document and date are one transaction. Raising the
two columns in place, which looks like the repair of the lost update, would break it.
`OncePerCycle`: a cycle has one document and the count counts them, unless two transactions
that had read the same template both wrote; where the bill number shows the count, the unique
index of the bills makes the second fail. `EarlyByRequest`: the worker runs ahead of the calendar
only where generate-now has overtaken its list, and not more often than generate-now made a document,
whatever writes over what. No more can be said: with four generate-nows that overlap the
worker can be early although every document made on request was early itself, because a stale write
sets the template back and it is listed again. `CatchesUp`: what is due gets made, whatever
else on the list fails and wherever the worker crashes.

**Fairness.** `SF` of each `List`: the three jobs repeat in one first-in-first-out queue with
concurrency 1, so each comes up again and again, but others go in between. `WF` of
`Take`, `Make`, `Log`: a job that has begun goes on. None for days, users and crashes. `Day`
does not wait for the jobs: how late they come is open.

**Run.** `recurring`: months of 3, 2 and 2 days; run days 1 and 2, so that the month of three
days has one that no template can run on and that the next month lacks, as days 29 to 31
are. Two setups: a bill numbered by the month with one numbered by the count, which share a
job; a posted journal with an end date with a draft that starts on day 3, after its run day. Two
acts of users and one crash: two acts are two generate-nows, one of which overlaps the job and
is overtaken by the other, or a close and a reopening. Templates share nothing but the list, so
two are enough. `Months` leaves room for two cycles per act of a user, one that generate-now moves a
template on and one that the worker may then be ahead; that it suffices is part of
the theorem `TypeCorrect`.

Left out: edits that change the way of a template or its number pattern, two templates of one
supplier with one pattern, and refusals for a deleted account or supplier, which go the way of
`Refuse`. A bill-number pattern that shows neither month nor count, or a number somebody typed
by hand, can collide with a bill there is, and then keeps its template due: `CatchesUp` is not about
those.

## What is proved

TLAPS proves these for all values of the constants that satisfy the assumptions the modules
name: finitely many documents where a sum runs over them, totals and amounts positive,
`NULL`-like constants that are not values, bounds and handler sets of the right kind. Bounds such
as `MaxEntries` are arbitrary naturals there, so they bound nothing. A hypothesis beyond that is part
of the theorem and said here. "Any interleaving" is of any number of requests.

| theorem | statement |
|---|---|
| `ReceivablesProofs!TypeCorrect` | `Spec => []TypeOK`; in particular no row's balance or amount paid becomes negative |
| `ReceivablesProofs!SerialTies` | one request at a time: `[]ReceivableTies` |
| `ReceivablesProofs!PaidAddsUp` | one request at a time: `[]PaidIsCollected` |
| `ReceivablesProofs!LimitHolds` | one request at a time: `CreditLimitRespected` |
| `ReceivablesProofs!ClearingIsInHand` | one request at a time, or any interleaving without `clear`: `[]ClearingTies` |
| `ReceivablesProofs!RowsAddUp` | any interleaving, without void, write-off and reversal: `[]RowAddsUp` |
| `ReceivablesProofs!TwoBouncesCaught` | any interleaving, unless holds are lifted: `[]TwoBouncesHold` |
| `DocumentNumbersProofs!TypeCorrect` | `Spec => []TypeOK` |
| `DocumentNumbersProofs!GaplessJournal` | any interleaving: `Spec => Series!Spec`, 1, 2, 3, ... until a number is skipped |
| `DocumentNumbersProofs!FreshNumbers` | any interleaving: `[]NextIsFresh` |
| `GeneralLedgerProofs!TypeCorrect` | `Spec => []TypeOK` |
| `GeneralLedgerProofs!SealedYearHolds` | any interleaving: `Spec => SealedYear` |
| `GeneralLedgerProofs!ClosingStaysLast` | any interleaving: `Spec => []ClosingIsLast` |
| `GeneralLedgerProofs!DraftsPostOnce` | one request at a time: `[]DraftPostsOnce` |
| `GeneralLedgerProofs!ClosedYearZeroes` | one request at a time, no voids, entries on their normal side: `[]ClosedYearIsZero` |
| `SubscriptionProofs!TypeCorrect` | `Spec => []TypeOK` |
| `SubscriptionProofs!OncePerPeriod` | any interleaving and any crashes: `[]ChargedOnce` |
| `SubscriptionProofs!TriedAsAllowed` | any interleaving and any crashes: `[]DeclinesBounded` |
| `ApprovalsProofs!TypeCorrect` | `Spec => []TypeOK` |
| `ApprovalsProofs!AtMostOnce` | any interleaving: `[]IssuedOnce` |
| `ApprovalsProofs!Consent` | any interleaving: `[]IssuedWithConsent` |
| `ApprovalsProofs!QueueAgrees` | any interleaving: `[]QueueTies` |
| `ApprovalsProofs!OutcomeStays` | any interleaving: `Spec => OutcomeIsFinal` |
| `ApprovalsProofs!Refinement` | any interleaving: `Spec => NoWayBack`, the specification of `DocumentLife` |
| `PayrollProofs!TypeCorrect` | `Spec => []TypeOK` |
| `PayrollProofs!LentOnlyOnce` | any interleaving: `[]LentOnce` |
| `PayrollProofs!TakenOnlyOnce` | any interleaving: `[]TakenOnce` |
| `PayrollProofs!RunsTie` | any interleaving: `[]RunTies` |
| `PayrollProofs!LoansTied` | any interleaving, loans of *n*² cents or more over *n* months: `[]LoanTies` |
| `RecurringProofs!TypeCorrect` | `Spec => []TypeOK` |
| `RecurringProofs!NoneMissed` | any interleaving and any crashes: `[]NoCycleMissed` |
| `RecurringProofs!MadeOnce` | any interleaving and any crashes: `[]OncePerCycle` |
| `RecurringProofs!WorkerKeepsTime` | any interleaving and any crashes: `[]EarlyByRequest` |
| `StockProofs!BalancesNeverNegative` | any interleaving: `Spec => []TypeOK` |
| `StockProofs!VoidTakesBackAll` | any interleaving: `[]VoidedMovesNothing` |
| `StockProofs!CountsSettleTheirGap` | any interleaving: `Spec => CountSettlesGap` |

The invariants behind them, and why the property alone is not inductive:

* `SerialInv` (SerialTies). `CommitWriteOff` takes what the request *saw* off AR, so the
  proof needs `ReadIsCurrent`: with one request, what it read is what is there. A draft
  must have its whole total due and no reversed entry (`SettledRows`), or posting it
  would not tie. A bounce or a credit note must not reach a draft
  (`DocumentsNameIssued`), whose AR is 0 and not its balance; and a write-off that is
  reversed must start from balance 0.
* `PaidInv` (PaidAddsUp), beside `SerialInv`. A posted receipt is a new term of the sum, a bounce
  takes one away, a credit note raises another: each is one application of a lemma
  about sums. A draft credit note must have nothing applied to it, nor may the note a request
  is about to post be posted already.
* `LimitInv` (LimitHolds), beside `SerialInv`. Only `CommitPost` is stopped by the limit, so the rest
  has to be shown to leave the sum of open balances alone or lower: settled invoices are
  at zero, and a receipt reduces invoices of its own customer only.
* `ClearingInv` (ClearingIsInHand). The cheque a request is about to clear or bounce is still in hand,
  or has been bounced by another one. The second bounce then fails at a unique index, but a
  clearance would not, which is why the theorem excludes it.
* `RowsInv` (RowsAddUp). A payment writes a row computed from an old one, so the rows *in
  flight* have to add up too. This is also the reason a lost update goes unnoticed.
* `TwoBouncesHold` is inductive given `TypeOK`: the bounce counts the rows with its own
  change under the lock. The lemmas bound how `BounceCount` can change.
* `SeriesInv`, `HolderInv` (GaplessJournal). Until a number is skipped, every period's
  documents are a prefix of the numbers; the row, if its period is set, is at the end of that
  prefix, and a holder's number is the next after the row. For a straggler that reset the row the number is *not* fresh,
  and the step is excluded by the unique index; this case split is the heart of the
  refinement proof.
* `FreshInv` (FreshNumbers). As long as the row is not stale, it is at or after every document
  of its period, and no document is of a later one; no request is from a period to come, and an
  edit in flight wants no less than it saw. A refused number only moves the row on.
* `SealedInv` (SealedYearHolds, ClosingStaysLast). Whoever has checked a month holds the
  row alone, and that month is not sealed. A close can seal only while it is itself the holder.
* `DraftInv` (DraftsPostOnce). A request that decides a draft has read it pending, and it still is:
  only one request runs. Inserting an entry adds one to the entries of its own draft and leaves
  those of the others (`InsertCounts`); a reversal names no draft.
* `YearInv` (ClosedYearZeroes). The closing entry in flight is the negative of the
  balances, balances and drafts are on their normal side (`close-year` only transfers
  those), and a checked month is open, so nothing lands in a closed year.
* `ChargeInv`, `DatesInv` (OncePerPeriod). The charge of a period and the move of its due date are
  two steps. Between them the job holds what it has read, so the invariant says of each
  point of the job whether the period was charged, and of a row that is paid for that its
  next charge is due only after the period has ended, whatever status a request is about to
  write back. A trial must end before its period does, or the job could meet a row whose dates
  do not tell the two apart.
* `FailsInv`, `DeclinesInv` (TriedAsAllowed). The counter of failures has all declined charges but for
  an answer that is not written yet or was lost in a crash, and stays below the policy's limit
  while the row is not cancelled, except for the requests that revived it.
* `DocsInv`, `CallsInv` and the small `RequestsInv`, `LinkInv` (all of ApprovalsProofs). A call
  writes by id what it decided on rows that may have changed, so the invariant of a document
  is stated for the documents no call has overtaken, and `CallsInv` of what each call
  has read: then a call finds its row as it read it, or marks the document. A
  pending request is the latest of its document, approved up to its current step and undecided
  from there (`Halfway`), which is what makes the last approval the consent of all.
* `LentInv` (LentOnlyOnce). A loan is paid out only with its schedule, whose unique index stops
  the second; no step removes a schedule.
* `TakenInv`, `HoldsInv` (TakenOnlyOnce, RunsTie). What a run deducts is marked as held, and, for an
  unmarked run, by that run and nothing else: so the second run that read it as free
  changes a row that is held, and is marked.
* `HeldInv`, `LoanInv` (LoansTied). What a run holds is pending until the run is posted. The header of
  a loan is what its paid instalments leave, as a sum over the rows; posting a run moves one
  set of rows from unpaid to paid, and what is left is zero exactly when no row is
  left, because every instalment is positive.
* `CycleInv` (NoneMissed). The property says nothing of the row a transaction *has read* and is
  about to write back, so the invariant says of it what the property says of the template:
  all its cycles have documents, too. Documents are never taken back, so this stays true
  however old the read is.
* `OnceInv` (MadeOnce). What a transaction has read is the template further back or, after a
  race, further on: next date less count is the same. For bills that show the count, the numbers
  used are exactly 1 up to the count and no read is further on, so that the number a stale
  read computes is in use already.
* `AheadInv` (WorkerKeepsTime). A template that is on the list, or that the worker has read, but is
  not due yet was moved on by a generate-now since it was listed, so at least one of those has not
  been answered by an early document. `ReachInv` (TypeCorrect) bounds the dates in the same way: a
  template is as far ahead as the documents on request, and the requests in flight, can have moved it.

* `VoidInv`, `RowsInv`, `TxnInv` (VoidTakesBackAll). A rewind replays every row with the opposite
  sign, those of earlier rewinds included, so after it the rows come to nothing whatever they
  were before (`TakenBack`: a list followed by its negatives adds up to zero). That each replay
  writes one row needs that no row is of zero units (`RowsInv`): the loop would pass over it
  and leave its value. And a refused request that commits over a void document has read it in another
  status (`TxnInv`: no handler asks for a void one), so that its rows are excused by `late`.
* `DocInv`, `BlankInv`, `TxnInv` (CountsSettleTheirGap). What a count is to settle travels through
  four requests: the book when the sheet is drafted, what is counted and the gap of that moment,
  the variance at the review, the rows when it is posted. The invariant therefore says of *every
  version* of a sheet, the one in the table and those that requests have read, that counted less
  book is the negative of the gap seen, and the variance the negative of the gap owed. The sheet of a
  count not begun has to be empty, or the drafting would change the book under what was
  counted. Posting moves each balance once, by `SheetAssumption`.
* `BalancesNeverNegative` needs `DocInv` and `TxnInv` too: a receipt has read a transfer as it was
  dispatched, each line with what was sent of it, or it could bring in something without a
  quantity.

Sums are recursive functions: over the subsets of a set in `Receivables` and `Payroll` (the sum of a
function over a finite set is a number, changes with one element by that element, is
monotone, and splits over disjoint sets), over the lines of a document and the rows of its ledger
in `Stock`. Each proof module carries the lemmas about its own. The installed provers
cannot use induction rules that take an operator as a parameter, so the inductions are over
the set of counterexamples, which has a least element.

TLC also finds all of these invariants to hold on the instances above. Two statements were corrected on
the way: `EarlyByRequest` once counted the early documents of both callers, which four overlapping
generate-nows refute, and `LoanTies` needs the bound on the loan that its section explains.

Model-checked only:

* The liveness properties `PastDueResolves`, `UnpaidIsCancelled` and `CatchesUp`. Liveness under
  fairness and ENABLED are beyond the prover.

Every other property of a passing run is a theorem above.

The hypotheses "one request at a time" are not a convenience: with two requests each of these
properties fails, as the next section tells.

## Where the code and its documentation disagree

Two runs check one statement each that a document or comment of the repository makes, and
TLC finds a behaviour of the code against it. The quotations are in `PROJECT.json`.

| run | property | what happens |
|---|---|---|
| `lost_payment` | `NoOverCollection` | two payments on one invoice, one overwrites the other |
| `received_twice` | `TransferCreatesNothing` | a receipt refused at its second line keeps the first; the corrected receipt brings that in again |

The others are told here; they bound what the passing runs claim. Documents are named by
their path under `apps/docs/docs`, handlers by their file.

**A row validated before the wait for the number row and not read again after it**, with two
requests in flight:

* one draft invoice posted twice (`invoice-posting.ts:122`), an invoice voided while a payment
  is in flight (`invoices.ts:812`), two drafts under one credit limit
  (`invoice-posting.ts:138`), one cheque cleared and bounced (`cheques/routes.ts:167`);
* an edit of the counter overtaken by a posting (`number-series.ts:172`); a request begun before
  midnight that resets the series back to the old year, so that the new year starts
  twice and the unique index then refuses every posting (`49-number-series.sql:125`, against
  `apps/docs/docs/settings/number-series.md:111`, "guarantees uniqueness per series");
* an entry between the sums of `close-year` and its number (`periods.ts:294`); two decisions on
  one draft (`journal-entries.ts:446`); two reversals of one entry (`reversing-journal.ts:40`);
* an entry that passed the test of its month commits into it after `soft-close`, which takes no
  number (`journal-posting.ts:115`, against `accounting/period-lock.md:32`);
* two batch invoices over the same delivery notes (`invoices.ts:613`).

**An error returned after a write**, which commits it:

* `invoice-posting.ts:467` ("The tx is already rolling back"): the entry stays, the invoice stays
  a draft; numbers are lost with it, against `settings/overview.md:59` ("no gaps");
* a dispatch refused at a later line (`stock-transfers.ts:275`) has taken stock that the
  cancel of the draft does not return;
* a sale of the till that returns UNDER_TENDERED or MISSING_BANK_ACCOUNT commits the posted
  invoice without its payments (`pos/sales.ts:202-249`, against its header, "If any leg fails, the
  tx rolls back").

**Sales and ledger.** A bounce reopens a written-off invoice without undoing the write-off; voided
then, it is twice off AR (`cheques/routes.ts:372`, against `reports/aging.md:98-99`, "They should
match"). `CommitCredit` looks at no status, so a credit note posts on a voided invoice or
turns a written-off one `paid`, against `credit-notes.ts:371` and `37-bad-debt.sql:16-17`. A sale
voided after its year was closed and reopened leaves a debit on income, and the second close
only transfers credits (`periods.ts:340`). `PatchCounter` leaves the period of the row alone, so
an edit before the period's first number is lost, against `number-series.ts:37-38`.
`Reopen` accepts a closed month, against `period-lock.md:117` ("deliberately one-way"). A year
closed month by month as `period-lock.md:42-43` prescribes cannot be hard-closed if it has
any result. Reversals and parked drafts drop the cost centre, against
`accounting/cost-centers.md:62`.

**Subscriptions.** A crash between the gateway and the books charges again (`ChargedOnce` counts
it). A pause or a suspension by the operator is overwritten by a sweep in flight;
`AssignPlan` writes back a status that may be stale. `100-dunning.sql` says of the counter
"Resets to 1 when the period rolls over"; it does not, and should not (`DeclinesBounded`).
`CancelLapsed` also takes rows that dunning made past due, against the comment at
`trial-expiry.ts:101`. A paused trial resumes as `active`. A worker away for longer than
a period rolls several periods and charges one.

**Stock.** Rounding, the clamp at zero, and losses booked at another cost than they left with
let the stock account and `item_balances` part, against `15-stock-ledger.sql:4`. A movement
between the snapshot of a sheet and its counting is deducted twice, against
`inventory/stock-counts.md:30`. A sheet refused at a later line has written the earlier ones,
and writes them again.

**Approvals.** A withdrawal or rejection that races the last approval puts a posted document
back to draft, and an approval of a request rejected meanwhile can issue a resubmission
(updates go by id). With three steps, a late second approval of the first takes the
request back to a decided step: nobody can decide it again. A draft order can be acknowledged
without having been sent (`purchase-orders.ts:548`). A claim withdrawn, edited, and submitted
when no policy matches keeps its old `approval_request_id`, so the engine and the claim
handlers each leave it to the other (`expense-claims.ts:541`, against `approvals.ts:564-566`).

**Payroll.** A run in which the deductions of an employee exceed what they earn cannot be posted, since
the clamp of the net pay (`sl-tax.ts:192`) leaves a journal that does not balance
(`journal-posting.ts:53`); one that pays out nothing at all fails at `journal_line_side_xor`. Neither can be
voided, and its month is taken. The void of a run always fails: it writes `voided`, and
`payroll_runs_status_check` knows `void` (`18-payroll-runs.sql:35`,
`70-approval-engine-payroll-bonus.sql:33-35`), against `hr/payroll.md:111`. A final settlement
with an open loan fails for the same kind of reason (`final_settlement` is no `closed_reason`,
`41-staff-loans.sql:114-116`), and one with a notice shortfall does not balance. A loan written off
under a draft run that holds an instalment has a negative receivable after the post, and is `closed`
again, against the comment at `staff-loans.ts:760`. A claim voided while a draft run holds it is
still reimbursed. Two overlapping posts of one run both post. Runs of two months created at the same
time can both claim an instalment.

**Recurring documents.** Generate-now moves the whole schedule on by a cycle, against
`sell/recurring-invoices.md` ("Doesn't affect the schedule for future generations"). If it
overlaps the job, both make the same cycle and the count rises by one (`recurring-invoices.ts:160`);
if it overtakes the list of the job, the job makes the cycle after it before its date, against
`32-recurring-invoices.sql`, which lists only what is due. `computeFirstRunDate` adds a month to a
day the next month may not have: a template from January 31 for the 5th first runs on March 5
(`recurring-invoices.ts:58-61`; its comment also says `>=` where the code has `>`). A cycle
whose job comes after the end date is dropped, since the list compares the end with today and not
with the cycle; a template resumed after a pause makes up all its missed cycles, one an
hour, all dated today. An edit of the run day leaves the next date alone, against
`sell/recurring-invoices.md:63` ("The next generation date adjusts"). A bill whose number shows the month can be made once a month, so that
when two cycles are due the second fails every hour until the month is over. A posted journal in a
closed month returns PERIOD_LOCKED after `postJournal` took its number, which is committed:
every hour leaves a gap in the journal (`recurring-journals.ts:240`, against
`settings/overview.md:59`, "no gaps").

**Sales orders.** A delivery note cancelled after delivery does not return its stock; an order both
converted and delivered is billed twice when its notes are batch-invoiced; two overlapping
conversions of one order both create an invoice, against `25-sales-orders.sql`.

**Petty cash and till.** `getFloatForUpdate` (`petty-cash.ts:152-166`) returns rows with the
column names of the table and its callers read camel case, so that postings fail on a missing
account, and closing a float with money in it transfers nothing. A sale can commit on a shift
between the sum of its takings (`shifts.ts:246`) and the update that closes it, and two closes
post the variance twice.

## Inventory of the system

Paths are below `apps/api/src/modules` unless they start otherwise.

**Sales: invoices, payments, credit notes** (`sell/`). State: `invoices`,
`customer_payments` with allocations, `credit_notes`. Operations: draft, post, void,
write off, reverse the write-off, pay, credit. Calls stock issue and rewind,
`postJournal`, commissions and number series. Hard: stale absolute updates, a status tested
before the lock, errors returned after writes. Correct when AR, balance due and what was
collected agree.

**Cheques** (`cheques/`). State: `cheques` and their events. Operations: deposit,
clear, bounce, reissue, stale sweep by the worker. Writes invoices, customers and the
journal. Hard: exclusive outcomes decided by two users, and bounces that reopen invoices
which have moved on. Correct when each cheque leaves clearing once.

**Customers and credit control** (`operations/customers.ts`). State: limit, hold, open
AR (a query). Correct when posting respects hold and limit.

**Number series** (`settings/number-series.ts`, `next_document_number`). State: one row per
tenant and document type. Hard: the row is the lock of the system. Correct when numbers are
unique and gapless where documents say so.

**Journal, periods, manual entries** (`accounting/`). State: `journal_entries`, lines,
`fiscal_periods`, `journal_entry_drafts`. Called by every posting handler. Hard: status
of the month against postings in flight; year-end sums. Correct when locked months stay
as they are and closed years are zero.

**Stock** (`inventory/`, `sell/delivery-notes.ts`). State: `item_balances` (quantity,
weighted average cost), append-only `stock_ledger`, batches and serials, transfers,
counts. Called by posting and voiding; the worker expires nothing. Hard: balances are
locked `FOR UPDATE` *before* the journal number by a post and *after* it by a void
(deadlock); multi-line dispatches that fail on a later line and commit the earlier ones;
rewind by replay with clamping. Correct when balance equals the sum of movements and
transfers conserve quantity.

**Payables** (`buy/`). State: requisitions, purchase orders, goods received, bills,
supplier payments, debit notes. Mirrors receivables; bills raise stock cost. Hard: the same
races, and the clearing legs of issued cheques. Correct when AP and bill balances agree.

**Approval engine** (`admin/approvals.ts`). State: requests with their steps and decisions.
Called by documents above a threshold; finalises them by posting. Hard: two approvers of one
step, a cancel against the finalising decision, a document that moved on meanwhile.
Correct when a document is finalised at most once and only after all its steps.

**Point of sale** (`pos/`). State: shifts, and sales as invoice plus payments. Hard: a
composite sale that returns an error half way, a shift closed during a sale. Correct when a
closed shift's expected cash is what its sales took.

**Payroll and HR** (`hr/`). State: runs, payslips, loans, leave, final settlements, claims.
Hard: a run posted twice, or posted and voided with its loan repayments. Correct when
a loan is repaid exactly once per run.

**Petty cash, fixed assets, bank reconciliation, FX, budgets, withholding tax, opening
balances** (`accounting/`). Hard: monthly depreciation run twice or late
(a unique index decides), petty-cash float against claims.

**Subscription billing** (`subscription/`, `lib/plan-gate.ts`). State: subscription status,
invoices, charge attempts. Driven by three daily crons (trial expiry, renewal, dunning) and
by the customer. Hard: a crash between the gateway and the books, a missed day. Correct when a past-due
subscription eventually recovers or is suspended, and is charged once per period.

**Worker** (`worker.ts`, `notifications/`). A scheduled queue with concurrency 1: recurring
documents hourly, stale cheques, depreciation, statements, digests, the crons above. Hard:
jobs missed while down, or repeated after a crash, or working on a list that is out of date.
Correct when a recurring document is generated once per due date.

**Recurring documents** (`sell/recurring-invoices.ts`, `buy/recurring-bills.ts`,
`accounting/recurring-journals.ts`). State: templates with a next date and a count. Called by
the worker and by generate-now; create invoices, bills, journal drafts and entries. Hard: the two
callers overlap and write back absolute values; one failing template among others. Correct when each
cycle has one document and no due template waits for ever.

**Identity, roles, tenancy, audit, impersonation; customer portal; platform
administration; commissions; reports and master data; web and docs front ends.** Access
control, views and CRUD around the components above. Of the shared code only `withTenant`
matters to the models, and is part of each.

## Plan

Ordered by what a wrong answer costs the user of the books.

1. Done, modelled, checked and proved about: `Receivables`, `DocumentNumbers` with `NumberSeries`,
   `GeneralLedger`, `Subscription`, `Approvals` with `DocumentLife`, `Payroll`, `Recurring`, `Stock`.
2. Left: `Payables` with the AP account and issued cheques, and an abstract open-item account that
   it and `Receivables` implement one request at a time.

## What is not modelled

* Amounts are small integers: cents are `bigint` in the database and no computation comes near
  the width. Tax rates, payroll tables, exchange rates, formatting, mail and PDF are arithmetic
  or output without a protocol.
* Row-level security and permissions decide who may call; the models start with a request that
  was let in. PostgreSQL is taken at its word: READ COMMITTED reads, row locks, unique
  indexes, CHECK constraints. A crash of the API process ends a transaction in `Rollback` or `Fail`.
* Supplier payments, debit notes and issued cheques are Receivables again with the signs changed.
* The point of sale composes an invoice post with payments. What it promises fails without any
  interleaving (see above), and what is left is Receivables. Petty cash cannot post as it
  is written. The void of a payroll run and the settlement of an employee with a loan cannot
  either; the model of the first is a step that changes nothing.
* Batches, serials, bundles, landed cost and goods received change the key or the price of a
  movement, not the order of steps; in `Stock` they are a reason to refuse a line.
* Depreciation, statements, health scores and digests run in the same worker as the jobs of
  `Subscription` and `Recurring`. Depreciation is protected by a unique index per asset and
  month; the others are output.
* Quotations, orders, proformas and delivery notes convert into each other without a ledger entry;
  what their endpoints do when two overlap is told above.
* The customer portal, platform administration, reports, master data, settings, the web and
  documentation front ends are views and CRUD.
