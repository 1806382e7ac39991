------------------------------- MODULE Recurring -------------------------------
(****************************************************************************)
(* Recurring invoices, bills and journals of a tenant: the templates, the   *)
(* hourly jobs of the worker that make a document for each cycle that has   *)
(* come due, and the endpoints that generate one at once, pause, resume,    *)
(* edit and delete a template.                                              *)
(*                                                                          *)
(* A job lists the due templates first and then runs a transaction for each *)
(* of them.  The transaction reads the template, inserts the document, and  *)
(* writes back a next date and a count computed from what it has read.  A   *)
(* document is dated the day it is made; its cycle is the month of the      *)
(* next_run_date it was made from.                                          *)
(****************************************************************************)
EXTENDS Integers, FiniteSets

CONSTANTS
  Templates,
  Schedules,  \* how the templates may be set up: way, start, day, end
  Ends,       \* the end dates an edit may set
  Closable,   \* the months that are closed and reopened in a run
  Length,     \* the days of each month
  Created,    \* the day the templates are created
  LastDay,    \* the last day of the month a template may run on (28)
  Users,      \* requests for generate-now that can be in flight together
  Worker,     \* the background worker
  Never,      \* an end date that is NULL
  MaxActs,    \* bound on the acts of users
  MaxCrashes  \* bound on the crashes of the worker

\* What a template makes: drafts (invoices, unnumbered bills, journals for review),
\* bills whose supplier number shows the month or the count, or posted journals.
Ways == {"draft", "byMonth", "bySeq", "post"}

\* The ways the jobs of the worker look after: bills go together.
Jobs == {{"draft"}, {"byMonth", "bySeq"}, {"post"}}

Calendar == UNION {{m} \X (1 .. Length[m]) : m \in DOMAIN Length}
\* A generate-now sets a template on by a month, and lets the worker do so once more.
Months == 1 .. Cardinality(DOMAIN Length) + 2 + 2 * MaxActs

ASSUME CalendarAssumption ==
  /\ IsFiniteSet(DOMAIN Length) /\ DOMAIN Length = 1 .. Cardinality(DOMAIN Length)
  /\ \A m \in DOMAIN Length : Length[m] \in Nat /\ LastDay <= Length[m]
  /\ LastDay \in Nat \ {0} /\ Created \in Calendar
  /\ Ends \subseteq Calendar \cup {Never}
  /\ Closable \subseteq DOMAIN Length
ASSUME ScheduleAssumption ==
  Schedules \subseteq [Templates -> [way : Ways, start : Calendar, day : 1 .. LastDay,
                                     end : Calendar \cup {Never}]]
ASSUME BoundsAssumption == MaxActs \in Nat /\ MaxCrashes \in Nat
ASSUME WorkerAssumption == Worker \notin Users
ASSUME NeverAssumption == Never \notin Calendar

VARIABLES
  today,
  tmpl,    \* the templates
  locked,  \* the months that are closed
  list,    \* the templates the job of the worker still has on its list
  txn,     \* the transactions that generate: what each has read
  made,    \* how many documents each template has for each cycle
  numbers, \* the supplier numbers on each template's bills
  early,   \* history: documents of the worker before the date of their cycle
  asked,   \* history: documents made by generate-now
  raced,   \* history: templates written over a change since they were read
  acts, crashes

vars == <<today, tmpl, locked, list, txn, made, numbers, early, asked, raced,
          acts, crashes>>
documents == <<made, numbers, early, asked, raced>>
bounds == <<acts, crashes>>

\* One date is not after another; nothing is after an end that is not set.
NotAfter(a, b) == b = Never \/ a[1] < b[1] \/ (a[1] = b[1] /\ a[2] <= b[2])

--------------------------------------------------------------------------------
(* Dates.                                                                     *)

\* computeFirstRunDate: the run day of the month, or of the next one.  A start on
\* a day that the next month does not have lands in the month after it.
FirstRun(start, day) ==
  LET overflow == \E m \in DOMAIN Length : m = start[1] + 1 /\ Length[m] < start[2]
  IN IF start[2] <= day THEN <<start[1], day>>
     ELSE <<start[1] + IF overflow THEN 2 ELSE 1, day>>

\* computeNextRunDate
NextRun(from, day) == <<from[1] + 1, day>>

--------------------------------------------------------------------------------

Idle == [of |-> Never, row |-> Never, date |-> Never]

\* POST / of the three modules, with an active template.
Template(s) ==
  [way |-> s.way, day |-> s.day, next |-> FirstRun(s.start, s.day), end |-> s.end,
   count |-> 0, active |-> TRUE, deleted |-> FALSE]

Init ==
  /\ today = Created
  /\ \E s \in Schedules : tmpl = [t \in Templates |-> Template(s[t])]
  /\ locked = {}
  /\ list = {}
  /\ txn = [s \in Users \cup {Worker} |-> Idle]
  /\ made = [t \in Templates |-> [m \in Months |-> 0]]
  /\ numbers = [t \in Templates |-> {}]
  /\ early = [t \in Templates |-> 0]
  /\ asked = [t \in Templates |-> 0]
  /\ raced = {}
  /\ acts = 0
  /\ crashes = 0

Day ==
  /\ LET tomorrow == IF today[2] < Length[today[1]]
                     THEN <<today[1], today[2] + 1>> ELSE <<today[1] + 1, 1>>
     IN  tomorrow \in Calendar /\ today' = tomorrow
  /\ UNCHANGED <<tmpl, locked, list, txn, documents, bounds>>

--------------------------------------------------------------------------------
(* Generating a document: generateInvoiceFromTemplate and its two siblings.   *)

\* NOT_FOUND and NOT_ACTIVE.
CanBegin(t) == tmpl[t].active /\ ~tmpl[t].deleted

Begin(s, t) ==
  /\ txn[s] = Idle
  /\ CanBegin(t)
  /\ txn' = [txn EXCEPT ![s] = [of |-> t, row |-> tmpl[t], date |-> today]]
  /\ UNCHANGED <<today, tmpl, locked, documents>>

\* renderSupplierBillNumber
Number(x) ==
  CASE x.row.way = "byMonth" -> {x.date[1]}
    [] x.row.way = "bySeq" -> {x.row.count + 1}
    [] OTHER -> {}

\* Mutant: bills_tenant_supplier_bill_unique is missing.
NoNumberIndex(x) == TRUE

\* bills_tenant_supplier_bill_unique; the number stays used, whatever becomes of
\* the bill.
NumberIndex(x) == Number(x) \cap numbers[x.of] = {}

\* Mutant: next date and count are raised where they stand.
AdvanceInPlace(x) ==
  [tmpl[x.of] EXCEPT !.next = NextRun(@, x.row.day), !.count = @ + 1]

\* Mutant: the next date is a month from today, on the same day.
AdvanceFromToday(x) ==
  [tmpl[x.of] EXCEPT !.next = NextRun(x.date, x.date[2]), !.count = x.row.count + 1]

\* The update of the template: next date and count from what was read.
Advance(x) ==
  [tmpl[x.of] EXCEPT !.next = NextRun(x.row.next, x.row.day),
                     !.count = x.row.count + 1]

\* postJournal refuses a closed month, the unique index a number used before.
Accepted(x) ==
  /\ x.row.way = "post" => x.date[1] \notin locked
  /\ NumberIndex(x)

Generate(s) ==
  LET x == txn[s] IN
  /\ x # Idle
  /\ Accepted(x)
  /\ tmpl' = [tmpl EXCEPT ![x.of] = Advance(x)]
  /\ made' = [made EXCEPT ![x.of][x.row.next[1]] = @ + 1]
  /\ numbers' = [numbers EXCEPT ![x.of] = @ \cup Number(x)]
  /\ early' = [early EXCEPT ![x.of] = IF s = Worker /\ ~NotAfter(x.row.next, today)
                                     THEN @ + 1 ELSE @]
  /\ asked' = [asked EXCEPT ![x.of] = IF s = Worker THEN @ ELSE @ + 1]
  /\ raced' = IF tmpl[x.of].count = x.row.count THEN raced ELSE raced \cup {x.of}
  /\ txn' = [txn EXCEPT ![s] = Idle]
  /\ UNCHANGED <<today, locked>>

\* No row of this module is written: the error is returned, or thrown and the rest
\* undone.  (A posted journal whose month is closed has spent a journal number by
\* then, see DocumentNumbers.)
Refuse(s) ==
  /\ txn[s] # Idle
  /\ ~Accepted(txn[s])
  /\ txn' = [txn EXCEPT ![s] = Idle]
  /\ UNCHANGED <<today, tmpl, locked, documents>>

--------------------------------------------------------------------------------
(* The worker: runDueRecurringInvoices, ...Bills, ...Journals.                *)

\* Mutant: every active template is listed.
EveryTemplate(date) == {t \in Templates : CanBegin(t)}

\* list_due_recurring_invoices, _bills, _journals
Due(date) ==
  {t \in Templates :
     CanBegin(t) /\ NotAfter(tmpl[t].next, date) /\ NotAfter(date, tmpl[t].end)}

List(job) ==
  /\ list = {} /\ txn[Worker] = Idle
  /\ list' = {t \in Due(today) : tmpl[t].way \in job}
  /\ list' # {}
  /\ UNCHANGED <<today, tmpl, locked, txn, documents, bounds>>

Take ==
  \E t \in list :
    /\ txn[Worker] = Idle
    /\ list' = list \ {t}
    /\ \/ Begin(Worker, t)
       \/ ~CanBegin(t) /\ UNCHANGED <<today, tmpl, locked, txn, documents>>
    /\ UNCHANGED bounds

\* Mutant: an error ends the job.
GiveUp == {}

\* The error of a template is logged, and the job goes on with the next.
Remaining == list

Make == Generate(Worker) /\ UNCHANGED <<list, bounds>>
Log == Refuse(Worker) /\ list' = Remaining /\ UNCHANGED bounds

\* The worker stops; the job that runs next lists anew.
Crash ==
  /\ crashes < MaxCrashes
  /\ list # {} \/ txn[Worker] # Idle
  /\ list' = {}
  /\ txn' = [txn EXCEPT ![Worker] = Idle]
  /\ crashes' = crashes + 1
  /\ UNCHANGED <<today, tmpl, locked, documents, acts>>

--------------------------------------------------------------------------------
(* The users' endpoints.                                                      *)

Act == acts < MaxActs /\ acts' = acts + 1 /\ UNCHANGED <<list, crashes>>

\* POST /:id/generate-now
GenerateNow(s, t) == Act /\ Begin(s, t)

Answer(s) ==
  /\ Generate(s) \/ Refuse(s)
  /\ UNCHANGED <<list, bounds>>

Write(t, row) ==
  /\ Act
  /\ tmpl' = [tmpl EXCEPT ![t] = row]
  /\ UNCHANGED <<today, locked, txn, documents>>

\* Both look at no other column, not even deleted_at.
Pause(t) == Write(t, [tmpl[t] EXCEPT !.active = FALSE])
Resume(t) == Write(t, [tmpl[t] EXCEPT !.active = TRUE])

\* PATCH /:id, which leaves next_run_date alone.
Edit(t, day, end) ==
  /\ ~tmpl[t].deleted
  /\ Write(t, [tmpl[t] EXCEPT !.day = day, !.end = end])

\* DELETE /:id
Delete(t) == Write(t, [tmpl[t] EXCEPT !.active = FALSE, !.deleted = TRUE])

\* A month is closed, or reopened (see GeneralLedger).
Lock(m) ==
  /\ Act
  /\ locked' = IF m \in locked THEN locked \ {m} ELSE locked \cup {m}
  /\ UNCHANGED <<today, tmpl, txn, documents>>

Next ==
  \/ Day
  \/ \E job \in Jobs : List(job)
  \/ Take \/ Make \/ Log \/ Crash
  \/ \E t \in Templates :
       \/ \E s \in Users : GenerateNow(s, t)
       \/ Pause(t) \/ Resume(t) \/ Delete(t)
       \/ \E day \in 1 .. LastDay, end \in Ends : Edit(t, day, end)
  \/ \E s \in Users : Answer(s)
  \/ \E m \in Closable : Lock(m)

Spec == Init /\ [][Next]_vars

\* The three jobs repeat in one queue, first in first out, so each gets its turn
\* again and again; a job that has begun goes on.
Fairness ==
  /\ \A job \in Jobs : SF_vars(List(job))
  /\ WF_vars(Take) /\ WF_vars(Make) /\ WF_vars(Log)

FairSpec == Spec /\ Fairness

--------------------------------------------------------------------------------
(* Properties.                                                                *)

Rows ==
  [way : Ways, day : 1 .. LastDay, next : Months \X (1 .. LastDay),
   end : Calendar \cup {Never}, count : Nat, active : BOOLEAN, deleted : BOOLEAN]

\* Types; a template never waits for a day that some month does not have.
TypeOK ==
  /\ today \in Calendar
  /\ tmpl \in [Templates -> Rows]
  /\ locked \subseteq DOMAIN Length
  /\ list \subseteq Templates
  /\ txn \in [Users \cup {Worker} ->
                {Idle} \cup [of : Templates, row : Rows, date : Calendar]]
  /\ made \in [Templates -> [Months -> Nat]]
  /\ \A t \in Templates : numbers[t] \subseteq Nat
  /\ early \in [Templates -> Nat] /\ asked \in [Templates -> Nat]
  /\ raced \subseteq Templates
  /\ acts \in 0 .. MaxActs /\ crashes \in 0 .. MaxCrashes

\* However generate-now, the hourly job, its crashes and edits interleave, no cycle
\* is left out: the months before next_run_date, as many as generated_count says,
\* all have a document.  Two overlapping transactions can make a cycle twice, and
\* can set the template back, but not forward.
Covered(documentsOf, row) ==
  \A m \in Months :
    m \in row.next[1] - row.count .. row.next[1] - 1 => documentsOf[m] > 0

NoCycleMissed == \A t \in Templates : Covered(made[t], tmpl[t])

\* A cycle has one document, and generated_count counts them, unless two
\* transactions that had read the same template both wrote it.  The numbers of
\* bills that show the count make the second one fail.
OncePerCycle ==
  \A t \in Templates :
    /\ tmpl[t].way = "bySeq" => t \notin raced
    /\ t \in raced \/ \A m \in Months :
         made[t][m] = IF m \in tmpl[t].next[1] - tmpl[t].count .. tmpl[t].next[1] - 1
                      THEN 1 ELSE 0

\* The worker never runs ahead of the calendar on its own.  It can make a document
\* before the date of its cycle where generate-now has overtaken its list, but not more
\* of them than generate-now has made, whatever writes over what.
EarlyByRequest == \A t \in Templates : early[t] <= asked[t]

\* A template that is due, active and not past its end, whose month is open, does
\* not stay so: the worker makes one document after the other until it has caught
\* up, whatever other templates on its list fail and wherever it crashes.  A bill
\* numbered by the month is left out: it can make one document a month only.
Behind(t) ==
  /\ t \in Due(today) /\ tmpl[t].way # "byMonth"
  /\ tmpl[t].way = "post" => today[1] \notin locked

CatchesUp == \A t \in Templates : Behind(t) ~> ~Behind(t)
================================================================================
