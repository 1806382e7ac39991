------------------------------ MODULE Subscription ------------------------------
(****************************************************************************)
(* One tenant's subscription: the daily jobs of the worker that expire      *)
(* trials, roll billing periods and charge the card (modules/subscription), *)
(* the tenant's plan picker, pause and resume, and the console of the       *)
(* platform's operators (platform-admin/dunning-routes.ts).                 *)
(*                                                                          *)
(* Every statement commits on its own.  The worker runs one job at a time;  *)
(* the dunning job reads its list of due rows first and reaches a row later,*)
(* with a call to the payment gateway between reading and writing.  Dates   *)
(* are kept as days from today, so that time needs no bound.                *)
(****************************************************************************)
EXTENDS Integers, Sequences

CONSTANTS
  CycleDays,    \* the length of a billing period, by billing cycle
  TrialDays,    \* the length of a trial
  GraceDays,    \* SUBSCRIPTION_GRACE_DAYS
  PauseDays,    \* how many days ahead a pause can be set to end
  RetryDays,    \* retry_intervals_days of the dunning policy
  SuspendAfter, \* suspend_after_attempts of the dunning policy
  Handlers,     \* what tenant, bank and operators do in a run
  Never,        \* a date column that is NULL
  MaxLate,      \* bound on the days a job of the worker comes late
  MaxActs,      \* bound on the acts of tenant, bank and operators
  MaxCrashes    \* bound on the crashes of the worker

Cycles == DOMAIN CycleDays
Statuses == {"trial", "active", "past_due", "paused", "cancelled"}
Billed == {"active", "past_due"}

ASSUME SubscriptionAssumption ==
  /\ CycleDays \in [Cycles -> Nat] /\ "monthly" \in Cycles
  /\ TrialDays \in Nat /\ GraceDays \in Nat /\ PauseDays \subseteq Nat
  /\ RetryDays \in Seq(Nat) /\ SuspendAfter \in Nat \ {0}
  /\ Never \notin Int
  /\ MaxLate \in Nat \ {0} /\ \A c \in Cycles : MaxLate < CycleDays[c]
  /\ MaxActs \in Nat /\ MaxCrashes \in Nat

VARIABLES
  sub,      \* the row of tenant_subscriptions
  job,      \* the dunning job: where it is, and the row as its list has it
  request,  \* a request that has read the row and not yet written it
  card,     \* whether the gateway accepts the tenant's card
  paused,   \* is_paused of the dunning policy
  charged,  \* history: successful charges for the current billing period
  declines, \* history: declined charges since the last payment
  forced,   \* history: uses of retry-now
  revived,  \* history: writes of a request to a row cancelled meanwhile
  acts, crashes

vars == <<sub, job, request, card, paused, charged, declines, forced, revived,
          acts, crashes>>
history == <<declines, forced, revived, acts, crashes>>

\* The column has a date before today, or not after today.
Passed(date) == date # Never /\ date < 0
Reached(date) == date # Never /\ date <= 0

Idle == [at |-> "idle", fails |-> 0, cycle |-> "monthly", current |-> TRUE]
NoRequest == [act |-> "none", cycle |-> "monthly", resume |-> Never,
              status |-> "trial"]

\* A trial as registration creates it (identity/routes.ts).
Init ==
  /\ sub = [status |-> "trial", cycle |-> "monthly", trial |-> TrialDays,
            end |-> TrialDays, due |-> Never, resume |-> Never, fails |-> 0]
  /\ job = Idle
  /\ request = NoRequest
  /\ card \in BOOLEAN
  /\ paused = FALSE
  /\ charged = 0
  /\ declines = 0
  /\ forced = 0
  /\ revived = 0
  /\ acts = 0
  /\ crashes = 0

--------------------------------------------------------------------------------
(* Time.  A day passes unless a job the row waits for is MaxLate days late; a  *)
(* request, or a sweep once begun, is done on the same day.                   *)

Overdue ==
  LET late(date) == date # Never /\ date <= -MaxLate
  IN  \/ sub.status = "trial" /\ late(sub.trial)
      \/ sub.status \in Billed /\ (late(sub.end) \/ late(sub.due))
      \/ sub.status = "paused" /\ late(sub.resume)

\* Dates further back than MaxLate are not told apart: such a row is paused or
\* cancelled, and its dates are written before they are read again.
Yesterday(date) == IF date # Never /\ date > -MaxLate THEN date - 1 ELSE date

Day ==
  /\ ~Overdue
  /\ job.at = "idle" /\ request = NoRequest
  /\ sub' = [sub EXCEPT !.trial = Yesterday(@), !.end = Yesterday(@),
                        !.due = Yesterday(@), !.resume = Yesterday(@)]
  /\ UNCHANGED <<job, request, card, paused, charged, history>>

--------------------------------------------------------------------------------
(* expire-trials and subscription-renewal-sweep.                              *)

\* A statement that moves current_period_start begins a new period: nothing has
\* been charged for it, and a list the dunning job holds is about the last one.
NewPeriod ==
  /\ charged' = 0
  /\ job' = [job EXCEPT !.current = FALSE]

ExpireTrial ==
  /\ job.at = "idle"
  /\ sub.status = "trial" /\ Passed(sub.trial)
  /\ sub' = [sub EXCEPT !.status = "past_due", !.end = GraceDays]
  /\ NewPeriod
  /\ UNCHANGED <<request, card, paused, history>>

CancelLapsed ==
  /\ job.at = "idle"
  /\ sub.status = "past_due" /\ sub.trial # Never /\ Passed(sub.end)
  /\ sub' = [sub EXCEPT !.status = "cancelled"]
  /\ UNCHANGED <<job, request, card, paused, charged, history>>

AutoResume ==
  /\ job.at = "idle"
  /\ sub.status = "paused" /\ Passed(sub.resume)
  /\ sub' = [sub EXCEPT !.status = "active", !.resume = Never,
                        !.end = CycleDays[sub.cycle]]
  /\ NewPeriod
  /\ UNCHANGED <<request, card, paused, history>>

\* Mutant: a new period starts with a clean counter of failures.
RolledWithReset(row) ==
  [row EXCEPT !.end = @ + CycleDays[row.cycle], !.due = 0, !.fails = 0]

\* Mutant: a new period moves the dates and asks for no charge.
RolledClockOnly(row) == [row EXCEPT !.end = @ + CycleDays[row.cycle]]

Rolled(row) == [row EXCEPT !.end = @ + CycleDays[row.cycle], !.due = 0]

Rollover ==
  /\ job.at = "idle"
  /\ sub.status \in Billed /\ Passed(sub.end)
  /\ sub' = Rolled(sub)
  /\ NewPeriod
  /\ UNCHANGED <<request, card, paused, history>>

--------------------------------------------------------------------------------
(* subscription-dunning-sweep (runDunningCron).                               *)

Due(row) == row.status \in Billed /\ Reached(row.due)

Select ==
  /\ job.at = "idle"
  /\ Due(sub)
  /\ job' = [at |-> "picked", fails |-> sub.fails, cycle |-> sub.cycle,
             current |-> TRUE]
  /\ UNCHANGED <<sub, request, card, paused, charged, history>>

\* The policy is paused: look again tomorrow.
Skip ==
  /\ job.at = "picked" /\ paused
  /\ sub' = [sub EXCEPT !.due = 1]
  /\ job' = Idle
  /\ UNCHANGED <<request, card, paused, charged, history>>

\* The row of the attempt is inserted as pending, and the gateway answers.
Charge ==
  /\ job.at = "picked" /\ ~paused
  /\ job' = [job EXCEPT !.at = IF card THEN "charged" ELSE "declined"]
  /\ charged' = IF card /\ job.current THEN charged + 1 ELSE charged
  /\ declines' = IF card THEN 0 ELSE declines + 1
  /\ UNCHANGED <<sub, request, card, paused, forced, revived, acts, crashes>>

\* Mutant: the next charge is due when the paid period ends.
PaidUntilEnd(row, cycle) ==
  [row EXCEPT !.status = "active", !.fails = 0, !.due = row.end]

Paid(row, cycle) ==
  [row EXCEPT !.status = "active", !.fails = 0,
              !.due = row.end + CycleDays[cycle]]

\* Mutant: a status of its own for a subscription suspended by dunning.
FailedSuspended(row, n) ==
  IF n >= SuspendAfter \/ n > Len(RetryDays)
    THEN [row EXCEPT !.status = "suspended", !.due = Never, !.fails = n]
    ELSE [row EXCEPT !.status = "past_due", !.due = RetryDays[n], !.fails = n]

Failed(row, n) ==
  IF n >= SuspendAfter \/ n > Len(RetryDays)
    THEN [row EXCEPT !.status = "cancelled", !.due = Never, !.fails = n]
    ELSE [row EXCEPT !.status = "past_due", !.due = RetryDays[n], !.fails = n]

\* The answer is written to the row, whatever has become of it meanwhile.
Settle ==
  /\ job.at \in {"charged", "declined"}
  /\ sub' = IF job.at = "charged" THEN Paid(sub, job.cycle)
                                  ELSE Failed(sub, job.fails + 1)
  /\ job' = Idle
  /\ UNCHANGED <<request, card, paused, charged, history>>

\* The worker stops; the queue starts the job again from its first statement.
Crash ==
  /\ job.at # "idle" /\ crashes < MaxCrashes
  /\ job' = Idle
  /\ crashes' = crashes + 1
  /\ UNCHANGED <<sub, request, card, paused, charged, declines, forced, revived,
                 acts>>

--------------------------------------------------------------------------------
(* Requests of the tenant and of operators that read the row, check its       *)
(* status, and write it with a statement of their own.                        *)

Act(h) == h \in Handlers /\ acts < MaxActs /\ acts' = acts + 1

Request(h, cycle, resume) ==
  /\ request = NoRequest
  /\ Act(h)
  /\ CASE h = "change-plan" -> sub.status # "cancelled" /\ resume = Never
       [] h = "assign-plan" -> sub.status # "cancelled" /\ resume = Never
       [] h = "pause"       -> sub.status \notin {"paused", "cancelled"}
                               /\ cycle = sub.cycle
       [] h = "resume"      -> sub.status = "paused" /\ resume = Never
                               /\ cycle = sub.cycle
       [] h = "mark-paid"   -> sub.status \in Billed /\ resume = Never
                               /\ cycle = sub.cycle
  /\ request' = [act |-> h, cycle |-> cycle, resume |-> resume,
                 status |-> sub.status]
  /\ UNCHANGED <<sub, job, card, paused, charged, declines, forced, revived,
                 crashes>>

\* The plan picker: "this IS the payment received hook".
ChangePlan ==
  /\ request.act = "change-plan"
  /\ sub' = [sub EXCEPT !.status = "active", !.cycle = request.cycle,
                        !.trial = Never, !.end = CycleDays[request.cycle]]
  /\ NewPeriod

\* An operator assigns a plan, and may end the trial; the status is written back
\* as it was read.
AssignPlan ==
  /\ request.act = "assign-plan"
  /\ \E endTrial \in BOOLEAN :
       sub' = [sub EXCEPT
                 !.status = IF endTrial /\ request.status = "trial"
                              THEN "active" ELSE request.status,
                 !.cycle = request.cycle,
                 !.trial = IF endTrial THEN Never ELSE @]
  /\ UNCHANGED <<job, charged>>

Pause ==
  /\ request.act = "pause"
  /\ sub' = [sub EXCEPT !.status = "paused", !.resume = request.resume]
  /\ UNCHANGED <<job, charged>>

Resume ==
  /\ request.act = "resume"
  /\ sub' = [sub EXCEPT !.status = "active", !.resume = Never,
                        !.end = CycleDays[request.cycle]]
  /\ NewPeriod

MarkPaid ==
  /\ request.act = "mark-paid"
  /\ sub' = Paid(sub, request.cycle)
  /\ UNCHANGED <<job, charged>>

Apply ==
  /\ ChangePlan \/ AssignPlan \/ Pause \/ Resume \/ MarkPaid
  /\ request' = NoRequest
  /\ revived' = IF sub.status = "cancelled" THEN revived + 1 ELSE revived
  /\ declines' = IF request.act = "mark-paid" THEN 0 ELSE declines
  /\ UNCHANGED <<card, paused, forced, acts, crashes>>

--------------------------------------------------------------------------------
(* Acts of operators that are one guarded statement, and the tenant's bank.   *)

RetryNow ==
  /\ Act("retry-now")
  /\ sub.status \in Billed
  /\ sub' = [sub EXCEPT !.due = 0]
  /\ forced' = forced + 1
  /\ UNCHANGED <<job, request, card, paused, charged, declines, revived, crashes>>

SuspendNow ==
  /\ Act("suspend-now")
  /\ sub.status \in Billed
  /\ sub' = [sub EXCEPT !.status = "cancelled", !.due = Never]
  /\ UNCHANGED <<job, request, card, paused, charged, declines, forced, revived,
                 crashes>>

SetPolicy ==
  /\ Act("policy")
  /\ paused' = ~paused
  /\ UNCHANGED <<sub, job, request, card, charged, declines, forced, revived,
                 crashes>>

CardChanges ==
  /\ Act("card")
  /\ card' = ~card
  /\ UNCHANGED <<sub, job, request, paused, charged, declines, forced, revived,
                 crashes>>

Next ==
  \/ Day
  \/ ExpireTrial \/ CancelLapsed \/ AutoResume \/ Rollover
  \/ Select \/ Skip \/ Charge \/ Settle \/ Crash
  \/ \E h \in Handlers \cap {"change-plan", "assign-plan", "pause", "resume",
                             "mark-paid"},
        cycle \in Cycles, resume \in PauseDays \cup {Never} :
          Request(h, cycle, resume)
  \/ Apply
  \/ RetryNow \/ SuspendNow \/ SetPolicy \/ CardChanges

Spec == Init /\ [][Next]_vars

\* Time passes; the queue is first in, first out with one worker, so a job that
\* keeps finding a row to work on gets its turn; a job or request that has
\* started goes on.
Fairness ==
  /\ WF_vars(Day)
  /\ SF_vars(ExpireTrial) /\ SF_vars(CancelLapsed) /\ SF_vars(AutoResume)
  /\ SF_vars(Rollover) /\ SF_vars(Select)
  /\ WF_vars(Skip) /\ WF_vars(Charge) /\ WF_vars(Settle)
  /\ WF_vars(Apply)

FairSpec == Spec /\ Fairness

--------------------------------------------------------------------------------

Dates == {Never} \cup Int

TypeOK ==
  /\ sub \in [status : Statuses, cycle : Cycles, trial : Dates, end : Int,
              due : Dates, resume : Dates, fails : Nat]
  /\ job \in [at : {"idle", "picked", "charged", "declined"}, fails : Nat,
              cycle : Cycles, current : BOOLEAN]
  /\ request \in [act : {"none", "change-plan", "assign-plan", "pause", "resume",
                         "mark-paid"},
                  cycle : Cycles, resume : Dates, status : Statuses]
  /\ card \in BOOLEAN /\ paused \in BOOLEAN
  /\ charged \in Nat /\ declines \in Nat /\ forced \in Nat /\ revived \in Nat
  /\ acts \in 0 .. MaxActs /\ crashes \in 0 .. MaxCrashes

\* The attempts a dunning policy allows before the subscription is cancelled.
Attempts ==
  IF SuspendAfter <= Len(RetryDays) THEN SuspendAfter ELSE Len(RetryDays) + 1

\* The card is charged at most once for a billing period, whatever the tenant and
\* the operators do between the daily jobs.  Two things add a charge: a worker
\* that stops between the gateway's answer and the update (dunning-cron.ts:299)
\* and an operator's retry-now.
ChargedOnce == charged <= 1 + crashes + forced

\* A card that keeps being declined is tried no more often than the policy says,
\* across billing periods, pauses and changes of plan: the counter of failures
\* survives all of them.  An unrecorded answer adds one attempt, and so does a
\* request that brings a subscription back that was cancelled under it.
DeclinesBounded == declines <= Attempts + crashes + revived

\* While the policy is not paused, a past-due subscription does not stay so: it
\* recovers, or is cancelled, or is paused.
PastDueResolves ==
  <>[]~paused => (sub.status = "past_due" ~> sub.status # "past_due")

\* A tenant whose card is declined for good ends up without service, whether it
\* never paid, was past due, changed its plan or paused for a while.
UnpaidIsCancelled ==
  <>[](~card /\ ~paused) => <>[](sub.status \in {"cancelled", "paused"})
================================================================================
