--------------------------- MODULE SubscriptionProofs ---------------------------
(****************************************************************************)
(* Proofs that the card is charged once for a billing period and tried no   *)
(* more often than the dunning policy says, for any periods, policies and   *)
(* bounds, whatever tenant and operators do between the steps of the jobs.  *)
(****************************************************************************)
EXTENDS Subscription, TLAPS

\* What allows a charge more than one.
Extra == crashes + forced

\* A request that writes back the status that it has read.
Pending(status) == request.act # "none" /\ request.status = status

\* The row is billed or on trial, or a request will make it so again today.
Live ==
  \E status \in Billed \cup {"trial"} : sub.status = status \/ Pending(status)

\* The next charge is due after the period has ended, however late that is noticed.
Later(row) == row.due = Never \/ row.due > row.end + MaxLate

\* The list of the dunning job is of an unpaid row, or of an earlier period.  A row that
\* is paid for has its next charge in a later period, once the answer is written to it.
ChargeInv ==
  /\ charged <= 1 + Extra
  /\ job.at \in {"picked", "declined"} => charged <= Extra
  /\ job.at # "idle" /\ ~job.current => charged = 0
  /\ charged > Extra /\ job.at # "charged" /\ Live => Later(sub)

\* A trial does not outlast its period, so that its dates are all told apart.
DatesInv ==
  /\ sub.end >= -MaxLate
  /\ sub.status = "trial" \/ Pending("trial") => sub.trial # Never /\ sub.end >= sub.trial
  /\ Pending("trial") => sub.status # "paused"

\* The counter of failures has all the declined charges, but for an answer not written
\* yet or lost; it stays below the limit unless the row is cancelled or was revived.
FailsInv ==
  /\ sub.fails <= Attempts + revived
  /\ sub.status # "cancelled" => sub.fails < Attempts + revived
  /\ job.at # "idle" => job.fails < Attempts + revived

DeclinesInv ==
  /\ declines <= sub.fails + crashes + (IF job.at = "declined" THEN 1 ELSE 0)
  /\ job.at = "picked" => declines <= job.fails + crashes
  /\ job.at = "declined" => declines <= job.fails + 1 + crashes
  /\ job.at = "charged" => declines = 0

Inv == TypeOK /\ DatesInv /\ ChargeInv /\ FailsInv /\ DeclinesInv

--------------------------------------------------------------------------------
\* The limit of a policy, as the failed attempts come to it.
LEMMA AttemptsFacts ==
  /\ Len(RetryDays) \in Nat /\ Attempts \in Nat /\ Attempts >= 1
  /\ \A n \in Nat : n < Attempts <=> ~(n >= SuspendAfter \/ n > Len(RetryDays))
  /\ \A n \in Nat : n >= 1 /\ n < Attempts => RetryDays[n] \in Nat
<1>1. Len(RetryDays) \in Nat /\ DOMAIN RetryDays = 1 .. Len(RetryDays)
      /\ \A n \in 1 .. Len(RetryDays) : RetryDays[n] \in Nat
  BY SubscriptionAssumption
<1>2. Attempts \in Nat /\ Attempts >= 1
      /\ \A n \in Nat : n < Attempts <=> ~(n >= SuspendAfter \/ n > Len(RetryDays))
  BY <1>1, SubscriptionAssumption DEF Attempts
<1> QED BY <1>1, <1>2

\* The lengths of the periods are numbers, longer than a job can be late.
LEMMA CycleFacts ==
  /\ \A c \in Cycles : CycleDays[c] \in Nat /\ CycleDays[c] > MaxLate
  /\ "monthly" \in Cycles /\ Never \notin Int
  /\ TrialDays \in Nat /\ GraceDays \in Nat /\ MaxLate \in Nat \ {0}
  /\ MaxActs \in Nat /\ MaxCrashes \in Nat /\ PauseDays \subseteq Nat
BY SubscriptionAssumption

--------------------------------------------------------------------------------
(* Types.                                                                     *)

Rows == [status : Statuses, cycle : Cycles, trial : Dates, end : Int,
         due : Dates, resume : Dates, fails : Nat]
Jobs == [at : {"idle", "picked", "charged", "declined"}, fails : Nat,
         cycle : Cycles, current : BOOLEAN]
RequestsOf == [act : {"none", "change-plan", "assign-plan", "pause", "resume",
                      "mark-paid"},
               cycle : Cycles, resume : Dates, status : Statuses]
Counters ==
  /\ card \in BOOLEAN /\ paused \in BOOLEAN
  /\ charged \in Nat /\ declines \in Nat /\ forced \in Nat /\ revived \in Nat
  /\ acts \in 0 .. MaxActs /\ crashes \in 0 .. MaxCrashes

\* TypeOK in four parts, which the proofs below take one at a time.
LEMMA TypeParts ==
  TypeOK <=> sub \in Rows /\ job \in Jobs /\ request \in RequestsOf /\ Counters
BY DEF TypeOK, Rows, Jobs, RequestsOf, Counters

\* What is written to the row has its type.
LEMMA RowWrites ==
  ASSUME NEW row \in Rows
  PROVE  /\ \A cycle \in Cycles : Paid(row, cycle) \in Rows
         /\ \A n \in Nat : n >= 1 => Failed(row, n) \in Rows
         /\ Rolled(row) \in Rows
         /\ \A st \in Statuses : [row EXCEPT !.status = st] \in Rows
         /\ \A date \in Dates : [row EXCEPT !.due = date] \in Rows
         /\ \A days \in Int : [row EXCEPT !.end = days] \in Rows
<1>1. ASSUME NEW cycle \in Cycles PROVE Paid(row, cycle) \in Rows
  <2>1. row.end \in Int /\ row.end + CycleDays[cycle] \in Int
    BY CycleFacts DEF Rows
  <2>2. PICK date \in Int : date = row.end + CycleDays[cycle]
    BY <2>1
  <2>3. Paid(row, cycle) = [row EXCEPT !.status = "active", !.fails = 0, !.due = date]
    BY <2>2 DEF Paid
  <2>4. "active" \in Statuses /\ 0 \in Nat /\ date \in Dates
    BY DEF Statuses, Dates
  <2> QED BY <2>3, <2>4 DEF Rows
<1>2. ASSUME NEW n \in Nat, n >= 1 PROVE Failed(row, n) \in Rows
  <2>1. CASE n < Attempts
    <3>1. RetryDays[n] \in Nat
      BY <1>2, <2>1, AttemptsFacts
    <3>2. Failed(row, n) = [row EXCEPT !.status = "past_due", !.due = RetryDays[n], !.fails = n]
      BY <2>1, AttemptsFacts DEF Failed
    <3>3. "past_due" \in Statuses /\ RetryDays[n] \in Dates
      BY <3>1 DEF Statuses, Dates
    <3> QED BY <3>2, <3>3 DEF Rows
  <2>2. CASE ~(n < Attempts)
    <3>1. Failed(row, n) = [row EXCEPT !.status = "cancelled", !.due = Never, !.fails = n]
      BY <2>2, AttemptsFacts DEF Failed
    <3> QED BY <3>1 DEF Rows, Statuses, Dates
  <2> QED BY <2>1, <2>2
<1>3. Rolled(row) \in Rows
  <2>1. PICK date \in Int : date = row.end + CycleDays[row.cycle]
    BY CycleFacts DEF Rows
  <2>2. Rolled(row) = [row EXCEPT !.end = date, !.due = 0] /\ 0 \in Dates
    BY <2>1 DEF Rolled, Dates
  <2> QED BY <2>1, <2>2 DEF Rows
<1>4. /\ \A st \in Statuses : [row EXCEPT !.status = st] \in Rows
      /\ \A date \in Dates : [row EXCEPT !.due = date] \in Rows
      /\ \A days \in Int : [row EXCEPT !.end = days] \in Rows
  BY DEF Rows
<1> QED BY <1>1, <1>2, <1>3, <1>4

\* A subscription starts on its trial, with a row of its type.
LEMMA InitType == Init => TypeOK
<1> SUFFICES ASSUME Init PROVE TypeOK
  OBVIOUS
<1>1. sub \in Rows
  <2>1. TrialDays \in Dates /\ Never \in Dates /\ "trial" \in Statuses
    BY CycleFacts DEF Dates, Statuses
  <2>2. TrialDays \in Int /\ "monthly" \in Cycles
    BY CycleFacts
  <2> QED BY <2>1, <2>2 DEF Init, Rows
<1>2. job \in Jobs
  BY CycleFacts DEF Init, Idle, Jobs
<1>3. request \in RequestsOf
  BY CycleFacts DEF Init, NoRequest, RequestsOf, Dates, Statuses
<1>4. Counters
  <2>1. card \in BOOLEAN /\ paused \in BOOLEAN
    BY DEF Init
  <2>2. 0 \in 0 .. MaxActs /\ 0 \in 0 .. MaxCrashes
    BY CycleFacts
  <2> QED BY <2>1, <2>2 DEF Init, Counters
<1> QED BY <1>1, <1>2, <1>3, <1>4, TypeParts

\* A new period, an idle job, no request: what most steps leave behind.
LEMMA Constants ==
  /\ Idle \in Jobs /\ NoRequest \in RequestsOf
  /\ \A j \in Jobs : [j EXCEPT !.current = FALSE] \in Jobs
<1>1. Idle \in Jobs
  BY CycleFacts DEF Idle, Jobs
<1>2. NoRequest \in RequestsOf
  BY CycleFacts DEF NoRequest, RequestsOf, Dates, Statuses
<1> QED BY <1>1, <1>2 DEF Jobs

\* Every step of the jobs, the gateway and the endpoints keeps the types.
LEMMA NextType == TypeOK /\ [Next]_vars => TypeOK'
<1> SUFFICES ASSUME TypeOK, [Next]_vars
             PROVE  sub' \in Rows /\ job' \in Jobs /\ request' \in RequestsOf /\ Counters'
  BY DEF TypeOK, Rows, Jobs, RequestsOf, Counters
<1>0. sub \in Rows /\ job \in Jobs /\ request \in RequestsOf /\ Counters
  BY TypeParts
<1>9. /\ sub.status \in Statuses /\ sub.cycle \in Cycles /\ sub.end \in Int
      /\ sub.trial \in Dates /\ sub.due \in Dates /\ sub.resume \in Dates
      /\ sub.fails \in Nat
      /\ job.fails \in Nat /\ job.cycle \in Cycles
      /\ request.cycle \in Cycles /\ request.resume \in Dates
      /\ request.status \in Statuses
      /\ {"trial", "active", "past_due", "paused", "cancelled"} = Statuses
      /\ Never \in Dates /\ Int \subseteq Dates
  BY <1>0 DEF Rows, Jobs, RequestsOf, Statuses, Dates
<1>1. CASE UNCHANGED vars
  BY <1>0, <1>1 DEF vars, Counters
<1>2. CASE Day
  <2>1. \A date \in Dates : Yesterday(date) \in Dates
    BY CycleFacts DEF Yesterday, Dates
  <2>2. Yesterday(sub.end) \in Int
    BY <1>9, CycleFacts DEF Yesterday
  <2>3. sub' \in Rows
    BY <1>0, <1>2, <1>9, <2>1, <2>2 DEF Day, Rows
  <2> QED BY <1>0, <1>2, <2>3 DEF Day, Counters, history
<1>3. CASE ExpireTrial \/ CancelLapsed \/ AutoResume \/ Rollover
  <2>1. CASE ExpireTrial
    <3>1. GraceDays \in Int
      BY CycleFacts
    <3>2. sub' \in Rows
      BY <1>0, <1>9, <2>1, <3>1 DEF ExpireTrial, Rows
    <3> QED BY <1>0, <2>1, <3>2, Constants DEF ExpireTrial, NewPeriod, Counters, history
  <2>2. CASE CancelLapsed
    <3>1. sub' \in Rows
      BY <1>0, <1>9, <2>2 DEF CancelLapsed, Rows
    <3> QED BY <1>0, <2>2, <3>1 DEF CancelLapsed, Counters, history
  <2>3. CASE AutoResume
    <3>1. CycleDays[sub.cycle] \in Int
      BY <1>9, CycleFacts
    <3>2. sub' \in Rows
      BY <1>0, <1>9, <2>3, <3>1 DEF AutoResume, Rows
    <3> QED BY <1>0, <2>3, <3>2, Constants DEF AutoResume, NewPeriod, Counters, history
  <2>4. CASE Rollover
    <3>1. sub' \in Rows
      BY <1>0, <2>4, RowWrites DEF Rollover
    <3> QED BY <1>0, <2>4, <3>1, Constants DEF Rollover, NewPeriod, Counters, history
  <2> QED BY <1>3, <2>1, <2>2, <2>3, <2>4
<1>4. CASE Select \/ Skip \/ Charge \/ Crash
  <2>1. CASE Select
    <3>1. job' \in Jobs
      BY <1>9, <2>1 DEF Select, Jobs
    <3> QED BY <1>0, <2>1, <3>1 DEF Select, Counters, history
  <2>2. CASE Skip
    <3>1. sub' \in Rows
      BY <1>0, <1>9, <2>2 DEF Skip, Rows
    <3> QED BY <1>0, <2>2, <3>1, Constants DEF Skip, Counters, history
  <2>3. CASE Charge
    <3>1. job' \in Jobs
      BY <1>0, <2>3 DEF Charge, Jobs
    <3> QED BY <1>0, <2>3, <3>1 DEF Charge, Counters
  <2>4. CASE Crash
    BY <1>0, <2>4, Constants, CycleFacts DEF Crash, Counters
  <2> QED BY <1>4, <2>1, <2>2, <2>3, <2>4
<1>5. CASE Settle
  <2>1. sub' \in {Paid(sub, job.cycle), Failed(sub, job.fails + 1)}
    BY <1>5 DEF Settle
  <2>2. sub' \in Rows
    BY <1>0, <1>9, <2>1, RowWrites
  <2> QED BY <1>0, <1>5, <2>2, Constants DEF Settle, Counters, history
<1>6. ASSUME NEW h \in Handlers \cap {"change-plan", "assign-plan", "pause", "resume",
                                    "mark-paid"},
             NEW cycle \in Cycles, NEW resume \in PauseDays \cup {Never},
             Request(h, cycle, resume)
      PROVE  sub' \in Rows /\ job' \in Jobs /\ request' \in RequestsOf /\ Counters'
  <2>1. resume \in Dates
    BY CycleFacts DEF Dates
  <2>2. request' = [act |-> h, cycle |-> cycle, resume |-> resume, status |-> sub.status]
    BY <1>6 DEF Request
  <2>3. request' \in RequestsOf
    BY <1>9, <2>1, <2>2 DEF RequestsOf
  <2>4. /\ UNCHANGED <<sub, job, card, paused, charged, declines, forced, revived, crashes>>
        /\ acts < MaxActs /\ acts' = acts + 1
    BY <1>6 DEF Request, Act
  <2> QED BY <1>0, <2>3, <2>4, CycleFacts DEF Counters
<1>7. CASE Apply
  <2>1. /\ request' = NoRequest /\ revived' \in {revived, revived + 1}
        /\ declines' \in {0, declines} /\ UNCHANGED <<card, paused, forced, acts, crashes>>
    BY <1>7 DEF Apply
  <2>2. sub' \in Rows /\ job' \in Jobs /\ charged' \in {0, charged}
    <3>1. CycleDays[request.cycle] \in Int
      BY <1>9, CycleFacts
    <3>2. CASE ChangePlan
      BY <1>0, <1>9, <3>1, <3>2, Constants DEF ChangePlan, NewPeriod, Rows
    <3>3. CASE AssignPlan
      <4>1. PICK st \in Statuses, date \in Dates :
              sub' = [sub EXCEPT !.status = st, !.cycle = request.cycle, !.trial = date]
        BY <1>9, <3>3 DEF AssignPlan
      <4> QED BY <1>0, <1>9, <3>3, <4>1 DEF AssignPlan, Rows
    <3>4. CASE Pause
      BY <1>0, <1>9, <3>4 DEF Pause, Rows
    <3>5. CASE Resume
      BY <1>0, <1>9, <3>1, <3>5, Constants DEF Resume, NewPeriod, Rows
    <3>6. CASE MarkPaid
      BY <1>0, <1>9, <3>6, RowWrites DEF MarkPaid
    <3> QED BY <1>7, <3>2, <3>3, <3>4, <3>5, <3>6 DEF Apply
  <2> QED BY <1>0, <2>1, <2>2, Constants DEF Counters
<1>8. CASE RetryNow \/ SuspendNow \/ SetPolicy \/ CardChanges
  <2>1. sub' \in Rows
    <3>1. CASE RetryNow
      <4>1. sub' = [sub EXCEPT !.due = 0] /\ 0 \in Dates
        BY <1>9, <3>1 DEF RetryNow
      <4> QED BY <1>0, <4>1 DEF Rows
    <3>2. CASE SuspendNow
      <4>1. sub' = [sub EXCEPT !.status = "cancelled", !.due = Never]
            /\ "cancelled" \in Statuses
        BY <1>9, <3>2 DEF SuspendNow
      <4> QED BY <1>0, <1>9, <4>1 DEF Rows
    <3>3. CASE SetPolicy \/ CardChanges
      BY <1>0, <3>3 DEF SetPolicy, CardChanges
    <3> QED BY <1>8, <3>1, <3>2, <3>3
  <2>2. /\ UNCHANGED <<job, request, charged, declines, revived, crashes>>
        /\ forced' \in {forced, forced + 1} /\ acts < MaxActs /\ acts' = acts + 1
        /\ card' \in {card, ~card} /\ paused' \in {paused, ~paused}
    BY <1>8 DEF RetryNow, SuspendNow, SetPolicy, CardChanges, Act
  <2>3. card' \in BOOLEAN /\ paused' \in BOOLEAN
    BY <1>0, <2>2 DEF Counters
  <2> QED BY <1>0, <2>1, <2>2, <2>3, CycleFacts DEF Counters
<1> QED BY <1>1, <1>2, <1>3, <1>4, <1>5, <1>6, <1>7, <1>8 DEF Next

\* The columns of the row, and what the job and a request hold, one by one.
LEMMA Typed ==
  ASSUME TypeOK
  PROVE  /\ sub \in Rows /\ job \in Jobs /\ request \in RequestsOf
         /\ sub.status \in Statuses /\ sub.cycle \in Cycles /\ sub.end \in Int
         /\ sub.trial \in Int \cup {Never} /\ sub.due \in Int \cup {Never}
         /\ sub.resume \in Int \cup {Never} /\ sub.fails \in Nat
         /\ job.at \in {"idle", "picked", "charged", "declined"} /\ job.fails \in Nat
         /\ job.cycle \in Cycles /\ job.current \in BOOLEAN
         /\ request.cycle \in Cycles /\ request.status \in Statuses
         /\ charged \in Nat /\ declines \in Nat /\ forced \in Nat /\ revived \in Nat
         /\ acts \in Int /\ crashes \in Nat
<1>1. sub \in Rows /\ job \in Jobs /\ request \in RequestsOf /\ Counters
  BY TypeParts
<1>2. crashes \in Nat /\ acts \in Int
  BY <1>1, CycleFacts DEF Counters
<1> QED BY <1>1, <1>2 DEF Rows, Jobs, RequestsOf, Counters, Dates

--------------------------------------------------------------------------------
(* The dates of a row.                                                        *)

\* Every step keeps the next attempt and the end of the period in order.
LEMMA DatesNext == TypeOK /\ DatesInv /\ [Next]_vars => DatesInv'
<1> SUFFICES ASSUME TypeOK, DatesInv, [Next]_vars PROVE DatesInv'
  OBVIOUS
<1> USE DEF Rows
<1>0. CycleDays[sub.cycle] > MaxLate /\ CycleDays[request.cycle] > MaxLate
      /\ CycleDays[sub.cycle] \in Nat /\ CycleDays[request.cycle] \in Nat
  BY Typed, CycleFacts
<1>1. CASE UNCHANGED vars
  BY <1>1 DEF vars, DatesInv, Pending
<1>2. CASE Day
  <2>1. request' = request /\ request.act = "none"
    BY <1>2 DEF Day, NoRequest
  <2>2. sub'.end = Yesterday(sub.end) /\ sub'.trial = Yesterday(sub.trial)
        /\ sub'.status = sub.status
    BY <1>2, Typed DEF Day
  <2>3. sub.status = "trial" => sub.trial \in Int /\ sub.trial > -MaxLate
    BY <1>2, Typed, CycleFacts DEF Day, Overdue, DatesInv
  <2>4. sub.end >= -MaxLate /\ sub.end \in Int
    BY Typed DEF DatesInv
  <2>5. Yesterday(sub.end) >= -MaxLate
    BY <2>4, CycleFacts DEF Yesterday
  <2>6. sub.status = "trial" => Yesterday(sub.trial) # Never
                                /\ Yesterday(sub.end) >= Yesterday(sub.trial)
    BY <2>3, <2>4, CycleFacts DEF Yesterday, DatesInv
  <2> QED BY <2>1, <2>2, <2>5, <2>6 DEF DatesInv, Pending
<1>3. CASE ExpireTrial
  BY <1>3, Typed, CycleFacts DEF ExpireTrial, Passed, DatesInv, Pending
<1>4. CASE CancelLapsed
  BY <1>4, Typed DEF CancelLapsed, DatesInv, Pending
<1>5. CASE AutoResume
  BY <1>0, <1>5, Typed, CycleFacts DEF AutoResume, DatesInv, Pending
<1>6. CASE Rollover
  BY <1>0, <1>6, Typed, CycleFacts DEF Rollover, Rolled, Billed, DatesInv, Pending
<1>7. CASE Select \/ Skip \/ Charge \/ Crash
  BY <1>7, Typed DEF Select, Skip, Charge, Crash, DatesInv, Pending
<1>8. CASE Settle
  BY <1>8, Typed DEF Settle, Paid, Failed, DatesInv, Pending
<1>9. CASE \E h \in Handlers \cap {"change-plan", "assign-plan", "pause", "resume",
                                   "mark-paid"},
             cycle \in Cycles, resume \in PauseDays \cup {Never} :
               Request(h, cycle, resume)
  <2>1. sub' = sub /\ request'.status = sub.status
    BY <1>9 DEF Request
  <2> QED BY <2>1 DEF DatesInv, Pending
<1>10. CASE Apply
  <2>1. request'.act = "none"
    BY <1>10 DEF Apply, NoRequest
  <2>2. sub'.end >= -MaxLate
    <3>1. sub'.end = sub.end \/ sub'.end = CycleDays[request.cycle]
      BY <1>10, Typed DEF Apply, ChangePlan, AssignPlan, Pause, Resume, MarkPaid, Paid
    <3> QED BY <1>0, <3>1, CycleFacts DEF DatesInv
  <2>3. sub'.status # "trial" \/ /\ sub'.trial = sub.trial /\ sub'.end = sub.end
                                 /\ Pending("trial")
    <3>1. CASE ChangePlan
      BY <3>1, Typed DEF ChangePlan
    <3>2. CASE AssignPlan
      <4>1. PICK endTrial \in BOOLEAN :
              sub' = [sub EXCEPT
                        !.status = IF endTrial /\ request.status = "trial"
                                     THEN "active" ELSE request.status,
                        !.cycle = request.cycle,
                        !.trial = IF endTrial THEN Never ELSE @]
        BY <3>2 DEF AssignPlan
      <4>2. request.act # "none"
        BY <3>2 DEF AssignPlan
      <4> QED BY <4>1, <4>2, Typed DEF Pending
    <3>3. CASE Pause
      BY <3>3, Typed DEF Pause
    <3>4. CASE Resume
      BY <3>4, Typed DEF Resume
    <3>5. CASE MarkPaid
      BY <3>5, Typed DEF MarkPaid, Paid
    <3> QED BY <1>10, <3>1, <3>2, <3>3, <3>4, <3>5 DEF Apply
  <2> QED BY <2>1, <2>2, <2>3, Typed DEF DatesInv, Pending
<1>11. CASE RetryNow \/ SuspendNow \/ SetPolicy \/ CardChanges
  BY <1>11, Typed DEF RetryNow, SuspendNow, SetPolicy, CardChanges, DatesInv, Pending
<1> QED BY <1>1, <1>2, <1>3, <1>4, <1>5, <1>6, <1>7, <1>8, <1>9, <1>10, <1>11 DEF Next

--------------------------------------------------------------------------------
(* Failures and declined charges.                                             *)

\* Every step keeps the count of failed attempts below the number of attempts.
LEMMA FailsNext == TypeOK /\ FailsInv /\ [Next]_vars => FailsInv'
<1> SUFFICES ASSUME TypeOK, FailsInv, [Next]_vars PROVE FailsInv'
  OBVIOUS
<1> USE DEF Rows, Jobs
<1>0. Attempts \in Nat /\ Attempts >= 1
  BY AttemptsFacts
<1>1. CASE UNCHANGED vars
  BY <1>1 DEF vars, FailsInv
<1>2. CASE Day
  BY <1>2, Typed DEF Day, FailsInv, history
<1>3. CASE ExpireTrial
  BY <1>3, Typed DEF ExpireTrial, NewPeriod, FailsInv, history
<1>4. CASE CancelLapsed
  BY <1>4, Typed DEF CancelLapsed, FailsInv, history
<1>5. CASE AutoResume
  BY <1>5, Typed DEF AutoResume, NewPeriod, FailsInv, history
<1>6. CASE Rollover
  BY <1>6, Typed DEF Rollover, Rolled, NewPeriod, FailsInv, history, Billed
<1>7. CASE Select
  BY <1>7, Typed DEF Select, Due, Billed, FailsInv, history
<1>8. CASE Skip \/ Charge \/ Crash
  BY <1>8, Typed DEF Skip, Charge, Crash, Idle, FailsInv, history
<1>9. CASE Settle
  <2>1. job'.at = "idle" /\ revived' = revived
    BY <1>9 DEF Settle, Idle, history
  <2>2. CASE job.at = "charged"
    <3>1. sub'.fails = 0
      BY <1>9, <2>2, Typed DEF Settle, Paid
    <3> QED BY <1>0, <2>1, <3>1, Typed DEF FailsInv
  <2>3. CASE job.at = "declined"
    <3>1. job.fails + 1 \in Nat /\ job.fails + 1 <= Attempts + revived
      BY <1>0, <2>3, Typed DEF FailsInv
    <3>2. sub' = Failed(sub, job.fails + 1)
      BY <1>9, <2>3 DEF Settle
    <3>3. sub'.fails = job.fails + 1
      BY <3>2, Typed DEF Failed
    <3>4. sub'.status # "cancelled" => job.fails + 1 < Attempts
      BY <3>1, <3>2, AttemptsFacts, Typed DEF Failed
    <3> QED BY <1>0, <2>1, <3>1, <3>3, <3>4, Typed DEF FailsInv
  <2> QED BY <1>9, <2>2, <2>3 DEF Settle
<1>10. CASE \E h \in Handlers \cap {"change-plan", "assign-plan", "pause", "resume",
                                    "mark-paid"},
              cycle \in Cycles, resume \in PauseDays \cup {Never} :
                Request(h, cycle, resume)
  BY <1>10 DEF Request, FailsInv
<1>11. CASE Apply
  <2>1. sub'.fails \in {0, sub.fails}
    BY <1>11, Typed
       DEF Apply, ChangePlan, AssignPlan, Pause, Resume, MarkPaid, Paid
  <2>2. job'.at = job.at /\ job'.fails = job.fails
    BY <1>11, Typed
       DEF Apply, ChangePlan, AssignPlan, Pause, Resume, MarkPaid, NewPeriod
  <2>3. revived' = IF sub.status = "cancelled" THEN revived + 1 ELSE revived
    BY <1>11 DEF Apply
  <2> QED BY <1>0, <2>1, <2>2, <2>3, Typed DEF FailsInv
<1>12. CASE RetryNow \/ SuspendNow \/ SetPolicy \/ CardChanges
  BY <1>12, Typed DEF RetryNow, SuspendNow, SetPolicy, CardChanges, FailsInv, Billed
<1> QED BY <1>1, <1>2, <1>3, <1>4, <1>5, <1>6, <1>7, <1>8, <1>9, <1>10, <1>11, <1>12
        DEF Next

\* Every step keeps the declined charges within what the failures, crashes and
\* revivals account for.
LEMMA DeclinesNext == TypeOK /\ DeclinesInv /\ [Next]_vars => DeclinesInv'
<1> SUFFICES ASSUME TypeOK, DeclinesInv, [Next]_vars PROVE DeclinesInv'
  OBVIOUS
<1> USE DEF Rows, Jobs
<1>1. CASE UNCHANGED vars
  BY <1>1 DEF vars, DeclinesInv
<1>2. CASE Day
  BY <1>2, Typed DEF Day, DeclinesInv, history
<1>3. CASE ExpireTrial
  BY <1>3, Typed DEF ExpireTrial, NewPeriod, DeclinesInv, history
<1>4. CASE CancelLapsed
  BY <1>4, Typed DEF CancelLapsed, DeclinesInv, history
<1>5. CASE AutoResume
  BY <1>5, Typed DEF AutoResume, NewPeriod, DeclinesInv, history
<1>6. CASE Rollover
  BY <1>6, Typed DEF Rollover, Rolled, NewPeriod, DeclinesInv, history
<1>7. CASE Select
  BY <1>7, Typed DEF Select, DeclinesInv, history
<1>8. CASE Skip
  BY <1>8, Typed DEF Skip, Idle, DeclinesInv, history
<1>9. CASE Charge
  BY <1>9, Typed DEF Charge, DeclinesInv
<1>10. CASE Settle
  BY <1>10, Typed DEF Settle, Paid, Failed, Idle, DeclinesInv, history
<1>11. CASE Crash
  BY <1>11, Typed DEF Crash, Idle, DeclinesInv
<1>12. CASE \E h \in Handlers \cap {"change-plan", "assign-plan", "pause", "resume",
                                    "mark-paid"},
              cycle \in Cycles, resume \in PauseDays \cup {Never} :
                Request(h, cycle, resume)
  BY <1>12 DEF Request, DeclinesInv
<1>13. CASE Apply
  <2>1. /\ job'.at = job.at /\ job'.fails = job.fails /\ crashes' = crashes
        /\ declines' = IF request.act = "mark-paid" THEN 0 ELSE declines
    BY <1>13, Typed
       DEF Apply, ChangePlan, AssignPlan, Pause, Resume, MarkPaid, NewPeriod
  <2>2. sub'.fails = IF request.act = "mark-paid" THEN 0 ELSE sub.fails
    BY <1>13, Typed
       DEF Apply, ChangePlan, AssignPlan, Pause, Resume, MarkPaid, Paid
  <2> QED BY <2>1, <2>2, Typed DEF DeclinesInv
<1>14. CASE RetryNow \/ SuspendNow \/ SetPolicy \/ CardChanges
  BY <1>14, Typed DEF RetryNow, SuspendNow, SetPolicy, CardChanges, DeclinesInv
<1> QED BY <1>1, <1>2, <1>3, <1>4, <1>5, <1>6, <1>7, <1>8, <1>9, <1>10, <1>11, <1>12,
           <1>13, <1>14 DEF Next

--------------------------------------------------------------------------------
(* Charges for a billing period.                                              *)

\* The next charge of a row that is paid for comes after its period.
LEMMA PaidIsLater ==
  ASSUME NEW row \in Rows, NEW cycle \in Cycles
  PROVE  Later(Paid(row, cycle))
BY CycleFacts DEF Later, Paid, Rows

\* A row whose period has been charged enough is not due.
LEMMA LaterIsNotDue ==
  ASSUME TypeOK, DatesInv, Due(sub)
  PROVE  ~Later(sub)
BY Typed, CycleFacts DEF DatesInv, Due, Reached, Later

\* A day brings the end of a period and the next charge after it equally nearer.
LEMMA DayKeepsLater ==
  ASSUME TypeOK, DatesInv, Later(sub), Day, sub.status \in Billed \cup {"trial"}
  PROVE  Later(sub')
<1>1. sub'.end = Yesterday(sub.end) /\ sub'.due = Yesterday(sub.due)
  BY Typed DEF Day, Rows
<1>2. sub.end \in Int /\ sub.due \in Int \cup {Never} /\ sub.end >= -MaxLate
  BY Typed DEF DatesInv
<1>3. sub.end > -MaxLate
  <2>1. CASE sub.status \in Billed
    BY <1>2, <2>1, Typed, CycleFacts DEF Day, Overdue
  <2>2. CASE sub.status = "trial"
    BY <1>2, <2>2, Typed, CycleFacts DEF Day, Overdue, DatesInv
  <2> QED BY <2>1, <2>2
<1>4. sub'.end = sub.end - 1
  BY <1>1, <1>2, <1>3, CycleFacts DEF Yesterday
<1>5. CASE sub.due = Never
  BY <1>1, <1>5 DEF Yesterday, Later
<1>6. CASE sub.due # Never
  <2>1. sub.due \in Int /\ sub.due > sub.end + MaxLate
    BY <1>2, <1>6 DEF Later
  <2>2. sub'.due = sub.due - 1
    BY <1>1, <1>3, <1>6, <1>2, <2>1, CycleFacts DEF Yesterday
  <2> QED BY <1>2, <1>4, <2>1, <2>2, CycleFacts DEF Later
<1> QED BY <1>5, <1>6

\* Nothing has been charged for a new period.
LEMMA NewPeriodKeeps ==
  ASSUME TypeOK, ChargeInv, NewPeriod, UNCHANGED <<crashes, forced>>
  PROVE  ChargeInv'
<1>1. Extra' = Extra /\ Extra \in Nat /\ charged' = 0
  BY Typed DEF Extra, NewPeriod
<1> QED BY <1>1 DEF ChargeInv

\* A step that charges nothing keeps the invariant when it starts no new list, and the row
\* stays one that is charged later.
LEMMA QuietKeeps ==
  ASSUME TypeOK, ChargeInv, UNCHANGED <<charged, crashes, forced>>,
         job' = job \/ job'.at = "idle",
         charged > Extra /\ job'.at # "charged" /\ Live' => Later(sub')
  PROVE  ChargeInv'
<1>1. Extra' = Extra
  BY DEF Extra
<1> QED BY <1>1 DEF ChargeInv

\* What allows one charge more than before.
LEMMA ExtraKeeps ==
  ASSUME TypeOK, ChargeInv, Extra' = Extra + 1, charged' = charged,
         job' = job \/ job'.at = "idle"
  PROVE  ChargeInv'
<1>1. Extra \in Nat /\ charged \in Nat
  BY Typed DEF Extra
<1>2. charged <= Extra'
  BY <1>1 DEF ChargeInv
<1> QED BY <1>1, <1>2 DEF ChargeInv

\* Every step keeps the charges of the period within what is accounted for.
LEMMA ChargeNext == TypeOK /\ DatesInv /\ ChargeInv /\ [Next]_vars => ChargeInv'
<1> SUFFICES ASSUME TypeOK, DatesInv, ChargeInv, [Next]_vars PROVE ChargeInv'
  OBVIOUS
<1> USE DEF Rows, Jobs
<1>0. Extra \in Nat /\ charged \in Nat
  BY Typed DEF Extra
<1>1. CASE UNCHANGED vars
  <2>1. Live' => Live
    BY <1>1 DEF vars, Live, Pending
  <2>2. charged > Extra /\ job'.at # "charged" /\ Live' => Later(sub')
    BY <1>1, <2>1 DEF vars, ChargeInv
  <2> QED BY <1>1, <2>2, QuietKeeps DEF vars
<1>2. CASE Day
  <2>1. request = NoRequest /\ request' = request /\ sub'.status = sub.status
        /\ job.at = "idle" /\ UNCHANGED <<job, charged, crashes, forced>>
    BY <1>2, Typed DEF Day, history
  <2>2. Live' => Live /\ sub.status \in Billed \cup {"trial"}
    BY <2>1 DEF Live, Pending, NoRequest
  <2>3. charged > Extra /\ job'.at # "charged" /\ Live' => Later(sub')
    BY <1>2, <2>1, <2>2, DayKeepsLater DEF ChargeInv
  <2> QED BY <2>1, <2>3, QuietKeeps
<1>3. CASE ExpireTrial \/ AutoResume \/ Rollover
  BY <1>3, NewPeriodKeeps DEF ExpireTrial, AutoResume, Rollover, history
<1>4. CASE CancelLapsed
  <2>1. /\ sub'.status = "cancelled" /\ sub'.due = sub.due /\ sub'.end = sub.end
        /\ UNCHANGED <<job, request, charged, crashes, forced>>
    BY <1>4, Typed DEF CancelLapsed, history
  <2>2. Live' => Live
    BY <2>1 DEF Live, Pending, Billed
  <2>3. Later(sub) => Later(sub')
    BY <2>1 DEF Later
  <2> QED BY <2>1, <2>2, <2>3, QuietKeeps DEF ChargeInv
<1>5. CASE Select
  <2>1. Due(sub) /\ job.at = "idle" /\ job'.at = "picked" /\ job'.current = TRUE
        /\ UNCHANGED <<sub, charged, crashes, forced>>
    BY <1>5 DEF Select, history
  <2>2. Live /\ ~Later(sub)
    BY <2>1, LaterIsNotDue DEF Live, Due
  <2>3. charged <= Extra
    BY <1>0, <2>1, <2>2 DEF ChargeInv
  <2> QED BY <1>0, <2>1, <2>3 DEF ChargeInv, Extra
<1>6. CASE Skip
  <2>1. job.at = "picked" /\ job' = Idle /\ UNCHANGED <<charged, crashes, forced>>
    BY <1>6 DEF Skip, history
  <2>2. ~(charged > Extra) /\ job'.at = "idle"
    BY <1>0, <2>1 DEF ChargeInv, Idle
  <2> QED BY <2>1, <2>2, QuietKeeps
<1>7. CASE Charge
  <2>1. job.at = "picked" /\ charged <= Extra /\ (~job.current => charged = 0)
    BY <1>7 DEF Charge, ChargeInv
  <2>2. Extra' = Extra
    BY <1>7 DEF Charge, Extra
  <2>3. CASE card
    <3>1. /\ job'.at = "charged" /\ job'.current = job.current
          /\ charged' = IF job.current THEN charged + 1 ELSE charged
      BY <1>7, <2>3, Typed DEF Charge
    <3> QED BY <1>0, <2>1, <2>2, <3>1 DEF ChargeInv
  <2>4. CASE ~card
    <3>1. job'.at = "declined" /\ job'.current = job.current /\ charged' = charged
      BY <1>7, <2>4, Typed DEF Charge
    <3> QED BY <1>0, <2>1, <2>2, <3>1 DEF ChargeInv
  <2> QED BY <2>3, <2>4
<1>8. CASE Settle
  <2>1. job'.at = "idle" /\ UNCHANGED <<charged, crashes, forced>>
    BY <1>8 DEF Settle, Idle, history
  <2>2. CASE job.at = "charged"
    <3>1. Later(sub')
      BY <1>8, <2>2, PaidIsLater, Typed DEF Settle
    <3> QED BY <2>1, <3>1, QuietKeeps
  <2>3. CASE job.at = "declined"
    <3>1. ~(charged > Extra)
      BY <1>0, <2>3 DEF ChargeInv
    <3> QED BY <2>1, <3>1, QuietKeeps
  <2> QED BY <1>8, <2>2, <2>3 DEF Settle
<1>9. CASE Crash
  <2>1. Extra' = Extra + 1 /\ charged' = charged /\ job'.at = "idle"
    BY <1>9, Typed DEF Crash, Extra, Idle
  <2> QED BY <2>1, ExtraKeeps
<1>10. CASE \E h \in Handlers \cap {"change-plan", "assign-plan", "pause", "resume",
                                    "mark-paid"},
              cycle \in Cycles, resume \in PauseDays \cup {Never} :
                Request(h, cycle, resume)
  <2>1. request'.status = sub.status /\ UNCHANGED <<sub, job, charged, crashes, forced>>
    BY <1>10 DEF Request
  <2>2. Live' => Live
    BY <2>1 DEF Live, Pending
  <2> QED BY <2>1, <2>2, QuietKeeps DEF ChargeInv
<1>11. CASE Apply
  <2>0. request' = NoRequest /\ UNCHANGED <<crashes, forced>>
    BY <1>11 DEF Apply
  <2>1. CASE ChangePlan \/ Resume
    BY <2>0, <2>1, NewPeriodKeeps DEF ChangePlan, Resume
  <2>2. CASE AssignPlan
    <3>1. /\ \/ sub'.status = request.status
             \/ request.status = "trial" /\ sub'.status = "active"
          /\ sub'.due = sub.due /\ sub'.end = sub.end
          /\ UNCHANGED <<job, charged>> /\ request.act # "none"
      <4>1. PICK endTrial \in BOOLEAN :
              sub' = [sub EXCEPT
                        !.status = IF endTrial /\ request.status = "trial"
                                     THEN "active" ELSE request.status,
                        !.cycle = request.cycle,
                        !.trial = IF endTrial THEN Never ELSE @]
        BY <2>2 DEF AssignPlan
      <4>2. request.act # "none" /\ UNCHANGED <<job, charged>>
        BY <2>2 DEF AssignPlan
      <4> QED BY <4>1, <4>2, Typed
    <3>2. Live' => Live
      BY <2>0, <3>1 DEF Live, Pending, NoRequest
    <3>3. Later(sub) => Later(sub')
      BY <3>1 DEF Later
    <3> QED BY <2>0, <3>1, <3>2, <3>3, QuietKeeps DEF ChargeInv
  <2>3. CASE Pause
    <3>1. sub'.status = "paused" /\ UNCHANGED <<job, charged>>
      BY <2>3, Typed DEF Pause
    <3>2. ~Live'
      BY <2>0, <3>1 DEF Live, Pending, NoRequest, Billed
    <3> QED BY <2>0, <3>1, <3>2, QuietKeeps
  <2>4. CASE MarkPaid
    <3>1. Later(sub') /\ UNCHANGED <<job, charged>>
      BY <2>4, PaidIsLater, Typed DEF MarkPaid
    <3> QED BY <2>0, <3>1, QuietKeeps
  <2> QED BY <1>11, <2>1, <2>2, <2>3, <2>4 DEF Apply
<1>12. CASE RetryNow
  <2>1. Extra' = Extra + 1 /\ charged' = charged /\ job' = job
    BY <1>12, Typed DEF RetryNow, Extra
  <2> QED BY <2>1, ExtraKeeps
<1>13. CASE SuspendNow
  <2>1. sub'.due = Never /\ UNCHANGED <<job, charged, crashes, forced>>
    BY <1>13, Typed DEF SuspendNow
  <2> QED BY <2>1, QuietKeeps DEF Later
<1>14. CASE SetPolicy \/ CardChanges
  <2>1. UNCHANGED <<sub, job, request, charged, crashes, forced>>
    BY <1>14 DEF SetPolicy, CardChanges
  <2>2. Live' => Live
    BY <2>1 DEF Live, Pending
  <2> QED BY <2>1, <2>2, QuietKeeps DEF ChargeInv
<1> QED BY <1>1, <1>2, <1>3, <1>4, <1>5, <1>6, <1>7, <1>8, <1>9, <1>10, <1>11, <1>12,
           <1>13, <1>14 DEF Next

--------------------------------------------------------------------------------
(* The invariant and what it implies.                                         *)

\* A subscription on its trial has not been charged and has not failed.
LEMMA InitInv == Init => Inv
<1> SUFFICES ASSUME Init PROVE Inv
  OBVIOUS
<1>1. DatesInv
  BY CycleFacts DEF Init, DatesInv, Pending, NoRequest
<1>2. ChargeInv
  BY DEF Init, ChargeInv, Extra, Idle
<1>3. FailsInv
  BY AttemptsFacts DEF Init, FailsInv, Idle
<1>4. DeclinesInv
  BY DEF Init, DeclinesInv, Idle
<1> QED BY <1>1, <1>2, <1>3, <1>4, InitType DEF Inv

\* The invariant holds in every state of the subscription.
THEOREM Invariance == Spec => []Inv
<1>1. Inv /\ [Next]_vars => Inv'
  BY NextType, DatesNext, ChargeNext, FailsNext, DeclinesNext DEF Inv
<1> QED BY <1>1, InitInv, PTL DEF Spec

\* Every column, list and request keeps its type.
THEOREM TypeCorrect == Spec => []TypeOK
<1>1. Inv => TypeOK
  BY DEF Inv
<1> QED BY <1>1, Invariance, PTL

\* A billing period is charged at most once, and once more for each crash of the worker
\* and for each retry that an operator asks for.
THEOREM OncePerPeriod == Spec => []ChargedOnce
<1>1. Inv => ChargedOnce
  <2>1. ASSUME TypeOK, ChargeInv PROVE ChargedOnce
    BY <2>1, Typed DEF ChargeInv, Extra, ChargedOnce
  <2> QED BY <2>1 DEF Inv
<1> QED BY <1>1, Invariance, PTL

\* A card that is declined again and again is not tried more often than the policy allows,
\* but for crashes and requests that revive a cancelled subscription.
THEOREM TriedAsAllowed == Spec => []DeclinesBounded
<1>1. Inv => DeclinesBounded
  <2>1. ASSUME TypeOK, FailsInv, DeclinesInv PROVE DeclinesBounded
    <3>1. CASE job.at = "declined"
      BY <2>1, <3>1, Typed, AttemptsFacts DEF FailsInv, DeclinesInv, DeclinesBounded
    <3>2. CASE job.at # "declined"
      BY <2>1, <3>2, Typed, AttemptsFacts DEF FailsInv, DeclinesInv, DeclinesBounded
    <3> QED BY <3>1, <3>2
  <2> QED BY <2>1 DEF Inv
<1> QED BY <1>1, Invariance, PTL
================================================================================
