--------------------------------- MODULE Payroll ---------------------------------
(****************************************************************************)
(* Payroll runs, the staff loans they recover and the expense claims they   *)
(* reimburse: hr/payroll-runs.ts, hr/staff-loans.ts and the void of an      *)
(* expense claim, for a tenant without an approval policy for payroll.      *)
(*                                                                          *)
(* A handler reads its document without a lock (Begin) and writes it by id, *)
(* at the latest under the lock of a number series (Commit): between the    *)
(* two, others commit.  A request sees what Begin saw.                      *)
(****************************************************************************)
EXTENDS Integers, FiniteSets, Functions

CONSTANTS
  Runs, Loans, Claims, Requests,  \* rows, and transactions open together
  LastPeriod,                     \* bound on the months
  Terms,                          \* of a loan: principal, rate in bps, tenure
  Wage,                           \* what the employee earns in a month
  Amount,                         \* of an expense claim
  Unclaimed                       \* no run holds it (NULL)

\* The annual interest of a loan, in hundredths of a percent.
Rates == 0 .. 10000

ASSUME TermsAssumption ==
  Terms \in [Loans -> [principal : Nat \ {0}, rate : Rates, tenure : Nat \ {0}]]
ASSUME NullAssumption == Unclaimed \notin Runs \cup Loans \cup Claims
ASSUME FiniteAssumption == IsFiniteSet(Loans) /\ IsFiniteSet(Claims)
ASSUME AmountsAssumption == LastPeriod \in Nat /\ Wage \in Nat /\ Amount \in Nat

VARIABLES
  run,     \* payroll_runs with their lines
  loan,    \* headers of employee_loans
  row,     \* employee_loan_schedule: each instalment's status and run
  claim,   \* expense_claims
  books,   \* the ledger accounts, by the document they move for
  txn,     \* what each request does, on what, and what it has read
  astray   \* documents written from a stale read, or abandoned under a draft run

vars == <<run, loan, row, claim, books, txn, astray>>

Periods == 1 .. LastPeriod

\* Mutant: a balance may go below zero.
Unclamped(n) == n

AtLeastZero(n) == IF n < 0 THEN 0 ELSE n

--------------------------------------------------------------------------------
\* The schedule of a loan: flat interest, equal instalments, the remainder last.

Interest(l) ==
  (Terms[l].principal * Terms[l].rate * Terms[l].tenure + 60000) \div 120000

Instalments(l) == 1 .. Terms[l].tenure
Grand(l) == Terms[l].principal + Interest(l)
BaseEmi(l) == Grand(l) \div Terms[l].tenure
BaseInterest(l) == (BaseEmi(l) * Interest(l)) \div Grand(l)
BasePrincipal(l) == BaseEmi(l) - BaseInterest(l)

\* Mutant: no remainder on the last instalment.
EqualParts(l, k) == [principal |-> BasePrincipal(l), interest |-> BaseInterest(l)]

Part(l, k) ==
  LET before == Terms[l].tenure - 1 IN
  IF k < Terms[l].tenure
  THEN [principal |-> BasePrincipal(l), interest |-> BaseInterest(l)]
  ELSE [principal |-> Terms[l].principal - BasePrincipal(l) * before,
        interest |-> Interest(l) - BaseInterest(l) * before]

\* Every instalment of every loan; the k-th falls due in the k-th month.
Rows == UNION {{l} \X Instalments(l) : l \in Loans}

Principal(rows) ==
  SumFunctionOnSet([x \in Rows |-> Part(x[1], x[2]).principal], rows)
InterestOf(rows) ==
  SumFunctionOnSet([x \in Rows |-> Part(x[1], x[2]).interest], rows)
Deducted(rows) == Principal(rows) + InterestOf(rows)
OfLoan(rows, l) == {x \in rows : x[1] = l}

--------------------------------------------------------------------------------
NoRun == [status |-> "none", period |-> 0, rows |-> {}, claims |-> {}]
Idle == [op |-> "idle"]

RunStatus == {"none", "draft", "posted", "paid"}
LoanStatus ==
  {"draft", "approved", "disbursed", "closed", "written_off", "cancelled"}

TypeOK ==
  /\ run \in [Runs -> [status : RunStatus, period : Periods \cup {0},
                       rows : SUBSET Rows, claims : SUBSET Claims]]
  /\ loan \in [Loans -> [status : LoanStatus, principal : Nat, interest : Nat,
                         repaid : Int, earned : Int, written : Nat]]
  /\ row \in [Rows -> [status : {"none", "pending", "paid", "waived"},
                       run : Runs \cup {Unclaimed}]]
  /\ claim \in [Claims -> [status : {"approved", "void"},
                           run : Runs \cup {Unclaimed}]]
  /\ books \in [receivable : [Loans -> Int], lent : [Loans -> Nat],
                payable : [Runs -> Int], withheld : [Runs -> Nat]]
  /\ astray \subseteq Runs \cup Loans \cup Claims

Init ==
  /\ run = [r \in Runs |-> NoRun]
  /\ loan = [l \in Loans |-> [status |-> "draft", principal |-> 0, interest |-> 0,
                              repaid |-> 0, earned |-> 0, written |-> 0]]
  /\ row = [x \in Rows |-> [status |-> "none", run |-> Unclaimed]]
  /\ claim = [c \in Claims |-> [status |-> "approved", run |-> Unclaimed]]
  /\ books = [receivable |-> [l \in Loans |-> 0], lent |-> [l \in Loans |-> 0],
              payable |-> [r \in Runs |-> 0], withheld |-> [r \in Runs |-> 0]]
  /\ txn = [s \in Requests |-> Idle]
  /\ astray = {}

Earned(r) == Wage + Amount * Cardinality(run[r].claims)
Net(r) == AtLeastZero(Earned(r) - Deducted(run[r].rows))
Held(r) == {x \in Rows : row[x].run = r}

\* Mutant: an instalment that a draft run has claimed is due again.
DueTwice(p) ==
  {x \in Rows : /\ row[x].status = "pending"
                /\ x[2] <= p
                /\ loan[x[1]].status = "disbursed"}

\* The instalments a run for period p recovers, and the claims it reimburses.
Due(p) ==
  {x \in Rows : /\ row[x].status = "pending" /\ row[x].run = Unclaimed
                /\ x[2] <= p
                /\ loan[x[1]].status = "disbursed"}
Claimable == {c \in Claims : claim[c].status = "approved" /\ claim[c].run = Unclaimed}

\* The handler's own check before it creates a run.
PeriodFree(p) == \A r \in Runs : run[r].period # p

\* The primary key, and payroll_runs_tenant_period_unique.
RunIndexes(r, p) == run[r].status = "none" /\ PeriodFree(p)

\* Mutant: a loan may have two schedules.
NoScheduleIndex(l) == TRUE

\* employee_loan_schedule_loan_no_unique.
ScheduleIndex(l) == \A x \in OfLoan(Rows, l) : row[x].status = "none"

--------------------------------------------------------------------------------
\* The operations: on a run (for create, of which month), a loan or a claim.

Operation(op, on, period) == [op |-> op, on |-> on, period |-> period]

Operations ==
  [op : {"create"}, on : Runs, period : Periods]
    \cup [op : {"post", "pay", "void"}, on : Runs, period : {0}]
    \cup [op : {"approve", "disburse", "cancel", "write off"}, on : Loans, period : {0}]
    \cup [op : {"void claim"}, on : Claims, period : {0}]

\* Mutant: a paid run may be paid again.
Payable(o) == run[o.on].status \in {"posted", "paid"} /\ Net(o.on) > 0

\* The conditions under which a handler goes ahead.
CanPay(o) == run[o.on].status = "posted" /\ Net(o.on) > 0

Accepts(o) ==
  \/ o.op = "create" /\ run[o.on].status = "none" /\ PeriodFree(o.period)
  \/ o.op = "post" /\ run[o.on].status = "draft"
  \/ o.op = "pay" /\ CanPay(o)
  \/ o.op = "void" /\ run[o.on].status \in {"draft", "posted", "paid"}
  \/ o.op = "approve" /\ loan[o.on].status = "draft"
  \/ o.op = "disburse" /\ loan[o.on].status = "approved"
  \/ o.op = "cancel" /\ loan[o.on].status \in {"draft", "approved"}
  \/ /\ o.op = "write off"
     /\ loan[o.on].status = "disbursed" /\ loan[o.on].principal > 0
  \/ o.op = "void claim" /\ claim[o.on].status = "approved"

\* What it goes ahead with.
Reads(o) ==
  [rows |-> CASE o.op = "create" -> Due(o.period)
              [] o.op = "post" -> Held(o.on)
              [] OTHER -> {},
   claims |-> IF o.op = "create" THEN Claimable ELSE {},
   owed |-> IF o.op = "write off" THEN loan[o.on].principal ELSE 0]

Begin(s) ==
  /\ txn[s] = Idle
  /\ \E o \in Operations :
       /\ Accepts(o)
       /\ txn' = [txn EXCEPT ![s] = [op |-> o.op, does |-> o, saw |-> Reads(o)]]
  /\ UNCHANGED <<run, loan, row, claim, books, astray>>

End(s) == txn' = [txn EXCEPT ![s] = Idle]

\* A request whose read another one has overtaken leads its documents astray.
Touches(s) ==
  LET o == txn[s].does
      rows == IF o.op = "post" THEN Held(o.on) \cup txn[s].saw.rows
              ELSE txn[s].saw.rows
  IN ({o.on} \cup {x[1] : x \in rows} \cup {row[x].run : x \in rows}
        \cup txn[s].saw.claims) \ {Unclaimed}

Stale(s) == ~ Accepts(txn[s].does) \/ Reads(txn[s].does) # txn[s].saw

Marked(s, left) ==
  astray' = astray \cup left \cup (IF Stale(s) THEN Touches(s) ELSE {})

Doing(s, op) == txn[s].op = op /\ End(s)

--------------------------------------------------------------------------------
\* A draft run claims what it read as due, by id.
Create(s) ==
  LET o == txn[s].does
      saw == txn[s].saw
  IN
  /\ Doing(s, "create")
  /\ RunIndexes(o.on, o.period)
  /\ run' = [run EXCEPT ![o.on] = [status |-> "draft", period |-> o.period,
                                  rows |-> saw.rows, claims |-> saw.claims]]
  /\ row' = [x \in Rows |->
       [row[x] EXCEPT !.run = IF x \in saw.rows THEN o.on ELSE @]]
  /\ claim' = [c \in Claims |->
       [claim[c] EXCEPT !.run = IF c \in saw.claims THEN o.on ELSE @]]
  /\ Marked(s, {})
  /\ UNCHANGED <<loan, books>>

\* What a posted run does to the header of a loan.
Recover(l, rows) ==
  LET principal == AtLeastZero(loan[l].principal - Principal(rows))
      interest == AtLeastZero(loan[l].interest - InterestOf(rows))
  IN [loan[l] EXCEPT
        !.principal = principal, !.interest = interest,
        !.repaid = @ + Principal(rows), !.earned = @ + InterestOf(rows),
        !.status = IF principal = 0 /\ interest = 0 THEN "closed" ELSE @]

\* The journal debits what was earned and credits the net pay, what was recovered and
\* the rest of the deductions.  It must balance (postJournal), and have no line of
\* nothing (journal_line_side_xor), such as the net pay of deductions that eat it up.
Balances(r, seen) ==
  /\ Net(r) > 0
  /\ Earned(r) = Net(r) + Deducted(seen)
                   + AtLeastZero(Deducted(run[r].rows) - Deducted(seen))

\* postPayrollRunCore: the journal is made of the instalments it read, the
\* schedule and the headers of those the run holds by then.
Post(s) ==
  LET r == txn[s].does.on
      seen == txn[s].saw.rows
      held == IF seen = {} THEN {} ELSE Held(r)
  IN
  /\ Doing(s, "post")
  /\ Balances(r, seen)
  /\ run' = [run EXCEPT ![r].status = "posted"]
  /\ books' = [books EXCEPT
       !.receivable = [l \in Loans |-> books.receivable[l] - Principal(OfLoan(seen, l))],
       !.payable[r] = @ + Net(r),
       !.withheld[r] = @ + AtLeastZero(Deducted(run[r].rows) - Deducted(seen))]
  /\ row' = [x \in Rows |->
       [row[x] EXCEPT !.status = IF x \in held THEN "paid" ELSE @]]
  /\ loan' = [l \in Loans |->
       IF OfLoan(held, l) = {} THEN loan[l] ELSE Recover(l, OfLoan(held, l))]
  /\ Marked(s, {})
  /\ UNCHANGED claim

Pay(s) ==
  LET r == txn[s].does.on IN
  /\ Doing(s, "pay")
  /\ run' = [run EXCEPT ![r].status = "paid"]
  /\ books' = [books EXCEPT !.payable[r] = @ - Net(r)]
  /\ Marked(s, {})
  /\ UNCHANGED <<loan, row, claim>>

\* The handler reverses the journals and releases what the run holds, then writes
\* the status 'voided'.  payroll_runs_status_check does not know it: the UPDATE
\* fails and the transaction rolls back, whatever it had done.
Void(s) ==
  /\ Doing(s, "void")
  /\ UNCHANGED <<run, loan, row, claim, books, astray>>

Approve(s) ==
  /\ Doing(s, "approve")
  /\ loan' = [loan EXCEPT ![txn[s].does.on].status = "approved"]
  /\ Marked(s, {})
  /\ UNCHANGED <<run, row, claim, books>>

Cancel(s) ==
  /\ Doing(s, "cancel")
  /\ loan' = [loan EXCEPT ![txn[s].does.on].status = "cancelled"]
  /\ Marked(s, {})
  /\ UNCHANGED <<run, row, claim, books>>

Disburse(s) ==
  LET l == txn[s].does.on IN
  /\ Doing(s, "disburse")
  /\ ScheduleIndex(l)
  /\ loan' = [loan EXCEPT ![l].status = "disbursed",
                         ![l].principal = Terms[l].principal,
                         ![l].interest = Interest(l)]
  /\ row' = [x \in Rows |->
       [row[x] EXCEPT !.status = IF x[1] = l THEN "pending" ELSE @]]
  /\ books' = [books EXCEPT !.receivable[l] = @ + Terms[l].principal, !.lent[l] = @ + 1]
  /\ Marked(s, {})
  /\ UNCHANGED <<run, claim>>

\* The instalments that are not paid are waived, those in a draft run too.
WriteOff(s) ==
  LET l == txn[s].does.on
      waived == {x \in OfLoan(Rows, l) : row[x].status = "pending"}
  IN
  /\ Doing(s, "write off")
  /\ loan' = [loan EXCEPT ![l].status = "written_off", ![l].written = txn[s].saw.owed,
                         ![l].principal = 0, ![l].interest = 0]
  /\ row' = [x \in Rows |->
       [row[x] EXCEPT !.status = IF x \in waived THEN "waived" ELSE @]]
  /\ books' = [books EXCEPT !.receivable[l] = @ - txn[s].saw.owed]
  /\ Marked(s, IF \E x \in waived : row[x].run # Unclaimed THEN {l} ELSE {})
  /\ UNCHANGED <<run, claim>>

VoidClaim(s) ==
  /\ Doing(s, "void claim")
  /\ claim' = [claim EXCEPT ![txn[s].does.on].status = "void"]
  /\ Marked(s, {})
  /\ UNCHANGED <<run, loan, row, books>>

\* An error thrown: a unique index, a journal that does not balance, a locked period,
\* a lost connection.
RollBack(s) ==
  /\ txn[s] # Idle
  /\ End(s)
  /\ UNCHANGED <<run, loan, row, claim, books, astray>>

Next ==
  \E s \in Requests :
    \/ Begin(s) \/ RollBack(s)
    \/ Create(s) \/ Post(s) \/ Pay(s) \/ Void(s)
    \/ Approve(s) \/ Disburse(s) \/ Cancel(s) \/ WriteOff(s)
    \/ VoidClaim(s)

Spec == Init /\ [][Next]_vars

--------------------------------------------------------------------------------
\* Properties

\* However often a loan is approved, cancelled and disbursed, by requests that
\* overtake each other, the bank pays it out once (POST /employee-loans/:id/disburse
\* reads the status without a lock; only the schedule's index stops the second).
LentOnce == \A l \in Loans : books.lent[l] <= 1

\* A loan whose documents no stale read touched: the receivable is what the header
\* says is outstanding, what is outstanding, repaid and written off is the
\* principal, and it is closed exactly when every instalment is paid
\* (postPayrollRunCore, the write-off and buildSchedule together).
LoanTies ==
  \A l \in Loans \ astray :
    /\ books.receivable[l] = loan[l].principal
    /\ loan[l].status \in {"disbursed", "closed", "written_off"} =>
         loan[l].principal + loan[l].repaid + loan[l].written = Terms[l].principal
    /\ loan[l].status = "disbursed" => loan[l].interest + loan[l].earned = Interest(l)
    /\ loan[l].status = "closed"
         <=> \A x \in OfLoan(Rows, l) : row[x].status = "paid"

\* What a run owes its employees is on Salaries payable from its posting until its
\* payment, once; and what its payslips deduct for loans has gone to the loan book,
\* so that nothing is left as a deduction withheld (post and pay).
RunTies ==
  \A r \in Runs \ astray :
    /\ books.payable[r] = IF run[r].status = "posted" THEN Net(r) ELSE 0
    /\ books.withheld[r] = 0

\* Nothing is paid or deducted twice: no month has two runs, though two requests may
\* both find it free, and an instalment is deducted and a claim reimbursed by one run
\* only, of the runs no stale read touched, whichever months are run and in
\* whichever order (POST /payroll-runs, "a later run can't re-deduct the same EMI").
TakenOnce ==
  \A q, r \in Runs : q # r =>
    /\ run[q].period = 0 \/ run[q].period # run[r].period
    /\ {q, r} \cap astray = {} =>
         run[q].rows \cap run[r].rows = {} /\ run[q].claims \cap run[r].claims = {}
================================================================================
