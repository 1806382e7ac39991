------------------------------ MODULE Receivables ------------------------------
(****************************************************************************)
(* The receivables side of the API: sales invoices, customer payments,      *)
(* received cheques and credit notes (apps/api/src/modules/sell, cheques),  *)
(* with the Accounts Receivable, Bank-in-Clearing and Bank postings each    *)
(* handler makes.                                                           *)
(*                                                                          *)
(* Every handler runs in one withTenant transaction (READ COMMITTED, no     *)
(* FOR UPDATE on the documents).  It first reads and validates its          *)
(* documents, then calls next_document_number('journal') inside             *)
(* postJournal, whose row lock is held until commit.  Two handlers that     *)
(* post therefore serialise from that call to the end, and nothing else:    *)
(* a handler is a Request action that keeps what it read in txn[s],         *)
(* followed by a Commit action that does, in one step, everything from the  *)
(* journal number to COMMIT.  What the code reads after the lock is read    *)
(* from the current state, what it read before from txn[s].  Rollback is    *)
(* every way a transaction can end without effect (a thrown error, a locked *)
(* period, a lost connection).                                              *)
(****************************************************************************)
EXTENDS Integers, FiniteSets, Functions

CONSTANTS
  Customers,     \* customers of one tenant
  Invoices,      \* sales invoices
  CreditNotes,   \* identities for credit notes
  Receipts,      \* identities for customer payments (and their cheques)
  Requests,      \* API requests that can be in flight together
  CustomerOf,    \* [Invoices -> Customers]
  Total,         \* [Invoices -> total_cents]
  CreditLimit,   \* [Customers -> credit_limit_cents], 0 is no limit
  StockInvoices, \* invoices with stock lines, whose issue can still be refused
  Amounts,       \* amounts a payment or a credit note can carry
  Handlers,      \* the endpoints in use
  MaxEntries,    \* bound on the number of journal entries
  None           \* a null reference, and an idle request

AllHandlers == {"post", "void", "writeoff", "reverse", "pay", "credit",
                "clear", "bounce", "stale", "hold", "unhold"}

ASSUME DocumentsAssumption ==
  /\ CustomerOf \in [Invoices -> Customers]
  /\ Total \in [Invoices -> Nat \ {0}]
  /\ StockInvoices \subseteq Invoices
ASSUME ParametersAssumption ==
  /\ CreditLimit \in [Customers -> Nat]
  /\ Amounts \subseteq Nat \ {0}
  /\ Handlers \subseteq AllHandlers
  /\ MaxEntries \in Nat
ASSUME FiniteAssumption ==
  IsFiniteSet(Invoices) /\ IsFiniteSet(CreditNotes) /\ IsFiniteSet(Receipts)
ASSUME NoneAssumption == None \notin Invoices \cup Customers

VARIABLES
  inv,       \* rows of invoices
  reversed,  \* per invoice, the sale entries whose is_reversed is set
  cn,        \* rows of credit_notes
  receipt,   \* rows of customer_payments with their allocations and cheque
  hold,      \* customers.credit_hold
  ar,        \* AR control account, the part that belongs to each invoice
  standing,  \* AR control account, the part left on each credit note
  clearing,  \* Bank-in-Clearing, per receipt
  bank,      \* the bank account, per receipt
  entries,   \* journal entries committed so far
  txn        \* per request, what its transaction has read

ledger == <<ar, standing, clearing, bank>>
vars == <<inv, reversed, cn, receipt, hold, ledger, entries, txn>>

--------------------------------------------------------------------------------
\* Rows

Statuses == {"draft", "posted", "partially_paid", "paid", "void", "written_off"}
Collectable == {"posted", "partially_paid"}

Row == [status : Statuses, paid : Nat, balance : Nat, writeoff : Nat, entry : Nat]

DraftRow(i) ==
  [status |-> "draft", paid |-> 0, balance |-> Total[i], writeoff |-> 0, entry |-> 0]

\* cash stands for every method but a cheque; the others are cheque statuses.
ReceiptStates == {"absent", "cash", "deposited", "stale", "cleared", "bounced"}
Allocations == [Invoices -> Amounts \cup {0}]   \* 0: nothing allocated

ReceiptRow ==
  [state : ReceiptStates, customer : Customers \cup {None}, alloc : Allocations,
   amount : Nat, bounced : BOOLEAN]
NoReceipt ==
  [state |-> "absent", customer |-> None, alloc |-> [i \in Invoices |-> 0],
   amount |-> 0, bounced |-> FALSE]

CreditNoteRow ==
  [status : {"absent", "draft", "posted"}, invoice : Invoices \cup {None},
   total : Nat, applied : Nat]
NoCreditNote ==
  [status |-> "absent", invoice |-> None, total |-> 0, applied |-> 0]

\* What a transaction in flight has read.  entry and rows are read without a
\* lock, so they may be out of date when it commits.
Idle == [op |-> "idle"]
InvoiceTxn ==
  [op : {"post", "void", "writeoff", "reverse"}, inv : Invoices, seen : Row]
PayTxn ==
  {t \in [op : {"pay"}, customer : Customers, state : {"cash", "deposited"},
          amount : Nat, alloc : Allocations, seen : [Invoices -> Row]] :
     \A i \in Invoices : t.alloc[i] <= t.seen[i].balance}
CreditTxn == [op : {"credit"}, cn : CreditNotes]
ChequeTxn == [op : {"clear", "bounce"}, receipt : Receipts]

Transactions == {Idle} \cup InvoiceTxn \cup PayTxn \cup CreditTxn \cup ChequeTxn

InvoicesOf(c) == {i \in Invoices : CustomerOf[i] = c}

\* customer_open_ar_cents
OpenAR(c) ==
  SumFunctionOnSet([i \in Invoices |-> inv[i].balance],
                   {i \in InvoicesOf(c) : inv[i].status \in Collectable})

\* customer_bounce_count, of the given receipt rows
BounceCount(c, rows) ==
  Cardinality({r \in Receipts : rows[r].customer = c /\ rows[r].state = "bounced"})

\* Mutant: the limit is compared with what is already owed.
WithinLimitOfOwed(c, i) == CreditLimit[c] > 0 => OpenAR(c) <= CreditLimit[c]

\* The credit limit, with invoice i on top of what customer c owes.
WithinLimit(c, i) ==
  CreditLimit[c] > 0 => OpenAR(c) + Total[i] <= CreditLimit[c]

\* Mutant: the hold comes one bounce late.
SerialBouncerLate(c, rows) == BounceCount(c, rows) > 2

\* A customer whose cheques bounce is parked on credit hold.
SerialBouncer(c, rows) == BounceCount(c, rows) >= 2

\* Mutant: a cheque that has cleared can still be returned by the bank.
ActiveOrCleared(r) == receipt[r].state \in {"deposited", "cleared"}

\* ACTIVE_STATES_RECEIVED: a cheque that can still clear, bounce or go stale.
\* No endpoint makes a cheque that is not yet deposited.
Active(r) == receipt[r].state = "deposited"

\* Mutant: bounce events without their unique index.
AnyBounce(r) == TRUE

\* The unique index on the bounce events of a cheque.
FirstBounce(r) == ~receipt[r].bounced

\* Mutant: the amount paid is increased in SQL, the balance is overwritten.
SettleHalfInPlace(row, seen, a) ==
  [row EXCEPT
     !.paid    = row.paid + a,
     !.balance = seen.balance - a,
     !.status  = IF seen.balance = a THEN "paid" ELSE "partially_paid"]

\* Settling a of what the handler saw of the row; the other columns are kept.
Settle(row, seen, a) ==
  [row EXCEPT
     !.paid    = seen.paid + a,
     !.balance = seen.balance - a,
     !.status  = IF seen.balance = a THEN "paid"
                 ELSE IF seen.paid + a > 0 THEN "partially_paid"
                 ELSE seen.status]

\* Mutant: a bounce takes the payment back but leaves the balance settled.
ReopenUnpaidOnly(row, a, total) ==
  [row EXCEPT !.paid = @ - a, !.status = "partially_paid"]

\* Mutant: a bounce restores the balance but keeps the payment counted.
ReopenBalanceOnly(row, a, total) ==
  [row EXCEPT !.balance = @ + a, !.status = "partially_paid"]

\* Taking back an allocation of a, whatever the status of the invoice.
Reopen(row, a, total) ==
  [row EXCEPT
     !.paid    = @ - a,
     !.balance = @ + a,
     !.status  = IF row.balance + a = total THEN "posted" ELSE "partially_paid"]

TypeOK ==
  /\ inv \in [Invoices -> Row]
  /\ reversed \in [Invoices -> SUBSET Nat]
  /\ cn \in [CreditNotes -> CreditNoteRow]
  /\ receipt \in [Receipts -> ReceiptRow]
  /\ hold \in [Customers -> BOOLEAN]
  /\ ar \in [Invoices -> Int]
  /\ standing \in [CreditNotes -> Int]
  /\ clearing \in [Receipts -> Int]
  /\ bank \in [Receipts -> Int]
  /\ entries \in Nat
  /\ txn \in [Requests -> Transactions]

Init ==
  /\ inv = [i \in Invoices |-> DraftRow(i)]
  /\ reversed = [i \in Invoices |-> {}]
  /\ cn = [c \in CreditNotes |-> NoCreditNote]
  /\ receipt = [r \in Receipts |-> NoReceipt]
  /\ hold = [c \in Customers |-> FALSE]
  /\ ar = [i \in Invoices |-> 0]
  /\ standing = [c \in CreditNotes |-> 0]
  /\ clearing = [r \in Receipts |-> 0]
  /\ bank = [r \in Receipts |-> 0]
  /\ entries = 0
  /\ txn = [s \in Requests |-> Idle]

--------------------------------------------------------------------------------
\* Transactions

\* s reads and validates, and goes on with what it has read.
Begin(s, t) ==
  /\ t.op \in Handlers
  /\ txn[s] = Idle
  /\ txn' = [txn EXCEPT ![s] = t]
  /\ UNCHANGED <<inv, reversed, cn, receipt, hold, ledger, entries>>

\* postJournal: takes the journal number, and with it the lock.
PostJournal ==
  /\ entries < MaxEntries
  /\ entries' = entries + 1

Finish(s) == txn' = [txn EXCEPT ![s] = Idle]

Rollback(s) ==
  /\ txn[s] # Idle
  /\ Finish(s)
  /\ UNCHANGED <<inv, reversed, cn, receipt, hold, ledger, entries>>

--------------------------------------------------------------------------------
\* POST /invoices/:id/post, postDraftInvoice

RequestPost(s, i) ==
  LET c == CustomerOf[i] IN
  /\ inv[i].status = "draft"
  /\ ~hold[c]
  /\ WithinLimit(c, i)
  /\ Begin(s, [op |-> "post", inv |-> i, seen |-> inv[i]])

CommitPost(s) ==
  LET i == txn[s].inv IN
  /\ txn[s].op = "post"
  /\ PostJournal
  /\ ar' = [ar EXCEPT ![i] = @ + Total[i]]
  /\ inv' = [inv EXCEPT ![i].status = "posted", ![i].entry = @ + 1]
  /\ Finish(s)
  /\ UNCHANGED <<reversed, cn, receipt, hold, standing, clearing, bank>>

\* applyStockIssue refuses a line after the journal is in: the error is caught
\* and returned, so the transaction commits the entry and leaves the draft.
CommitPostRefused(s) ==
  LET i == txn[s].inv IN
  /\ txn[s].op = "post"
  /\ i \in StockInvoices
  /\ PostJournal
  /\ ar' = [ar EXCEPT ![i] = @ + Total[i]]
  /\ Finish(s)
  /\ UNCHANGED <<inv, reversed, cn, receipt, hold, standing, clearing, bank>>

\* POST /invoices/:id/void

RequestVoid(s, i) ==
  /\ inv[i].status \in Collectable
  /\ inv[i].paid = 0
  /\ inv[i].entry \notin reversed[i]      \* else ALREADY_REVERSED
  /\ Begin(s, [op |-> "void", inv |-> i, seen |-> inv[i]])

CommitVoid(s) ==
  LET i == txn[s].inv IN
  /\ txn[s].op = "void"
  /\ PostJournal
  /\ ar' = [ar EXCEPT ![i] = @ - Total[i]]
  /\ reversed' = [reversed EXCEPT ![i] = @ \cup {txn[s].seen.entry}]
  /\ inv' = [inv EXCEPT ![i].status = "void", ![i].balance = 0]
  /\ Finish(s)
  /\ UNCHANGED <<cn, receipt, hold, standing, clearing, bank>>

\* POST /invoices/:id/write-off.  writeoff is principal plus VAT relief.

RequestWriteOff(s, i) ==
  /\ inv[i].status \in Collectable
  /\ inv[i].balance > 0
  /\ Begin(s, [op |-> "writeoff", inv |-> i, seen |-> inv[i]])

CommitWriteOff(s) ==
  LET i == txn[s].inv
      seen == txn[s].seen
  IN
  /\ txn[s].op = "writeoff"
  /\ PostJournal
  /\ ar' = [ar EXCEPT ![i] = @ - seen.balance]
  /\ inv' = [inv EXCEPT ![i].status = "written_off", ![i].balance = 0,
                        ![i].writeoff = seen.balance]
  /\ Finish(s)
  /\ UNCHANGED <<reversed, cn, receipt, hold, standing, clearing, bank>>

\* POST /invoices/:id/reverse-write-off

RequestReverse(s, i) ==
  /\ inv[i].status = "written_off"
  /\ Begin(s, [op |-> "reverse", inv |-> i, seen |-> inv[i]])

CommitReverse(s) ==
  LET i == txn[s].inv
      seen == txn[s].seen
  IN
  /\ txn[s].op = "reverse"
  /\ PostJournal
  /\ ar' = [ar EXCEPT ![i] = @ + seen.writeoff]
  /\ inv' = [inv EXCEPT
               ![i].status = IF seen.paid > 0 THEN "partially_paid" ELSE "posted",
               ![i].balance = seen.writeoff,
               ![i].writeoff = 0]
  /\ Finish(s)
  /\ UNCHANGED <<reversed, cn, receipt, hold, standing, clearing, bank>>

--------------------------------------------------------------------------------
\* POST /payments

\* Mutant: an allocation may exceed the balance due.
CanOverAllocate(i, a) == inv[i].status \in Collectable

CanAllocate(i, a) == inv[i].status \in Collectable /\ a <= inv[i].balance

\* What is allocated must be the whole payment.
Allocated(alloc) == SumFunctionOnSet(alloc, Invoices)

\* Of an invoice without an allocation nothing is read.
Seen(alloc) == [i \in Invoices |-> IF alloc[i] > 0 THEN inv[i] ELSE DraftRow(i)]

RequestPay(s, c, state, amount, alloc) ==
  /\ Allocated(alloc) = amount
  /\ \A i \in Invoices : alloc[i] > 0 => CustomerOf[i] = c /\ CanAllocate(i, alloc[i])
  /\ Begin(s, [op |-> "pay", customer |-> c, state |-> state, amount |-> amount,
               alloc |-> alloc, seen |-> Seen(alloc)])

\* The invoices are written from the rows read before the lock.
CommitPay(s, r) ==
  LET t == txn[s] IN
  /\ t.op = "pay"
  /\ receipt[r].state = "absent"
  /\ PostJournal
  /\ ar' = [i \in Invoices |-> ar[i] - t.alloc[i]]
  /\ IF t.state = "cash"
     THEN /\ bank' = [bank EXCEPT ![r] = @ + t.amount]
          /\ UNCHANGED clearing
     ELSE /\ clearing' = [clearing EXCEPT ![r] = @ + t.amount]
          /\ UNCHANGED bank
  /\ receipt' = [receipt EXCEPT ![r] =
                   [state |-> t.state, customer |-> t.customer, alloc |-> t.alloc,
                    amount |-> t.amount, bounced |-> FALSE]]
  /\ inv' = [i \in Invoices |->
               IF t.alloc[i] > 0
               THEN Settle(inv[i], t.seen[i], t.alloc[i])
               ELSE inv[i]]
  /\ Finish(s)
  /\ UNCHANGED <<reversed, cn, hold, standing>>

--------------------------------------------------------------------------------
\* Credit notes

\* POST /credit-notes: a draft, which may name an invoice that is posted by now.
CreateCreditNote(c, i, total) ==
  /\ "credit" \in Handlers
  /\ cn[c].status = "absent"
  /\ i # None => inv[i].status \notin {"draft", "void"}
  /\ cn' = [cn EXCEPT ![c] =
              [status |-> "draft", invoice |-> i, total |-> total, applied |-> 0]]
  /\ UNCHANGED <<inv, reversed, receipt, hold, ledger, entries, txn>>

\* POST /credit-notes/:id/post
RequestCredit(s, c) ==
  /\ cn[c].status = "draft"
  /\ Begin(s, [op |-> "credit", cn |-> c])

\* How much of credit note c its invoice can take.
Applied(c) ==
  IF cn[c].invoice = None THEN 0
  ELSE LET due == inv[cn[c].invoice].balance IN
       IF cn[c].total < due THEN cn[c].total ELSE due

\* The invoice is read after the lock, but its status is not looked at.
CommitCredit(s) ==
  LET c == txn[s].cn
      i == cn[c].invoice
      applied == Applied(c)
  IN
  /\ txn[s].op = "credit"
  /\ PostJournal
  /\ cn' = [cn EXCEPT ![c].status = "posted",
                      ![c].applied = IF applied > 0 THEN applied ELSE @]
  /\ standing' = [standing EXCEPT ![c] = @ - (cn[c].total - applied)]
  /\ IF i = None
     THEN UNCHANGED <<ar, inv>>
     ELSE /\ ar' = [ar EXCEPT ![i] = @ - applied]
          /\ inv' = [inv EXCEPT ![i] = Settle(@, @, applied)]
  /\ Finish(s)
  /\ UNCHANGED <<reversed, receipt, hold, clearing, bank>>

--------------------------------------------------------------------------------
\* Received cheques

\* POST /cheques/:id/clear
RequestClear(s, r) ==
  /\ Active(r)
  /\ Begin(s, [op |-> "clear", receipt |-> r])

CommitClear(s) ==
  LET r == txn[s].receipt IN
  /\ txn[s].op = "clear"
  /\ PostJournal
  /\ bank' = [bank EXCEPT ![r] = @ + receipt[r].amount]
  /\ clearing' = [clearing EXCEPT ![r] = @ - receipt[r].amount]
  /\ receipt' = [receipt EXCEPT ![r].state = "cleared"]
  /\ Finish(s)
  /\ UNCHANGED <<inv, reversed, cn, hold, ar, standing>>

\* POST /cheques/:id/bounce
RequestBounce(s, r) ==
  /\ Active(r)
  /\ Begin(s, [op |-> "bounce", receipt |-> r])

\* A second bounce event for the cheque violates its unique index, and a
\* negative amount_paid_cents the CHECK on invoices: both roll back.
CommitBounce(s) ==
  LET r == txn[s].receipt
      alloc == receipt[r].alloc
      c == receipt[r].customer
      rows == [receipt EXCEPT ![r].state = "bounced", ![r].bounced = TRUE]
  IN
  /\ txn[s].op = "bounce"
  /\ FirstBounce(r)
  /\ \A i \in Invoices : alloc[i] <= inv[i].paid
  /\ PostJournal
  /\ ar' = [i \in Invoices |-> ar[i] + alloc[i]]
  /\ clearing' = [clearing EXCEPT ![r] = @ - receipt[r].amount]
  /\ receipt' = rows
  /\ inv' = [i \in Invoices |->
               IF alloc[i] > 0 THEN Reopen(inv[i], alloc[i], Total[i]) ELSE inv[i]]
  /\ hold' = [hold EXCEPT ![c] = @ \/ SerialBouncer(c, rows)]
  /\ Finish(s)
  /\ UNCHANGED <<reversed, cn, standing, bank>>

\* flag_stale_cheques(), daily and on demand: one UPDATE of the cheques that
\* are past stale_at, which dates alone decide.
FlagStale(S) ==
  /\ "stale" \in Handlers
  /\ S # {}
  /\ \A r \in S : Active(r)
  /\ receipt' = [r \in Receipts |->
                   IF r \in S THEN [receipt[r] EXCEPT !.state = "stale"] ELSE receipt[r]]
  /\ UNCHANGED <<inv, reversed, cn, hold, ledger, entries, txn>>

\* POST /customers/:id/hold and /unhold
SetHold(c, held) ==
  /\ (IF held THEN "hold" ELSE "unhold") \in Handlers
  /\ hold' = [hold EXCEPT ![c] = held]
  /\ UNCHANGED <<inv, reversed, cn, receipt, ledger, entries, txn>>

--------------------------------------------------------------------------------
Request(s) ==
  \/ \E i \in Invoices :
       \/ RequestPost(s, i)
       \/ RequestVoid(s, i)
       \/ RequestWriteOff(s, i)
       \/ RequestReverse(s, i)
  \/ \E c \in Customers, state \in {"cash", "deposited"}, amount \in Amounts :
       \E alloc \in Allocations : RequestPay(s, c, state, amount, alloc)
  \/ \E c \in CreditNotes : RequestCredit(s, c)
  \/ \E r \in Receipts : RequestClear(s, r) \/ RequestBounce(s, r)

Commit(s) ==
  \/ CommitPost(s)
  \/ CommitPostRefused(s)
  \/ CommitVoid(s)
  \/ CommitWriteOff(s)
  \/ CommitReverse(s)
  \/ \E r \in Receipts : CommitPay(s, r)
  \/ CommitCredit(s)
  \/ CommitClear(s)
  \/ CommitBounce(s)

Elsewhere ==
  \/ \E c \in CreditNotes, i \in Invoices \cup {None}, total \in Amounts :
       CreateCreditNote(c, i, total)
  \/ \E S \in SUBSET Receipts : FlagStale(S)
  \/ \E c \in Customers, held \in BOOLEAN : SetHold(c, held)

Next ==
  \/ \E s \in Requests : Request(s) \/ Commit(s) \/ Rollback(s)
  \/ Elsewhere

Spec == Init /\ [][Next]_vars
--------------------------------------------------------------------------------
\* Properties

Live == {"cash", "deposited", "stale", "cleared"}

\* What customers have paid on invoice i and not had returned.
Collected(i) ==
  SumFunctionOnSet([r \in Receipts |-> receipt[r].alloc[i]],
                   {r \in Receipts : receipt[r].state \in Live})

Credited(i) ==
  SumFunctionOnSet([c \in CreditNotes |-> cn[c].applied],
                   {c \in CreditNotes : cn[c].invoice = i})

\* The AR control account holds for each invoice exactly the balance_due of its
\* row: no payment, credit note, bounce, write-off or reversal moves one without
\* the other.  Voided invoices and invoices whose stock issue can be refused
\* after the journal are left out: for them the code does diverge.
ReceivableTies ==
  \A i \in Invoices \ StockInvoices :
    inv[i].entry \notin reversed[i] =>
      ar[i] = IF inv[i].status = "draft" THEN 0 ELSE inv[i].balance

\* The inductive invariant behind ReceivableTies when one request runs at a time:
\* what the request has read is still true, no document reaches an invoice that
\* is still a draft, and a written-off invoice has nothing left to collect.
OneRequestAtATime == \A s, t \in Requests : s = t

ReadIsCurrent(t) ==
  /\ t.op \in {"post", "void", "writeoff", "reverse"} => t.seen = inv[t.inv]
  /\ t.op = "post" => t.seen.status = "draft"
  /\ t.op \in {"void", "writeoff"} => t.seen.status \in Collectable
  /\ t.op = "reverse" => t.seen.status = "written_off"
  /\ t.op = "pay" => \A i \in Invoices :
       t.alloc[i] > 0 => t.seen[i] = inv[i] /\ t.seen[i].status \in Collectable

SettledRows ==
  \A i \in Invoices :
    /\ inv[i].status = "draft" => inv[i].balance = Total[i] /\ reversed[i] = {}
    /\ inv[i].status = "written_off" => inv[i].balance = 0

DocumentsNameIssued ==
  /\ \A r \in Receipts, i \in Invoices :
       receipt[r].alloc[i] > 0 => inv[i].status # "draft"
  /\ \A c \in CreditNotes :
       cn[c].invoice # None => inv[cn[c].invoice].status # "draft"

SerialInv ==
  /\ ReceivableTies
  /\ SettledRows
  /\ DocumentsNameIssued
  /\ \A s \in Requests : ReadIsCurrent(txn[s])

\* amount_paid is what live allocations and applied credit notes add up to,
\* through every mix of bounces, write-offs and reversals.
PaidIsCollected ==
  \A i \in Invoices : inv[i].paid = Collected(i) + Credited(i)

\* Bank-in-Clearing holds exactly the cheques still on their way, and the bank
\* exactly the money that arrived.
ClearingTies ==
  \A r \in Receipts :
    /\ clearing[r] = IF receipt[r].state \in {"deposited", "stale"}
                     THEN receipt[r].amount ELSE 0
    /\ bank[r] = IF receipt[r].state \in {"cash", "cleared"}
                 THEN receipt[r].amount ELSE 0

\* Only money taken back takes a customer's open receivables over the limit, a
\* bounced cheque or a write-off that ends: no post does, and nothing a payment, a
\* credit note or a void does to the rows counts again as open.
TakenBack(c) ==
  \/ BounceCount(c, receipt') > BounceCount(c, receipt)
  \/ \E i \in InvoicesOf(c) :
       inv[i].status = "written_off" /\ inv'[i].status # "written_off"

CreditLimitRespected ==
  [][\A c \in Customers :
       CreditLimit[c] > 0 /\ OpenAR(c)' > OpenAR(c) /\ ~TakenBack(c)
         => OpenAR(c)' <= CreditLimit[c]]_vars

\* However requests interleave, a row that was never written off or voided adds
\* up: what it says was paid and what it says is due make the total.  A lost
\* update loses a payment from both columns together.
RowAddsUp ==
  \A i \in Invoices : inv[i].paid + inv[i].balance = Total[i]

\* Its inductive form: so does every row a request in flight will write from.
NothingIsCancelled == Handlers \cap {"void", "writeoff", "reverse"} = {}

ReadsAddUp(t) ==
  /\ t.op \in Handlers \cup {"idle"}
  /\ t.op = "pay" => \A i \in Invoices : t.seen[i].paid + t.seen[i].balance = Total[i]

RowsInv == RowAddsUp /\ \A s \in Requests : ReadsAddUp(txn[s])

\* A customer with two bounced cheques is on credit hold, unless someone lifted
\* it: no interleaving of two bounces can count each other out.
TwoBouncesHold ==
  \A c \in Customers : BounceCount(c, receipt) >= 2 => hold[c]

\* payments.ts: "each allocation <= balance_due", so that what is collected and
\* credited on an invoice never exceeds its total.
NoOverCollection ==
  \A i \in Invoices : Collected(i) + Credited(i) <= Total[i]

================================================================================
