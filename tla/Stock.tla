--------------------------------- MODULE Stock ---------------------------------
(****************************************************************************)
(* Stock of the inventory: quantity and weighted average value per item and *)
(* warehouse, moved by bills, invoices, transfers and stock counts          *)
(* (modules/inventory, the posting of buy/bills.ts and sell/invoices.ts).   *)
(*                                                                          *)
(* A handler reads its document without a lock and checks the status; what  *)
(* follows locks the balances it touches and keeps them to the commit, so   *)
(* it is one step that works on what was read.  A handler that returns an   *)
(* error from inside its loop over the lines commits the lines before.      *)
(****************************************************************************)
EXTENDS Integers, Sequences

CONSTANTS
  Items, Warehouses,
  Bills, Invoices, Transfers, Counts,
  Lines,        \* the lines of each document, as drafted
  At,           \* the warehouse of a document, the source of a transfer
  To,           \* the destination of a transfer
  Opening,      \* the balances at the start
  Threshold,    \* variance_threshold_bps of a count
  Requests,     \* the requests that may be in flight at the same time
  Never,        \* a column that is NULL
  MaxRequests,  \* bound on the requests
  MaxLost       \* bound on the units that vanish from the shelves

Docs == Bills \cup Invoices \cup Transfers \cup Counts
Keys == Items \X Warehouses

ASSUME KindsAssumption ==
  /\ Bills \cap Invoices = {} /\ Transfers \cap Counts = {}
  /\ (Bills \cup Invoices) \cap (Transfers \cup Counts) = {}

ASSUME LinesAssumption ==
  /\ Lines \in [Docs -> Seq([item : Items, qty : Nat \ {0}, cost : Nat])]
  /\ At \in [Docs -> Warehouses] /\ To \in [Transfers -> Warehouses]
  /\ \A t \in Transfers : At[t] # To[t]

\* stock_count_lines_unique_item: an item is on one line of a count's sheet.
ASSUME SheetAssumption ==
  \A c \in Counts : \A m, n \in DOMAIN Lines[c] :
    Lines[c][m].item = Lines[c][n].item => m = n

ASSUME BoundsAssumption ==
  /\ Opening \in [Keys -> [qty : Nat, value : Nat]]
  /\ Threshold \in Nat /\ MaxRequests \in Nat /\ MaxLost \in Nat
  /\ Never \notin Int

VARIABLES
  stock,   \* item_balances; average_cost_cents is always Average of the two
  doc,     \* status and lines of each document
  ledger,  \* stock_ledger, by document
  gap,     \* history: what the book has that the shelf has not
  late,    \* history: documents a refused request has moved stock for after their
           \* status had changed under it
  txn,     \* what each request in flight has read
  begun,   \* requests so far
  lost     \* units vanished so far

vars == <<stock, doc, ledger, gap, late, txn, begun, lost>>

(* A line keeps quantity and unit cost: as billed or invoiced, as requested and *)
(* dispatched, or as the count sheet's snapshot of the book.                    *)
DraftLine(line) ==
  [item |-> line.item, qty |-> line.qty, cost |-> line.cost,
   noted |-> Never,     \* quantity_dispatched, or counted_qty
   variance |-> 0,      \* variance_qty
   seen |-> Never,      \* history: the gap at the counting, if the sheet is current
   owed |-> Never]      \* history: the gap that the variance is about

Drafted(d) == [n \in DOMAIN Lines[d] |-> DraftLine(Lines[d][n])]

Idle == [act |-> "none"]

Init ==
  /\ stock = Opening
  /\ doc = [d \in Docs |-> [status |-> IF d \in Counts THEN "none" ELSE "draft",
                            lines  |-> Drafted(d)]]
  /\ ledger = [d \in Docs |-> <<>>]
  /\ gap = [k \in Keys |-> 0]
  /\ late = {}
  /\ txn = [s \in Requests |-> Idle]
  /\ begun = 0
  /\ lost = 0

--------------------------------------------------------------------------------
(* Costing.  A move changes the quantity of one balance; it carries its value, *)
(* or is worth the average cost of the moment.                                *)

\* Math.round(value / qty), half upwards.
Average(b) == IF b.qty > 0 THEN (2 * b.value + b.qty) \div (2 * b.qty) ELSE 0

Move(item, w, qty, value) == [key |-> <<item, w>>, qty |-> qty, value |-> value]

Worth(b, m) == IF m.value = Never THEN m.qty * Average(b) ELSE m.value

\* Mutant: the value of the stock may become negative.
Unclamped(b, m) == [qty |-> b.qty + m.qty, value |-> b.value + Worth(b, m)]

After(b, m) ==
  LET value == b.value + Worth(b, m)
  IN  [qty |-> b.qty + m.qty, value |-> IF value < 0 THEN 0 ELSE value]

\* One line of a handler's loop: one of which nothing moves is passed over, and the
\* first one that the stock does not cover is refused, and ends it.
Step(done, m) ==
  LET b == done.stock[m.key]
  IN  IF m.qty = 0 \/ done.refused
        THEN done
      ELSE IF b.qty + m.qty < 0
        THEN [done EXCEPT !.refused = TRUE]
        ELSE [stock   |-> [done.stock EXCEPT ![m.key] = After(b, m)],
              rows    |-> Append(done.rows, [key |-> m.key, qty |-> m.qty,
                                             value |-> Worth(b, m)]),
              refused |-> FALSE]

Untouched == [stock |-> stock, rows |-> <<>>, refused |-> FALSE]

Loop(moves) ==
  LET done[n \in 0 .. Len(moves)] ==
        IF n = 0 THEN Untouched ELSE Step(done[n - 1], moves[n])
  IN  done[Len(moves)]

--------------------------------------------------------------------------------
(* Requests.                                                                  *)

Shelf(k) == stock[k].qty - gap[k]

\* What a handler asks of the document it has read.
Allowed(act, d, read) ==
  CASE act = "post"     -> d \in Bills \cup Invoices /\ read.status = "draft"
    [] act = "void"     -> d \in Bills \cup Invoices /\ read.status = "posted"
    [] act = "dispatch" -> d \in Transfers /\ read.status = "draft"
    [] act = "receive"  -> d \in Transfers /\ read.status = "dispatched"
    [] act = "enter"    -> d \in Counts /\ read.status = "draft"
    [] act = "review"   -> /\ d \in Counts /\ read.status = "draft"
                           /\ \A n \in DOMAIN read.lines :
                                read.lines[n].noted # Never
    [] act = "approve"  -> d \in Counts /\ read.status = "pending_approval"
    [] act = "settle"   -> d \in Counts /\ read.status = "review"
    [] act = "cancel"   -> \/ d \in Transfers /\ read.status = "draft"
                           \/ /\ d \in Counts
                              /\ read.status \in
                                   {"draft", "review", "pending_approval"}

Acts == {"post", "void", "dispatch", "receive", "enter", "review", "approve",
         "settle", "cancel"}

\* The document is read and its status passes; the quantities a request carries
\* come with it: what arrived of each line of a transfer, what was counted.
Begin(s, act, d) ==
  /\ txn[s] = Idle
  /\ Allowed(act, d, doc[d])
  /\ begun < MaxRequests /\ begun' = begun + 1
  /\ txn' = [txn EXCEPT ![s] = [act |-> act, doc |-> d, read |-> doc[d]]]
  /\ UNCHANGED <<stock, doc, ledger, gap, late, lost>>

End(s) == txn' = [txn EXCEPT ![s] = Idle]

\* The connection drops, a number cannot be had, or PostgreSQL breaks a deadlock
\* of two requests that lock balances and journal number in opposite order.
Fail(s) ==
  /\ txn[s] # Idle
  /\ End(s)
  /\ UNCHANGED <<stock, doc, ledger, gap, late, begun, lost>>

\* What the loop did is kept, also when it was refused.  The goods themselves move
\* when the document does what it was read to do: not for a request that was
\* refused, or came second, nor for a count.
Commit(s, done, refused, new) ==
  LET d      == txn[s].doc
      second == doc[d].status # txn[s].read.status
  IN  /\ stock' = done.stock
      /\ ledger' = [ledger EXCEPT ![d] = @ \o done.rows]
      /\ gap' = [k \in Keys |->
                   IF refused \/ second \/ d \in Counts
                     THEN gap[k] + done.stock[k].qty - stock[k].qty
                     ELSE gap[k]]
      /\ late' = IF refused /\ second THEN late \cup {d} ELSE late
      /\ doc' = [doc EXCEPT ![d] = new]
      /\ End(s)
      /\ UNCHANGED <<begun, lost>>

Doing(s, act) == txn[s] # Idle /\ txn[s].act = act

--------------------------------------------------------------------------------
(* Bills and invoices.                                                        *)

\* A bill's lines come in one by one; batch or serial data that the next one is
\* refused for ends the loop.
PostBill(s) ==
  LET d     == txn[s].doc
      lines == txn[s].read.lines
      moves == [n \in DOMAIN lines |->
                  Move(lines[n].item, At[d], lines[n].qty,
                       lines[n].qty * lines[n].cost)]
  IN  /\ Doing(s, "post") /\ d \in Bills
      /\ \E taken \in 0 .. Len(lines) :
           LET refused == taken < Len(lines)
           IN  Commit(s, Loop(SubSeq(moves, 1, taken)), refused,
                      [doc[d] EXCEPT !.status = IF refused THEN @ ELSE "posted"])

\* An invoice looks at every line before it moves one (peekStockIssue): lines of
\* the same item are covered one by one then, and not always together.
PostInvoice(s) ==
  LET d     == txn[s].doc
      lines == txn[s].read.lines
      moves == [n \in DOMAIN lines |->
                  Move(lines[n].item, At[d], -lines[n].qty, Never)]
  IN  /\ Doing(s, "post") /\ d \in Invoices
      /\ \A n \in DOMAIN lines : stock[moves[n].key].qty >= lines[n].qty
      /\ \E taken \in 0 .. Len(lines) :
           LET done    == Loop(SubSeq(moves, 1, taken))
               refused == done.refused \/ taken < Len(lines)
           IN  Commit(s, done, refused,
                      [doc[d] EXCEPT !.status = IF refused THEN @ ELSE "posted"])

\* Mutant: only what the posting wrote is taken back.
FirstRows(d) ==
  LET rows == SubSeq(ledger[d], 1, Len(Lines[d]))
  IN  [n \in DOMAIN rows |-> [rows[n] EXCEPT !.qty = -@, !.value = -@]]

\* rewindStockForSource takes back every row of the document, rows of an earlier
\* rewind too.
Rewind(d) ==
  [n \in DOMAIN ledger[d] |-> [ledger[d][n] EXCEPT !.qty = -@, !.value = -@]]

\* The table's CHECK lets no quantity become negative: the request fails then.
Void(s) ==
  LET d    == txn[s].doc
      done == Loop(Rewind(d))
  IN  /\ Doing(s, "void")
      /\ ~done.refused
      /\ Commit(s, done, FALSE, [doc[d] EXCEPT !.status = "void"])

--------------------------------------------------------------------------------
(* Transfers.                                                                 *)

\* Out of the source, at the average of the moment, line by line.
Dispatch(s) ==
  LET t     == txn[s].doc
      lines == txn[s].read.lines
      done  == Loop([n \in DOMAIN lines |->
                       Move(lines[n].item, At[t], -lines[n].qty, Never)])
      sent  == [n \in DOMAIN lines |->
                  IF n \in DOMAIN done.rows
                    THEN [doc[t].lines[n] EXCEPT
                            !.noted = lines[n].qty,
                            !.cost  = (-done.rows[n].value) \div (-done.rows[n].qty)]
                    ELSE doc[t].lines[n]]
  IN  /\ Doing(s, "dispatch")
      /\ Commit(s, done, done.refused,
                [status |-> IF done.refused THEN doc[t].status ELSE "dispatched",
                 lines  |-> sent])

\* What may be said to have arrived of a line.
Arrivals(lines) == UNION {0 .. lines[n].noted + 1 : n \in DOMAIN lines}

\* Into the destination what arrived of each line; a line that got more than was
\* sent, or is missing from the request, ends the loop.
Receive(s) ==
  LET t     == txn[s].doc
      lines == txn[s].read.lines
  IN  /\ Doing(s, "receive")
      /\ \E got \in [DOMAIN lines -> Arrivals(lines)] :
           LET bad   == {n \in DOMAIN lines : got[n] > lines[n].noted}
               taken == [n \in DOMAIN lines |->
                           IF \E b \in bad : b <= n THEN 0 ELSE got[n]]
               moves == [n \in DOMAIN lines |->
                           Move(lines[n].item, To[t], taken[n],
                                taken[n] * lines[n].cost)]
           IN  Commit(s, Loop(moves), bad # {},
                      [doc[t] EXCEPT
                         !.status = IF bad # {} THEN @ ELSE "received"])

Cancel(s) ==
  /\ Doing(s, "cancel")
  /\ doc' = [doc EXCEPT ![txn[s].doc].status = "cancelled"]
  /\ End(s)
  /\ UNCHANGED <<stock, ledger, gap, late, begun, lost>>

--------------------------------------------------------------------------------
(* Stock counts.                                                              *)

\* The sheet is drafted with a snapshot of the book.
CreateCount(c) ==
  LET lines == doc[c].lines
      b(n)  == stock[<<lines[n].item, At[c]>>]
      sheet == [n \in DOMAIN lines |->
                  [lines[n] EXCEPT !.qty = b(n).qty, !.cost = Average(b(n))]]
  IN
  /\ doc[c].status = "none"
  /\ doc' = [doc EXCEPT ![c] = [status |-> "draft", lines |-> sheet]]
  /\ UNCHANGED <<stock, ledger, gap, late, txn, begun, lost>>

\* What is on the shelf is counted.
EnterCounts(s) ==
  LET c      == txn[s].doc
      lines  == doc[c].lines
      key(n) == <<lines[n].item, At[c]>>
      sheet  == [n \in DOMAIN lines |->
                   [lines[n] EXCEPT
                      !.noted = Shelf(key(n)),
                      !.seen  = IF lines[n].qty = stock[key(n)].qty
                                  THEN gap[key(n)] ELSE Never]]
  IN  /\ Doing(s, "enter")
      /\ \A n \in DOMAIN lines : Shelf(key(n)) >= 0
      /\ doc' = [doc EXCEPT ![c].lines = sheet]
      /\ End(s)
      /\ UNCHANGED <<stock, ledger, gap, late, begun, lost>>

Bps(line) ==
  LET base   == IF line.qty = 0 THEN 1 ELSE line.qty
      change == IF line.noted < line.qty THEN line.qty - line.noted
                                         ELSE line.noted - line.qty
  IN  (20000 * change + base) \div (2 * base)

Review(s) ==
  LET c     == txn[s].doc
      lines == txn[s].read.lines
      large == \E n \in DOMAIN lines : Bps(lines[n]) > Threshold
      sheet == [n \in DOMAIN doc[c].lines |->
                  [doc[c].lines[n] EXCEPT
                     !.variance = lines[n].noted - lines[n].qty,
                     !.owed     = lines[n].seen]]
  IN  /\ Doing(s, "review")
      /\ doc' = [doc EXCEPT ![c] =
           [status |-> IF large THEN "pending_approval" ELSE "review",
            lines  |-> sheet]]
      /\ End(s)
      /\ UNCHANGED <<stock, ledger, gap, late, begun, lost>>

Approve(s) ==
  /\ Doing(s, "approve")
  /\ doc' = [doc EXCEPT ![txn[s].doc].status = "review"]
  /\ End(s)
  /\ UNCHANGED <<stock, ledger, gap, late, begun, lost>>

\* Mutant: the book is set to what was counted.
Counted(c, line) ==
  Move(line.item, At[c], line.noted - stock[<<line.item, At[c]>>].qty, Never)

\* A variance found is added to the book: surplus at the snapshot's cost, shortage
\* at the average of the moment.
Correction(c, line) ==
  Move(line.item, At[c], line.variance,
       IF line.variance > 0 THEN line.variance * line.cost ELSE Never)

PostCount(s) ==
  LET c     == txn[s].doc
      lines == txn[s].read.lines
      done  == Loop([n \in DOMAIN lines |-> Correction(c, lines[n])])
  IN  /\ Doing(s, "settle")
      /\ Commit(s, done, done.refused,
                [doc[c] EXCEPT
                   !.status = IF done.refused THEN @ ELSE "posted"])

\* Units vanish from a shelf: the book learns of it from a count.
Lose(k) ==
  /\ lost < MaxLost /\ Shelf(k) > 0
  /\ gap' = [gap EXCEPT ![k] = @ + 1]
  /\ lost' = lost + 1
  /\ UNCHANGED <<stock, doc, ledger, late, txn, begun>>

Next ==
  \/ \E s \in Requests :
       \/ \E act \in Acts, d \in Docs : Begin(s, act, d)
       \/ PostBill(s) \/ PostInvoice(s) \/ Void(s)
       \/ Dispatch(s) \/ Receive(s) \/ Cancel(s)
       \/ EnterCounts(s) \/ Review(s) \/ Approve(s) \/ PostCount(s)
       \/ Fail(s)
  \/ \E c \in Counts : CreateCount(c)
  \/ \E k \in Keys : Lose(k)

Spec == Init /\ [][Next]_vars

--------------------------------------------------------------------------------
(* Properties.                                                                *)

Statuses == {"none", "draft", "posted", "void", "dispatched", "received",
             "review", "pending_approval", "cancelled"}
Column == Int \cup {Never}
LineType == [item : Items, qty : Nat, cost : Nat, noted : Column,
             variance : Int, seen : Column, owed : Column]
DocType == [status : Statuses, lines : Seq(LineType)]

\* No balance is negative in quantity or in value (the table's CHECKs), and every
\* variable keeps its type.
TypeOK ==
  /\ stock \in [Keys -> [qty : Nat, value : Nat]]
  /\ doc \in [Docs -> DocType]
  /\ ledger \in [Docs -> Seq([key : Keys, qty : Int, value : Int])]
  /\ gap \in [Keys -> Int]
  /\ late \subseteq Docs
  /\ txn \in [Requests ->
       {Idle} \cup [act : Acts, doc : Docs, read : DocType]]
  /\ begun \in 0 .. MaxRequests
  /\ lost \in 0 .. MaxLost

\* What the rows of a document add up to in one balance.
Total(f) ==
  LET sum[n \in 0 .. Len(f)] == IF n = 0 THEN 0 ELSE sum[n - 1] + f[n]
  IN  sum[Len(f)]

Units(rows, k) == [n \in DOMAIN rows |-> IF rows[n].key = k THEN rows[n].qty ELSE 0]
Cents(rows, k) == [n \in DOMAIN rows |-> IF rows[n].key = k THEN rows[n].value ELSE 0]

Moved(d, k) == [qty   |-> Total(Units(ledger[d], k)),
                value |-> Total(Cents(ledger[d], k))]

\* A voided bill or invoice has moved nothing in the end, however often it was
\* posted, refused half-way and voided, and by whom at the same time.
VoidedMovesNothing ==
  \A d \in (Bills \cup Invoices) \ late, k \in Keys :
    doc[d].status = "void" => Moved(d, k) = [qty |-> 0, value |-> 0]

\* 39-stock-transfers.sql: "stock moves between warehouses of the same tenant", so a
\* transfer brings into its destination no more than it took from its source.
TransferCreatesNothing ==
  \A t \in Transfers, i \in Items :
    Moved(t, <<i, At[t]>>).qty + Moved(t, <<i, To[t]>>).qty <= 0

\* A count whose sheet still showed the book when it was counted takes away the
\* gap that was there at the counting, whatever was sold, bought or moved between
\* counting, review, approval and posting.
Settles(s) ==
  /\ Doing(s, "settle") /\ txn'[s] = Idle
  /\ doc[txn[s].doc].status # "posted" /\ doc'[txn[s].doc].status = "posted"

CountSettlesGap ==
  [][\A s \in Requests : Settles(s) =>
       \A n \in DOMAIN txn[s].read.lines :
         LET line == txn[s].read.lines[n]
             k    == <<line.item, At[txn[s].doc]>>
         IN  line.owed # Never => gap'[k] = gap[k] - line.owed]_vars
================================================================================
