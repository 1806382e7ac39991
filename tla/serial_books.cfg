SPECIFICATION Spec
CONSTANTS
  c1 = c1
  i1 = i1
  i2 = i2
  n1 = n1
  r1 = r1
  r2 = r2
  Customers = {c1}
  Invoices = {i1, i2}
  CreditNotes = {n1}
  Receipts = {r1, r2}
  Requests = {s1}
  CustomerOf <- OneCustomer
  Total <- Totals
  CreditLimit <- LimitTwo
  StockInvoices <- NoInvoices
  Amounts = {1, 2}
  Handlers = {"post", "void", "writeoff", "reverse", "pay", "credit", "clear", "bounce", "stale", "hold", "unhold"}
  MaxEntries = 8
  None = None
INVARIANTS TypeOK ReceivableTies PaidIsCollected ClearingTies
PROPERTIES CreditLimitRespected
CHECK_DEADLOCK FALSE
