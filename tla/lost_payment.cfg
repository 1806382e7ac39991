SPECIFICATION Spec
CONSTANTS
  c1 = c1
  i1 = i1
  i2 = i2
  n1 = n1
  r1 = r1
  r2 = r2
  Customers = {c1}
  Invoices = {i1}
  CreditNotes = {n1}
  Receipts = {r1, r2}
  Requests = {s1, s2}
  CustomerOf <- OneCustomer
  Total <- Totals
  CreditLimit <- NoLimit
  StockInvoices <- NoInvoices
  Amounts = {1, 2}
  Handlers = {"post", "pay"}
  MaxEntries = 6
  None = None
INVARIANTS NoOverCollection
CHECK_DEADLOCK FALSE
