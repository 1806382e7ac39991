SPECIFICATION Spec
CONSTANTS
  sales = sales
  rent = rent
  Requests = {r1, r2}
  LastMonth = 2
  Income = {sales}
  Expense = {rent}
  Postings <- SalesAndPurchases
  NeedApproval <- NoPostings
  Drafts = {}
  Handlers = {"manual", "document", "void", "soft-close", "reopen", "close-year"}
  MaxEntries = 3
SYMMETRY Symmetry
INVARIANT ClosingIsLast
PROPERTY SealedYear
