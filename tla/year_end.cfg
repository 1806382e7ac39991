SPECIFICATION Spec
CONSTANTS
  sales = sales
  rent = rent
  Requests = {r1}
  LastMonth = 2
  Income = {sales}
  Expense = {rent}
  Postings <- Manual
  NeedApproval <- Large
  Drafts = {d1}
  Handlers = {"manual", "approve", "reject", "soft-close", "reopen", "close-year"}
  MaxEntries = 4
INVARIANTS TypeOK  DraftPostsOnce
