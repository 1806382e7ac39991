SPECIFICATION Spec
CONSTANTS
  Items = {"tea"}
  Warehouses = {"main", "shop"}
  Bills = {"b1"}
  Invoices = {"i1"}
  Transfers = {"t1"}
  Counts = {"c1"}
  Lines <- DocLines
  At <- AtMain
  To <- ToShop
  Opening <- Start
  Threshold = 100
  Requests = {s1, s2}
  Never = Never
  MaxRequests = 6
  MaxLost = 1
INVARIANTS
  TypeOK
  VoidedMovesNothing
PROPERTY
  CountSettlesGap
SYMMETRY Interchangeable
CHECK_DEADLOCK FALSE
