SPECIFICATION Spec
CONSTANTS
  Items = {"tea"}
  Warehouses = {"main", "shop"}
  Bills = {}
  Invoices = {}
  Transfers = {"t1"}
  Counts = {}
  Lines <- DocLines
  At <- AtMain
  To <- ToShop
  Opening <- Start
  Threshold = 100
  Requests = {s1}
  Never = Never
  MaxRequests = 4
  MaxLost = 0
INVARIANTS TransferCreatesNothing
CHECK_DEADLOCK FALSE
