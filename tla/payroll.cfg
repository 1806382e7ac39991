SPECIFICATION Spec
CONSTANTS
  l1 = l1
  Runs = {p1, p2}
  Loans = {l1}
  Claims = {c1}
  Requests = {s1, s2}
  LastPeriod = 2
  Terms <- SmallLoan
  Wage = 6
  Amount = 2
  Unclaimed = Unclaimed
SYMMETRY Symmetry
INVARIANTS TypeOK LentOnce LoanTies RunTies TakenOnce
