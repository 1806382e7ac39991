----------------------------- MODULE MCReceivables -----------------------------
EXTENDS Receivables

CONSTANTS c1, i1, i2, n1, r1, r2

OneCustomer == [i \in Invoices |-> c1]
Totals == [i \in Invoices |-> IF i = i1 THEN 2 ELSE 1]
NoLimit == [c \in Customers |-> 0]
LimitTwo == [c \in Customers |-> 2]
NoInvoices == {}
OneStockInvoice == {i1}
================================================================================
