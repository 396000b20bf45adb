------------------------ MODULE MCInvoiceLifecycle ------------------------
(* Small instances of InvoiceLifecycle: totals of 1 pass the rule, 2 are held. *)
EXTENDS InvoiceLifecycle
=============================================================================
