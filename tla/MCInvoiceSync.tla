---------------------------- MODULE MCInvoiceSync ----------------------------
(***************************************************************************)
(* Small instances of InvoiceSync, with the checkout pages over it, for    *)
(* TLC.                                                                    *)
(***************************************************************************)
EXTENDS Checkout

MCDue == [i \in Invoices |-> 2]
==============================================================================
