-------------------------- MODULE MCInvoiceCreation --------------------------
(***************************************************************************)
(* Small instances of InvoiceCreation and PricedInvoices for TLC.          *)
(***************************************************************************)
EXTENDS PricedInvoices, TLC

Symmetry == Permutations(Requests)
==============================================================================
