-------------------------- MODULE MCStarsPayments --------------------------
(* StarsPayments on two invoices and two checkouts. *)
EXTENDS StarsPayments, TLC
=============================================================================
