--------------------------- MODULE MCTonPayments ---------------------------
(* TonPayments on two payments that share the receive address. *)
EXTENDS TonPayments, TLC
=============================================================================
