----------------------------- MODULE MCTaxiCli ------------------------------
(* TaxiCli for TLC: the configurations give its constants their values. *)
EXTENDS TaxiCli, TLC
=============================================================================
