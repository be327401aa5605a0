------------------------------ MODULE MCInvest ------------------------------
(* Small instances of Invest for TLC.                                      *)
EXTENDS Invest, TLC
=============================================================================
