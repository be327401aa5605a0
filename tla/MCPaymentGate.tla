--------------------------- MODULE MCPaymentGate ---------------------------
(* Small instances of PaymentGate for TLC.                                 *)
EXTENDS PaymentGate

\* One status of each kind: refund, confirming, complete.
MCCodes == {-2, 1, 100}
=============================================================================
