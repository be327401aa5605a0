-------------------------- MODULE MCKycWhitelist --------------------------
(* Small instances of KycWhitelist for TLC.                                *)
EXTENDS KycWhitelist, TLC

\* Request handlers and wallets are interchangeable in the safety run.
Symmetry == Permutations(Workers) \cup Permutations(Wallets)
=============================================================================
