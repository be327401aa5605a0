------------------------- MODULE MCTransactionSync -------------------------
(* Small instances of TransactionSync for TLC.                             *)
EXTENDS TransactionSync, TLC

CONSTANTS x1, x2

KindEthTransfer == x1 :> "eth" @@ x2 :> "transfer"
KindInvestUnknown == x1 :> "invest" @@ x2 :> "unknown"
KindInvestFrom == x1 :> "invest" @@ x2 :> "transferFrom"
KindApprove == x1 :> "eth" @@ x2 :> "approve"
=============================================================================
