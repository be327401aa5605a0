\* One handler on one transaction is enough for the list to miss a refund.
CONSTANTS
  Txns = {t1}
  Workers = {w1}
  Codes <- MCCodes
  NoDoc = NoDoc
  Idle = Idle
SPECIFICATION Spec
PROPERTY LatestFailureShown
\* A restart may lose the transaction before it is stored: nothing is left to do.
CHECK_DEADLOCK FALSE
