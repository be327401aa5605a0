\* One handler at a time, on two transactions.
CONSTANTS
  Txns = {t1, t2}
  Workers = {w1}
  Codes <- MCCodes
  NoDoc = NoDoc
  Idle = Idle
SPECIFICATION Spec
PROPERTY ImplementsLifecycle
\* A restart may lose every transaction before it is stored: nothing is left to do.
CHECK_DEADLOCK FALSE
