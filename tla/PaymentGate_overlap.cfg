\* Three fair handlers overlap on one transaction; transactions do not interact.
CONSTANTS
  Txns = {t1}
  Workers = {w1, w2, w3}
  Codes <- MCCodes
  NoDoc = NoDoc
  Idle = Idle
SPECIFICATION FairSpec
INVARIANTS TypeOK DocumentsCoherent FailureIsShown ConversionIsRecorded
PROPERTIES OnlyStaleSaveUndoes NoConversionAfterFailure ConversionSettles
\* A restart may lose the transaction before it is stored: nothing is left to do.
CHECK_DEADLOCK FALSE
