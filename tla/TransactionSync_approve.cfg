\* A token call that moves no tokens.
CONSTANTS
  x1 = x1
  x2 = x2
  Txs = {x1, x2}
  Kind <- KindApprove
  Tracked = {x2}
  Workers = {w1}
  Cron = cron
  None = None
  StartBlock = 1
  BlockOffset = 1
  FirstHeight = 0
  MaxHeight = 1
  MaxFaults = 0
SPECIFICATION Spec
PROPERTY OnlyEventsConfirmTokens
