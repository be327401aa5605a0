\* An ether and a token transfer, both tracked: the fair job against one subscription
\* handler whose notifications may all be lost.
CONSTANTS
  x1 = x1
  x2 = x2
  Txs = {x1, x2}
  Kind <- KindEthTransfer
  Tracked = {x1, x2}
  Workers = {w1}
  Cron = cron
  None = None
  StartBlock = 1
  BlockOffset = 1
  FirstHeight = 1
  MaxHeight = 3
  MaxFaults = 1
SPECIFICATION FairSpec
INVARIANTS TypeOK CheckpointComplete
PROPERTIES ImplementsLog TrackedSettles
