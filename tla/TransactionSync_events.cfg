\* A call that cannot be decoded, and fewer blocks before StartBlock than BlockOffset as in the defaults of config.ts: no run of the job is ever completed, events are still recorded.
CONSTANTS
  x1 = x1
  x2 = x2
  Txs = {x1, x2}
  Kind <- KindInvestUnknown
  Tracked = {x1, x2}
  Workers = {w1}
  Cron = cron
  None = None
  StartBlock = 0
  BlockOffset = 1
  FirstHeight = 0
  MaxHeight = 2
  MaxFaults = 1
SPECIFICATION FairSpec
PROPERTY EventsSettle
