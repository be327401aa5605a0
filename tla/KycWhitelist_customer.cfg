\* A callback that names no investor.
CONSTANTS
  Investors = {i1}
  HasReferral = {}
  Wallets = {x1}
  Provider = "JUMIO"
  AllowRecreate = FALSE
  Workers = {w1}
  Job = job
  None = None
  Depth = 1
  MaxFaults = 0
SPECIFICATION Spec
PROPERTY NoSuchUserIsAnswered
