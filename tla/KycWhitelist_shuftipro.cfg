\* One handler and the job on one investor, with up to two activations, Shuftipro and failures.
CONSTANTS
  Investors = {i1}
  HasReferral = {i1}
  Wallets = {x1, x2}
  Provider = "SHUFTIPRO"
  AllowRecreate = TRUE
  Workers = {w1}
  Job = job
  None = None
  Depth = 2
  MaxFaults = 2
SPECIFICATION FairSpec
PROPERTIES VerifiedGetsAllowed ReferralsGetRegistered
\* A hung handler and a hung job leave nothing to do until the process restarts.
CHECK_DEADLOCK FALSE
