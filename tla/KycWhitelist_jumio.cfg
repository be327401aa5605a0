\* Two handlers and the job on one investor with up to two activations, with Jumio.
CONSTANTS
  Investors = {i1}
  HasReferral = {}
  Wallets = {x1, x2}
  Provider = "JUMIO"
  AllowRecreate = FALSE
  Workers = {w1, w2}
  Job = job
  None = None
  Depth = 2
  MaxFaults = 0
SPECIFICATION Spec
SYMMETRY Symmetry
INVARIANTS TypeOK AllowedWasConfirmed VerifiedWasSubmitted
PROPERTY OnlyStaleSaveReopens
