\* Two handlers overlap on one account; accounts do not interact.
CONSTANTS
  Users = {u1}
  Referred = {u1}
  Passwords = {p1, p2}
  Wallets = {a1, a2}
  Workers = {w1, w2}
  None = None
SPECIFICATION FairSpec
INVARIANTS TypeOK PasswordsAgree WalletIsHandedOut ReferralIsRegistered
PROPERTIES OnlyStaleSaveDeactivates RefusedOnlyWhenOverlapping PasswordReachesAuth
