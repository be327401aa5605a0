\* Two handlers on one list.  Two invitations a day, two at once.
CONSTANTS
  Emails <- Typed
  Small <- InSmall
  Workers = {w1, w2}
  None = None
  AtOnce = 2
  PerDay = 2
  MaxAttempts = 2
  Day = 1
  Asked <- Requested
  MaxClock = 2
  MaxMails = 3
SPECIFICATION Spec
INVARIANTS TypeOK DayLimitSoft MailsMatchEntries WalkMeetsEntries
PROPERTIES OnlyStaleSaveForgets
SYMMETRY Handlers
CHECK_DEADLOCK FALSE
