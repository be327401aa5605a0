\* One investor with a referral, two handlers, two verifications.
CONSTANTS
  Users = {u1}
  Tokens = {t1}
  Amounts = {1, 2}
  Workers = {w1, w2}
  None = None
  MaxAttempts = 2
  OneTime = TRUE
  Ids = {i1, i2}
  MaxWrong = 4
  Referred = {u1}
  Fee = 1
  MaxBalance = 3
SPECIFICATION FairSpec
INVARIANTS TypeOK AttemptsBounded OpensByOwnCode InvestedAsConfirmed NeverStuck
PROPERTIES ImplementsCodeUse OnlyDepositRevives ExhaustedIsClosed AnsweredUnlessHung
