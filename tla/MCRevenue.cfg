SPECIFICATION FairSpec
CONSTANTS
  Contributors = {a, b, c}
  Contributions = {0, 1, 2, 3}
  Shares = {0, 3333, 5000}
  REVENUE_SHARE_MAX_BPS = 5000
  Deposits <- SomeDeposits
  Others = 3
  MaxPool = 8
INVARIANTS RevenueInv ClaimsCovered DustBounded
PROPERTIES RevenuePaid
