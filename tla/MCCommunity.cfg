SPECIFICATION Spec
CONSTANTS
  k = k
  s = s
  w = w
  h1 = h1
  h2 = h2
  spam = spam
  fraud = fraud
  None = None
  Admin = adm
  Creators = {k}
  Signers = {s}
  Callers = {k, w}
  Wallets = {w}
  MaxCampaigns = 2
  MAX_BOOKMARKS_PER_WALLET = 1
  MaxBatch = 2
  Hashes = {h1, h2}
  Reasons = {spam, fraud}
  MaxActs = 3
  Amounts = {1, 3}
  FundingGoal = 1
  BPS_DENOMINATOR = 10000
  AUTO_PAUSE_SINGLE_CONTRIBUTION_BPS_THRESHOLD = 20000
  AUTO_PAUSE_BURST_CHECK_MIN_RAISED_BPS = 5000
  AUTO_PAUSE_BURST_THRESHOLD = 1
  MaxRaised = 3
  MaxSequence = 1
SYMMETRY Opaque
INVARIANTS TypeOK BookmarksSound ModerationExact AutoPauseRolledBack BurstLimited
