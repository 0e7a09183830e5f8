SPECIFICATION Spec
CONSTANTS
  k = k
  a = a
  b = b
  None = None
  Users = {k, a}
  Creators = {k}
  Admins = {adm}
  Tokens = {xlm}
  AllowedTokens = {}
  MilestoneIds = {1, 2, 3}
  Plans <- ThreePlan
  Amounts = {13, 39}
  Goals = {39}
  Durations = {1, 2}
  Extensions = {1}
  UserCaps = {0, 26}
  PersonalCaps = {26}
  Fees = {750, 1000, 2000}
  TxCaps = {26}
  DurationCaps = {1, 2}
  SECONDS_PER_DAY = 1
  CAMPAIGN_DURATION_MAX_DAYS = 2
  MAX_EXTENSION_DAYS = 1
  AUTO_PAUSE_BURST_THRESHOLD = 1
  PLATFORM_FEE_MAX_BPS = 1000
  VESTING_DELAY_MAX_DAYS = 1
  MaxCampaigns = 1
  MaxRaised = 39
  MaxTime = 1
  Vestings <- NoVesting
INVARIANTS TypeOK DeadlineBounded FeeBounded
PROPERTY CapsRespected
