SPECIFICATION Spec
CONSTANTS
  k = k
  a = a
  b = b
  None = None
  Users = {a}
  Creators = {k}
  Admins = {adm}
  Tokens = {xlm}
  AllowedTokens = {}
  MilestoneIds = {1, 2}
  Plans <- HalfPlan
  Amounts = {4}
  Goals = {4}
  Durations = {1}
  Extensions = {}
  UserCaps = {0}
  PersonalCaps = {}
  Fees = {1000}
  TxCaps = {}
  DurationCaps = {}
  SECONDS_PER_DAY = 1
  CAMPAIGN_DURATION_MAX_DAYS = 2
  MAX_EXTENSION_DAYS = 1
  AUTO_PAUSE_BURST_THRESHOLD = 1
  PLATFORM_FEE_MAX_BPS = 1000
  VESTING_DELAY_MAX_DAYS = 1
  MaxCampaigns = 1
  MaxRaised = 4
  MaxTime = 0
  Vestings <- NoVesting
INVARIANT RefundsCovered
