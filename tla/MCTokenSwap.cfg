SPECIFICATION GovSpec
CONSTANTS
  k = k
  a = a
  b = b
  None = None
  Users = {k, a}
  Creators = {k}
  Admins = {adm}
  Tokens = {xlm, usdc}
  AllowedTokens = {}
  MilestoneIds = {1, 2}
  Plans = {}
  Amounts = {1}
  Goals = {2}
  Durations = {1}
  Extensions = {}
  UserCaps = {0}
  PersonalCaps = {}
  Fees = {1000}
  TxCaps = {}
  DurationCaps = {}
  SECONDS_PER_DAY = 1
  CAMPAIGN_DURATION_MAX_DAYS = 2
  MAX_EXTENSION_DAYS = 1
  AUTO_PAUSE_BURST_THRESHOLD = 1
  PLATFORM_FEE_MAX_BPS = 1000
  VESTING_DELAY_MAX_DAYS = 1
  MaxCampaigns = 1
  MaxRaised = 3
  MaxTime = 1
  Vestings <- NoVesting
  Delays = {1}
  TOKEN_UPDATE_DELAY_SECS = 1
  MAX_TOKEN_UPDATE_DELAY_SECS = 1
INVARIANTS RefundsCovered
