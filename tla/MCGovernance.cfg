SPECIFICATION GovSpec
CONSTANTS
  k = k
  a = a
  b = b
  None = None
  Users = {k, a}
  Creators = {k}
  Admins = {adm, boss}
  Tokens = {xlm, usdc}
  AllowedTokens = {usdc}
  MilestoneIds = {1, 2}
  Plans = {}
  Amounts = {2}
  Goals = {2}
  Durations = {1}
  Extensions = {}
  UserCaps = {0}
  PersonalCaps = {}
  Fees = {1000}
  TxCaps = {}
  DurationCaps = {}
  SECONDS_PER_DAY = 1
  CAMPAIGN_DURATION_MAX_DAYS = 2
  MAX_EXTENSION_DAYS = 1
  AUTO_PAUSE_BURST_THRESHOLD = 1
  PLATFORM_FEE_MAX_BPS = 1000
  VESTING_DELAY_MAX_DAYS = 1
  MaxCampaigns = 1
  MaxRaised = 2
  MaxTime = 2
  Vestings <- HalfReserve
  Delays = {1, 2}
  TOKEN_UPDATE_DELAY_SECS = 2
  MAX_TOKEN_UPDATE_DELAY_SECS = 2
INVARIANTS GovTypeOK FeesToSnapshot
PROPERTIES SwapStrandsNothing
