SPECIFICATION ListSpec
CONSTANTS
  a = a
  b = b
  None = None
  Creators = {a, b}
  Heirs = {a, b}
  CREATOR_CAMPAIGNS_BUCKET_SIZE = 2
  LIST_MAX_LIMIT = 2
  MAX_SCAN_WINDOW = 2
  Limits = {0, 1, 2, 5}
  MaxCampaigns = 3
INVARIANTS IndexInv AnswersExact ListComplete
PROPERTY QueryEnds
