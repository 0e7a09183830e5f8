SPECIFICATION FairSpec
CONSTANTS
  a = a
  b = b
  None = None
  Creators = {a, b}
  Heirs = {b}
  CREATOR_CAMPAIGNS_BUCKET_SIZE = 2
  LIST_MAX_LIMIT = 3
  Limits = {3}
  MaxCampaigns = 3
PROPERTY QueryAlwaysEnds
