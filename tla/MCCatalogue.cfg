SPECIFICATION CatSpec
CONSTANTS
  a = a
  b = b
  t1 = t1
  t2 = t2
  edu = edu
  art = art
  None = None
  Creators = {a, b}
  Heirs = {b}
  CREATOR_CAMPAIGNS_BUCKET_SIZE = 2
  CATEGORY_CAMPAIGNS_BUCKET_SIZE = 2
  TAG_CAMPAIGNS_BUCKET_SIZE = 2
  MAX_TAGS_PER_CAMPAIGN = 2
  LIST_MAX_LIMIT = 3
  Limits = {}
  MaxCampaigns = 3
  Titles = {t1, t2}
  Categories = {edu, art}
  Tags = {x}
SYMMETRY Labels
INVARIANTS IndexesExact
\* Once all campaigns have been closed nothing is left to do here.
CHECK_DEADLOCK FALSE
