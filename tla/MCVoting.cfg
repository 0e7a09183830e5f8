SPECIFICATION Spec
CONSTANTS
  Voters = {v1, v2, v3}
  None = None
  Balances = {1}
  Quorums = {1, 2}
  Thresholds = {0, 5000}
  MinBalances = {2}
  Deadline = 0
  MIN_APPROVAL_THRESHOLD_BPS = 5000
  MAX_VOTES_QUORUM = 2
  DEFAULT_MIN_VOTES_QUORUM = 2
  DEFAULT_APPROVAL_THRESHOLD_BPS = 6000
  MaxTime = 1
  MaxEdits = 1
SYMMETRY VoterSymmetry
INVARIANTS VotingInv VerdictIsMajority FreshVotersAfterRevocation
