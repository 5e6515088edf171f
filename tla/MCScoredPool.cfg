CONSTANTS
  Accounts <- MCAccounts
  Scores <- MCScores
  Counts <- MCCounts
  Period = 2
  NoScore = NoScore
SPECIFICATION Spec
 
INVARIANT PoolSortedByScore
INVARIANT CandidateBookkeeping
INVARIANT MembersAreScoredCandidates
PROPERTY ImplementsScoredMembership
