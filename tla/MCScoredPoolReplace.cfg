CONSTANTS
  Accounts <- MCAccounts
  Scores <- MCScores
  Counts <- MCCounts
  Period = 2
  NoScore = NoScore
SPECIFICATION Spec
PROPERTY MemberReplacedByNextHighest
