CONSTANTS
  Documents <- MCDocuments
  Extractions <- MCExtractions
  Declared <- MCDeclared
  MaxPages = 2
  MaxExtractions = 2
SPECIFICATION SpansSpec
INVARIANTS
  GroundedOnTouchedItems
  AnswerFollowsSkill
  LocatedTextMatches
CHECK_DEADLOCK FALSE
