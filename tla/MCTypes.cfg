SPECIFICATION Spec
CONSTANTS
  Documents <- MCDocuments
  Wanted = {1, 2, 3, 4}
  UsizeMax = 15
INVARIANTS AnswersAreMeaning PartsComeFirst RecursionBounded MembersTile CallsConsistent
CHECK_DEADLOCK FALSE
