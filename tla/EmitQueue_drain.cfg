SPECIFICATION FairSpec
CONSTANTS
  Sources = {s1, s2, s3}
  Capacity = 2
  MaxEmits = 2
  Free = Free
INVARIANTS AnswerIsTruth NothingStranded
PROPERTY EmitReturns
CHECK_DEADLOCK FALSE
