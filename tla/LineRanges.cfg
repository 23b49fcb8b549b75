\* Seven lines, lists of two ranges, the whole file at the fifth read.
SPECIFICATION Spec
CONSTANTS
  Top = 7
  UnknownEnd = 8
  FullAt = 5
  MaxRanges = 2
  MaxCount = 5
INVARIANTS Normal AnswersAgree AdviceCompletes
PROPERTIES MarksAreRecorded
CHECK_DEADLOCK FALSE
