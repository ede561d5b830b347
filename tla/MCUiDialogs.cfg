SPECIFICATION FairSpec
CONSTANTS
  Askers = {mp, ecp}
  Questions = {yes_no, choose}
  MaxSlots = 3
  None = None
INVARIANTS
  QuestionShown
  AnswerIsOwn
PROPERTIES
  QuestionAnswered
