SPECIFICATION Spec
CONSTANTS
  Requests <- MCRequests
  Answers <- MCAnswers
  MaxRequests = 3
  MaxAnswers = 2
  Room = 2
  UnknownRoom = 2
  Memory = 1
INVARIANTS
  TypeOK
  AnswersMatch
  WellBehavedKept
PROPERTIES
  RequestsDelivered
  EveryAnswerHandled
CHECK_DEADLOCK FALSE
