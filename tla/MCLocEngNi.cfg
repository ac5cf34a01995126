SPECIFICATION Spec
CONSTANTS
  MaxRequests = 2
  Answers = {"ACCEPT"}
INVARIANTS NoRequestLost AnsweredOnce
PROPERTY EveryRequestEnds
