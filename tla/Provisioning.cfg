SPECIFICATION EngineFairSpec
CONSTANTS
  Relations <- AllRelations
  Requests <- AllRequests
  MaxAnswers = 5
INVARIANTS EngineInv ToldTheEnd
PROPERTY Ends
CHECK_DEADLOCK FALSE
