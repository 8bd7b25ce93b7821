SPECIFICATION Spec
CONSTANTS
  Settings = {100, 150}
  Default = 150
  Routes = {0, 1}
  LOOP_MAX_ATTEMPTS = 2
  MaxRequests = 2
  MaxScorings = 4
INVARIANTS TypeOK OneAnswerAtATime
PROPERTIES SelectionRespected ButtonComesBack RoutesGetScores
CHECK_DEADLOCK FALSE
