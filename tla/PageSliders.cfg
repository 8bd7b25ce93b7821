SPECIFICATION Spec
CONSTANTS
  Settings = {100, 150}
  Default = 150
  Routes = {0, 1}
  LOOP_MAX_ATTEMPTS = 2
  MaxRequests = 2
  MaxScorings = 2
INVARIANT RoutesFollowSliders
CHECK_DEADLOCK FALSE
