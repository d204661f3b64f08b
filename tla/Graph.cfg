\* Four workflows, any order of endings and reports, cuts at any moment.
SPECIFICATION Spec
CONSTANTS
  Flows <- MCFlows
  Counts = {0, 2}
  MaxRounds = 11
INVARIANTS VerdictsFollowFates NothingLeftBehind UnwantedAreTold NextChangesNothing DivisionStands PassesEnd
\* Runs that have ended, and bounds used up, leave nothing to do.
CHECK_DEADLOCK FALSE
