\* merge: first over two steps, one of which another step needs too.
SPECIFICATION Spec
CONSTANTS
  Flows <- MCShared
  Counts = {0, 2}
  MaxRounds = 11
INVARIANTS BarrierStaysLifted
\* Runs that have ended, and bounds used up, leave nothing to do.
CHECK_DEADLOCK FALSE
