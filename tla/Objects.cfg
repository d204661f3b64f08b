\* One object that a run and a push write, with two transfers of the run's file and time for
\* a hold to lapse while it may be fetched, against a sweeper that may die.
SPECIFICATION Spec
CONSTANTS
  d1 = d1 r1 = r1 p1 = p1 p2 = p2
  Digests = {d1}
  Runs = {r1}
  OneShot = {r1}
  Pushes = {p1}
  Fetchers = {f1, f2}
  Sweepers = {s1}
  FileOf <- OneFile
  Grace = 2
  Hold = 3
  Retain = 3
  MaxDeaths = 1
  NoOne = NoOne NoRow = NoRow NoBytes = NoBytes
\* Runs that have ended, and bounds used up, leave nothing to do.
CHECK_DEADLOCK FALSE
INVARIANTS CountsAgree NamedHaveBytes LateResultFindsBytes BudgetKept
PROPERTY StoreDrains
