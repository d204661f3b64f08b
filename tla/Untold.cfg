\* One run, one push and a sweeper: a reference retired and recorded again.
SPECIFICATION Spec
CONSTANTS
  d1 = d1 r1 = r1 p1 = p1 p2 = p2
  Digests = {d1}
  Runs = {r1}
  OneShot = {r1}
  Pushes = {p1}
  Fetchers = {f1}
  Sweepers = {s1}
  FileOf <- OneFile
  Grace = 1
  Hold = 1
  Retain = 1
  MaxDeaths = 0
  NoOne = NoOne NoRow = NoRow NoBytes = NoBytes
\* Runs that have ended, and bounds used up, leave nothing to do.
CHECK_DEADLOCK FALSE
INVARIANT ReferencedAgainIsTold
