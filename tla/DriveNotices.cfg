SPECIFICATION Spec
CONSTANTS
  Drives = {d1}
  HasSerial = {d1}
  Reasons = {failed, wear}
  GapReasons = {wear}
  MaxLoads = 2
INVARIANTS
  ShownIsCurrent
  ProblemIsShown
  GapIsTold
  AnnouncedOnce
