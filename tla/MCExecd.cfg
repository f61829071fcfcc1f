SPECIFICATION Spec
CONSTANTS
  Keys = {k1, k2, k3}
  Plain = {k3}
  NoAddress = {k2}
  Offenders = 1
  MaxPid = 3
  MaxRequests = 3
  MaxFailures = 1
CHECK_DEADLOCK FALSE
INVARIANTS OwedListed OffenderTime
PROPERTIES UndoAlone AllUndone
