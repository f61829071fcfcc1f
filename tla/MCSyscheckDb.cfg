SPECIFICATION Spec
CONSTANTS
  f1 = f1
  f2 = f2
  h1 = h1
  h2 = h2
  t1 = t1
  t2 = t2
  a1 = a1
  Files = {f1, f2}
  Threads = {t1, t2}
  Metas = {1, 2}
  Attrs = {a1}
  NoAttrs = NoAttrs
  Hashes = {h1, h2}
  Xxx = Xxx
  Deleted = Deleted
  Reports <- ReportsOf
  OldRows <- RowsOf
  Completed = Completed
  Rescanned = Rescanned
  AlertNew = TRUE
  ReportNew = TRUE
  Fails = {"found"}
  MaxFails = 1
  MaxCrashes = 1
  MaxCommands = 1
  None = None
CHECK_DEADLOCK FALSE
SYMMETRY Symmetric
INVARIANTS OneLiveRow
PROPERTIES HashChangeSeen ImplementsBaseline
