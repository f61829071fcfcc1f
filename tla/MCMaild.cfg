SPECIFICATION Spec
CONSTANTS
  m1 = m1
  m2 = m2
  m3 = m3
  Mails = {m1, m2, m3}
  To <- ToTwo
  Priority <- Priorities
  WithSms = {m1}
  MaxWorkers = 2
  MaxPerHour = 1
  ListMax = 1
  Groupping = TRUE
  None = None
CHECK_DEADLOCK FALSE
INVARIANTS SlotsExact OnePlace DrainedAtExit
 
