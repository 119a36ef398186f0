SPECIFICATION Spec
CONSTANTS
  A = A
  B = B
  Nothing = Nothing
  Capacity = 2
  Schedules = {A, B}
  Touchable = {B}
  Polled = FALSE
  Period <- MCPeriod
  Recurrences <- MCRecurrences
  ClockMod = 8
  MaxGap = 1
  IsrMod = 2
  Delays = {2}
INVARIANT Idempotent
