SPECIFICATION FairSpec
CONSTANTS
  A = A
  B = B
  Nothing = Nothing
  Capacity = 2
  Schedules = {A, B}
  Touchable = {B}
  Polled = TRUE
  Period <- MCPeriod
  Recurrences <- MCRecurrences
  ClockMod = 8
  MaxGap = 1
  IsrMod = 2
  Delays = {2}
INVARIANT TypeOK
INVARIANT NoDoubleAdds
INVARIANT NotEarly
PROPERTY ServedForever
