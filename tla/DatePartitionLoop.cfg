SPECIFICATION Spec
CONSTANTS
  Midnights <- ShortDayMidnights
  MaxNow = 10
  MaxLen = 5
  DayLength = 3
INVARIANTS
  Tiles
  ClosedForm
  CalendarDays
CHECK_DEADLOCK FALSE
