SPECIFICATION CronFairSpec
CONSTANTS
  IntMax = 15
  Inputs <- MCInputs
  UnitField <- MCUnitField
  DowField <- MCDowField
  MonthDays <- MCMonthDays
  LeapMonth = 2
  IsLeap <- MCIsLeap
  Weekday <- MCWeekday
  Limit = 4
  Times <- MCTimes
INVARIANTS NothingSkipped FoundMatches FieldsMeanTexts
PROPERTY Terminates
CHECK_DEADLOCK FALSE
