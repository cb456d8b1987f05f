CONSTANTS
  n1 = n1
  Name = {n1}
  Template = {n1}
  MaxEntries = 1
  DisableAfter = 2
  MaxRelease = 2
  MaxMoves = 2
SPECIFICATION ScheduleSpec
INVARIANTS UserOwnsHis EngineIsFair
PROPERTIES FailingIsDisabled
