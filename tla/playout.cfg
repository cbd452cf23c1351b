SPECIFICATION Spec
CONSTANTS
  Channels = {"a", "b", "c"}
  Source = "a"
  Schedules <- MCSchedules
  MaxItems = 3
  Slack = 2
  Day = 8
  MaxTime = 17
CHECK_DEADLOCK FALSE
INVARIANTS
  TypeOK
  SlotNotExceeded
  StreamMatchesGuide
  RedirectsEnd
  NeverFarAhead
