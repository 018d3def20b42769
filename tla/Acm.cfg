SPECIFICATION Spec
CONSTANTS
  Required <- ThreeModcods
  Setups <- ShortPasses
  MaxChanges = 3
INVARIANTS
  RuleSettled
  ScheduleIsOnline
  SegmentsTile
  EventsChain
\* A pass ends.
CHECK_DEADLOCK FALSE
