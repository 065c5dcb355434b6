SPECIFICATION Spec
CONSTANTS
  reaper = reaper
CHECK_DEADLOCK FALSE
PROPERTIES
  DeliveriesAreOutbox
  EventsAreNoticed
  WorkersReturn
  CallsReturn
  JobsEnd
  StopsEnd
