\* Three calls within some minutes of three ticks, three attempts and one failing event.
CONSTANTS
  MaxRetries = 3
  Limit = 2
  Minute = 3
  RetrySleep = 1
  MaxCalls = 3
  MaxHandlerFaults = 1
  MaxTime = 5
SPECIFICATION Spec
INVARIANTS
  PacedByWindow
  EventsTellOutcome
PROPERTIES
  RetriesAreJustified
  EveryCallEnds
\* The bound on calls stops the model, not the program.
CHECK_DEADLOCK FALSE
