\* Hypercalls that hide up to two ticks, ticks inside hyper_call, guests that fault.
CONSTANTS
  NUM_OF_GUESTOS = 2
  MAX_TASK_PER_GUEST = 2
  MAX_NO_OF_SWITCHES = 10
  Eta = 4
  Schedule <- TwoGuests
  TIMER_PERIOD = 2
  Periods = {2, 4}
  MaxCallTicks = 2
  RaceTicks = TRUE
  FaultyGuests = {1}
SPECIFICATION Spec
INVARIANTS IInv CallGate ContextMatches RunsOwnWindow TimerBelowPeriod PerfInBounds
PROPERTIES KilledStaysOut
CHECK_DEADLOCK FALSE
