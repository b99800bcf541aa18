\* One hypercall may hide one tick: windows of sched.output_bak get lost.
CONSTANTS
  NUM_OF_GUESTOS = 3
  MAX_TASK_PER_GUEST = 1
  MAX_NO_OF_SWITCHES = 10
  Eta = 7
  Schedule <- BackupSchedule
  TIMER_PERIOD = 2
  Periods = {4}
  MaxCallTicks = 1
  RaceTicks = FALSE
  FaultyGuests = {}
SPECIFICATION Spec
INVARIANT WindowHonoured
