\* Two guests, every hypercall, a keyboard; no tick hidden by a hypercall.
CONSTANTS
  NUM_OF_GUESTOS = 2
  MAX_TASK_PER_GUEST = 1
  MAX_NO_OF_SWITCHES = 10
  Eta = 4
  Schedule <- TwoGuests
  TIMER_PERIOD = 2
  Periods = {1, 5}
  MaxCallTicks = 0
  RaceTicks = FALSE
  FaultyGuests = {}
  Keys <- OneKey
SPECIFICATION FairMailbox
INVARIANTS TypeOK WindowHonoured MailboxTypeOK KeysToOwner
PROPERTIES ImplementsSchedule DispatchedForever TimerDelivered KeyDelivered
CHECK_DEADLOCK FALSE
