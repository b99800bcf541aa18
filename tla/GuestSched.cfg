\* The virtual timer does not hit rtl_schedule.
CONSTANTS
  NumTasks = 2
  Period <- Periods
  Priority <- Priorities
  ContextId <- Contexts
  Resolution = 2
  Hyper = 12
  MaxAway = 3
  MaxHidden = 1
  MaxNesting = 1
  Infinity = Infinity
SPECIFICATION FairSpec
INVARIANTS TypeOK OwnContext HighestRuns WakesUp
PROPERTIES WaitsThenRuns
