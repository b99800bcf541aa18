\* The virtual timer may hit rtl_schedule once.
CONSTANTS
  NumTasks = 2
  Period <- Periods
  Priority <- Priorities
  ContextId <- Contexts
  Resolution = 2
  Hyper = 12
  MaxAway = 3
  MaxHidden = 0
  MaxNesting = 2
  Infinity = Infinity
SPECIFICATION Spec
INVARIANT OwnContext
