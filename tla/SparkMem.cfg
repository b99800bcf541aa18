\* The heap has pages for three registrations; -1 is a task too.
CONSTANTS
  NUM_OF_GUESTOS = 2
  MAX_TASK_PER_GUEST = 2
  UnusedWords = 1
  NUM_ENTRIES_PER_PAGE = 8
  SparkEntries = 3
  GuestEntries = 2
  KernelTables = 2
  HeapFirst = 4
  HeapLast = 18
  Absent = Absent
  LeftOver <- Dirt
  Directories <- Registrations
  MayEmpty = FALSE
SPECIFICATION Spec
INVARIANTS TypeOK SpatialIsolation
PROPERTIES ImplementsSpaces
