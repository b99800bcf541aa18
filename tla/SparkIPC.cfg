\* Every channel may be overflowed; receives ask for what a queue reports.
CONSTANTS
  Channels = {c1, c2, c3}
  Byte <- Bytes
  MAX_QUEUES = 3
  PageSize = 3
  Sizes = {1, 3}
  Messages <- ShortMessages
  Requests = {1, 2, 4}
  MaxFilled = 4
SPECIFICATION Spec
INVARIANTS TypeOK OneQueuePerChannel QueuesSound WritesInside
PROPERTIES ImplementsChannel OverflowKeepsNewest
SYMMETRY AnyChannel
