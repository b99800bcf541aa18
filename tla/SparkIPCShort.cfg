\* A partition may ask for more than a queue holds.
CONSTANTS
  Channels = {c1}
  Byte <- Bytes
  MAX_QUEUES = 3
  PageSize = 3
  Sizes = {3}
  Messages <- ShortMessages
  Requests = {1, 2, 4}
  MaxFilled = 4
SPECIFICATION Spec
PROPERTY ShortReceiveIsZero
