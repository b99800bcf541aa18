\* The timer may hit example3_app between the loop over c and its uses.
CONSTANTS
  Gos = {1, 2}
  Ports = {5}
  FirstSock = 65536
  MAX_OPEN_PORTS = 2
  APP_QUEUE_SIZE = 2
  Quota <- TwoAndOne
  Senders = {1}
  SendSize = 1
  RecvSizes <- OneAndMany
  CallSize = 6
  DataSize = 10
  MaxReplies = 1
  Lengths = {1}
  MaxPackets = 3
  UIP_LISTENPORTS = 3
  UIP_CONNS = 2
  FirstLport = 1024
  Interrupted = TRUE
  RX_DESC_DEF = 3
  Frame <- SomeFrames
SPECIFICATION Spec
PROPERTY Demultiplexed
CHECK_DEADLOCK FALSE
