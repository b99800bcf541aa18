\* Packets have the size the first guest asks for; task2 waits for uIP.
CONSTANTS
  Gos = {1, 2}
  Ports = {5}
  FirstSock = 65536
  MAX_OPEN_PORTS = 2
  APP_QUEUE_SIZE = 2
  Quota <- TwoAndOne
  Senders = {1}
  SendSize = 1
  RecvSizes <- OneOrTwo
  CallSize = 6
  DataSize = 10
  MaxReplies = 2
  Lengths = {1}
  MaxPackets = 3
  UIP_LISTENPORTS = 3
  UIP_CONNS = 2
  FirstLport = 1024
  Interrupted = FALSE
  RX_DESC_DEF = 3
  Frame <- SomeFrames
SPECIFICATION FairSpec
INVARIANTS TypeOK EndpointUnique CallsFramed SocketsKnown RoundsSound HandedToOwner HandedOnce OneSocketInOrder RepliesOwn
CHECK_DEADLOCK FALSE
PROPERTIES Demultiplexed ListenServed
