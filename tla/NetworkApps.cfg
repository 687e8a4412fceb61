SPECIFICATION AppSpec
CONSTANTS
  BUFFSIZE = 3
  MAX_LINE = 2
  FileLength = 7
  Size = 5
  Iterations = 3
  Backlog = 2
  ITER = 2
  Lengths = {1, 2, 4}
  Capacity = 2
  BUFFER_SIZE = 2
  MessageLength = 5
  Clients = 3
  MaxFds = 2
INVARIANTS FileArrives EdgeBlocks NetioAgrees EchoFaithful
PROPERTIES AppsEnd
