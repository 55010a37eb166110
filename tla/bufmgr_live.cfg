\* A one-buffer pool both ports compete for, while a link toggles: who waits for a
\* buffer gets one, and flushes end.
CONSTANTS
  NumPorts = 2
  NumBuffers = 1
  RefMod = 4
  Infos = {f1}
  Senders = {0, 1}
  Toggling = {1}
SPECIFICATION FairSpec
PROPERTIES TrafficFlows FlushCompletes
