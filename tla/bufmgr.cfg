\* One receiving port, two buffers, floods to both ports, and port 1's link going
\* down and up: every operation of the buffer manager in every order.
CONSTANTS
  NumPorts = 2
  NumBuffers = 2
  RefMod = 4
  Infos = {f1}
  Senders = {0}
  Toggling = {1}
SPECIFICATION Spec
INVARIANTS IndInv DownMeansDrained
PROPERTIES PoolSpec
