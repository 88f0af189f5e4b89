\* A poller and two tasks that open and close descriptors besides it, with
\* two slots: one of the three finds none.  The time-outs are none, zero, less
\* than a quantum and more than one quantum but no multiple of it.
CONSTANTS
  Task = {poller, h1, h2}
  Poller = {poller}
  EVENTFD_COUNT = 2
  Quantum = 2
  Timeouts <- TestTimeouts
  MaxUnread = 2
SPECIFICATION FairSpec
INVARIANTS
  TypeOK
  CountsOwnWrites
PROPERTIES
  WriteEndsPoll
  SocketIsReported
