\* Two faults, of which the second may overwrite the record of the first, two
\* secrets, two connections and two addresses.
CONSTANTS
  Fault = {f1, f2}
  NoFault = NoFault
  Secret = {s1, s2}
  NoSecret = NoSecret
  Blank = Blank
  Conn = {c1, c2}
  Addr = {relay, direct}
  NoAddr = NoAddr
  AddrSlots = 1
  MaxUi = 2
  MaxAttempts = 2
SPECIFICATION Spec
INVARIANTS
  ReportsAreReal
  IdentityIsKept
  DisplayFollowsEvents
