\* Three waiters, so that the list has a first, a middle and a last, and one
\* setter.
CONSTANTS
  Waiter = {w1, w2, w3}
  Setter = {s1}
  NoTask = NoTask
SPECIFICATION FairSpec
INVARIANTS
  TypeOK
  ListHoldsLiveWaiters
  NoMissedNotify
PROPERTIES
  NotifiedReturns
