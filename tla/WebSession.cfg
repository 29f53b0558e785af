CONSTANTS
  f1 = f1
  f2 = f2
  mine = mine
  theirs = theirs
  proxy = proxy
  nat = nat
  Fetches <- MCFetches
  Addresses <- MCAddresses
  Trusted <- MCTrusted
  Networks <- MCNetworks
  Free = 2
  Base = 1
  Cap = 1
  Window = 0
  MaxChanges = 1
  MaxAsked = 3
  MaxFaults = 1
  QuietFrom = 0
  MaxClock = 1
SPECIFICATION FairSpec
INVARIANT RightTokenIsServed
PROPERTY TabComesToShowQueue
CHECK_DEADLOCK FALSE
