SPECIFICATION FairSpec
CONSTANTS
  h1 = h1
  h2 = h2
  h3 = h3
  n1 = n1
  n2 = n2
  Servers = {h1, h2, h3}
  NickNames = {n1, n2}
  InitServers <- ThreeServers
  InitNicks <- TwoNicks
  CycleDelay = 2
  PingTimeout = 2
  PingIntervals = {1}
  JumpNums <- NumsAround
  MaxQueued = 1
  None = None
CONSTRAINT OneListEdited
INVARIANT JumpTarget
INVARIANT PingTimeoutEarned
INVARIANT NicksTried
PROPERTY ServersCycled
PROPERTY Watched
