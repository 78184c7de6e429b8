SPECIFICATION FairSpec
CONSTANTS
  Usec = 2
  MaxId = 2
  MaxSec = 2
  MaxTimers = 2
  Howlongs <- Delays
  Modules = {tcl}
  Scripts = {}
  None = None
INVARIANT SortedByInstant
PROPERTY IdsStayUnique
PROPERTY NoneDueAfterRun
PROPERTY PollWakesInTime
PROPERTY RunTerminates
