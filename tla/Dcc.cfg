SPECIFICATION Spec
CONSTANTS
  Size = 4
  Chunk = 2
  Capacities = {1, 3}
  Lengths = {0, 2}
  Resumes <- AnyResume
  Timeouts = {0, 1}
  MaxAttempts = 2
 
PROPERTY OffersProgress
CHECK_DEADLOCK FALSE
