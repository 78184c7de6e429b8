SPECIFICATION OutputQueueSpec
CONSTANTS
  Bodies = {b1}
  Entries = {e1, e2, e3}
  Nil = Nil
  Other = Other
SYMMETRY QueueSymmetry
CONSTRAINT ListsSound
INVARIANT EntriesAccounted
PROPERTY Implements
