SPECIFICATION MCSpec
CONSTANTS
  Slots = {1, 2}
  a = a
  b = b
  Handles = {a, b}
  Masks = {"*", "net", "joe.net"}
  Hosts = {"joe", "ann"}
  Strength <- Matching
  Length <- Letters
  MinUid <- Smallest
  MaxUid = 2
  MaxMasks = 2
  MaxNest = 2
  MaxChanges = 5
INVARIANT MasksFound
INVARIANT RecordsKept
INVARIANT BotFlagAgrees
SYMMETRY HandleSymmetry
CHECK_DEADLOCK FALSE
