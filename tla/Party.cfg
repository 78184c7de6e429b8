SPECIFICATION MCSpec
CONSTANTS
  s1 = s1
  s2 = s2
  rb = rb
  Sessions = {s1, s2}
  Bot = rb
  Slots = 3
  Chans = {"star", "other"}
  Main = "star"
  Stealth = {0, 1}
  MaxRetries = 1
  MaxBreaks = 2
  MaxMoves = 3
  MaxEntries = 3
INVARIANT MembershipMutual
INVARIANT SessionsMatch
INVARIANT ShownAreThere
INVARIANT BotsTold
SYMMETRY Symm
CHECK_DEADLOCK FALSE
