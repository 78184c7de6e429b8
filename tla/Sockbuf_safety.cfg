SPECIFICATION Spec
CONSTANTS
  NSlots = 2
  Socks = {s1, s2}
  MaxSent = 2
  MaxWrite = 2
  Garbage <- StaleMemory
  Interrupts = FALSE
  None = None
SYMMETRY SockSymmetry
INVARIANT PollMatchesSlots
INVARIANT InOrder
