SPECIFICATION FairSpec
CONSTANTS
  NSlots = 2
  Socks = {s1, s2}
  MaxSent = 0
  MaxWrite = 0
  Garbage <- ReusedMemory
  Interrupts = TRUE
  None = None
PROPERTY NoInvalidEvents
PROPERTY EventsPickedUp
