SPECIFICATION MCSpec
CONSTANTS
  BotA = BotA
  BotB = BotB
  BotC = BotC
  Bots = {BotA, BotB, BotC}
  Secret <- Shared
  Prio <- Line
  NoAddress <- Misdirected
  Slots = {1, 2, 3}
  MaxWire = 1
  MaxTrouble = 4
INVARIANT AttemptUnderWay
INVARIANT ForestSound
INVARIANT Agreement
