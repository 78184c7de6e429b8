SPECIFICATION ChannelsSpec
CONSTANTS
  bot = bot
  u1 = u1
  c1 = c1
  c2 = c2
  Users = {bot, u1}
  Bot = bot
  Nicks = {n1, n2, n3}
  Chans = {c1, c2}
  Masks = {m1}
  NoNick = NoNick
  NoUhost = NoUhost
  Garbage = {"null", "wild"}
  MaxChanges = 5
  MaxSent = 3
SYMMETRY ChanSymmetry
INVARIANT MembersAgree
INVARIANT CacheCovers
INVARIANT MasksSound
CHECK_DEADLOCK FALSE
