SPECIFICATION WSpec
CONSTANTS
  Addr = {a1}
  NoAddr = NoAddr
  Forever = Forever
  Leases <- OneLease
  Replies = {"offer", "ack", "bare_offer", "nak", "conflict"}
  MaxWait = 2
  TriesMod = 12
  TimerMod = 4
  Static = Static
  SysTimeouts = TRUE
  StartMayFail = FALSE
PROPERTY FallbackIsJustified
