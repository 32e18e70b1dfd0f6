SPECIFICATION Spec
CONSTANTS
  Addr = {a1, a2}
  NoAddr = NoAddr
  Forever = Forever
  Leases <- ShortLeases
  Replies = {"offer", "ack", "nak", "conflict"}
  MaxWait = 2
  TriesMod = 12
  TimerMod = 4
INVARIANTS LeaseIsMaintained RetriesAreBounded WaitingIsTimed
PROPERTY DeadLeaseIsReleased
