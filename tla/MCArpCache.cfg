CONSTANTS
  ARP_TABLE_SIZE = 2
  ARP_MAXAGE = 4
  ARP_AGE_REREQUEST_USED = 2
  ARP_MAXPENDING = 2
  IPs = {a, b, c}
  MACs = {m1, m2}
  Copies = {1, 2}
  NULL = NULL
SPECIFICATION Spec
INVARIANTS ArpInv SentToOwner
PROPERTIES LeastDestructive QueuedLeaves
