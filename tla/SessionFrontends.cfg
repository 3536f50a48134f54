SPECIFICATION FairSpec
CONSTANTS
  Transports = {tr1, tr2}
  NoTransport = null
  Senders = {s1, s2}
  MaxSessions = 3
  MaxMessages = 1
INVARIANTS
  NewestIsCurrent
  NotToOlder
  
PROPERTY
  Arrives
