CONSTANTS
  Daemons = {d1, d2}
  Clients = {c1, m1, m2}
  Peers = {m1, m2}
  Talkers = {m2}
  NoDaemon = NoDaemon
  NoClient = NoClient
SPECIFICATION FairSpec
INVARIANTS
  LiveDaemonReachable
  AnsweredInTime
PROPERTIES
  ShutdownEnds
