SPECIFICATION UdpFairSpec
CONSTANTS
  Workers = {w1, w2}
  Requests = {r1, r2, r3}
  Undecodable = {r3}
  Blacklisted = {r2}
  Capacity = 1
  Limit = 2
  FaultSets = {{"sendto", "epoll_wait"}, {"recvfrom"}}
  NoRequest = NoRequest
  NoWorker = NoWorker
  SocketCapacity = 2
INVARIANTS UdpTypeOK NoEventForgotten NeverAllAsleep NoDatagramStuck EachDatagramOnce
PROPERTIES ImplementsService EveryDatagramAnswered
