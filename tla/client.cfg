SPECIFICATION FairSpec
CONSTANTS
  MaxRequests = 3
  SocketCapacity = 2
INVARIANTS FreshUntilGap NoReplyTakenTwice ClientInv
PROPERTY SignalStopsClient
