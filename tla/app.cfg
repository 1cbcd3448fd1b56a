SPECIFICATION AppFairSpec
CONSTANTS
  Calls = {c1, c2}
  Owner = Owner
  Loggers = {"pgw", "udp", "http"}
  Files = {"a", "b"}
  NoSink = NoSink
  ThreadCounts = {0, 2}
  Configs <- MCConfigs
INVARIANTS AbortCauses OneCloser JoinedAfterHandlers DestroyedInOrder OwnersOutliveUsers AppInv NoMessageSwallowed OneSinkPerFile
PROPERTIES StopRequestStops EarlyFailureReported
