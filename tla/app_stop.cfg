SPECIFICATION AppFairSpec
CONSTANTS
  Calls = {c1}
  Owner = Owner
  Loggers = {"pgw", "udp", "http"}
  Files = {"a", "b"}
  NoSink = NoSink
  ThreadCounts = {2}
  Configs <- MCConfigs
PROPERTY EnterStops
