SPECIFICATION ShutdownSpec
CONSTANTS
  market = market
  updates = updates
  Streams <- BothStreams
  Market = market
  ShutdownTimeout = 5
  TeardownTimeout = 6
  HardExitGrace = 10
  MaxSignals = 2
INVARIANTS ShutdownTypeOK WatchdogSparesLiveLoop EngineUnwindsFirst OneOrderAfterStop
PROPERTIES StopEndsProcess
CHECK_DEADLOCK FALSE
