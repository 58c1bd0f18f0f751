\* A call whose callbacks are lost keeps its permit, so the second instance may stop.
SPECIFICATION PairSpec
CONSTANTS
  c1 = c1
  c2 = c2
  c3 = c3
  c4 = c4
  c5 = c5
  c6 = c6
  noCall = noCall
  NoCall = noCall
  Calls <- SixCalls
  Parent <- Wide
  Max = 3
  Faults = {"cancel"}
INVARIANTS
  CapHolds
  HeldExact
  NoStall
  FaultyPermits
  FaultyWakeups
PROPERTIES
  ImplementsPool
  QueuedCallsRun
CHECK_DEADLOCK FALSE
