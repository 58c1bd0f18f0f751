SPECIFICATION FairSpec
CONSTANTS
  c1 = c1
  c2 = c2
  c3 = c3
  p1 = p1
  p2 = p2
  p3 = p3
  p4 = p4
  noProc = noProc
  NoProc = noProc
  Calls <- MCCalls
  Procs <- MCProcs
  Max = 2
  CancelAt = {"waiting", "spawning", "killed"}
INVARIANTS
  TypeOK
  ProcessesCapped
  NoOrphan
  PermitsConserved
PROPERTIES
  ImplementsPool
  RunsReturn
