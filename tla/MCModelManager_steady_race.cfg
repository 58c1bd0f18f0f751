SPECIFICATION Spec
CONSTANTS
  r1 = r1
  r2 = r2
  wd = wd
  post = post
  boot = boot
  p1 = p1
  p2 = p2
  p3 = p3
  noProc = noProc
  noTask = noTask
  Requests <- MCRequests
  Releasers <- MCReleasers
  Procs <- MCProcs
  Watchdog = wd
  Boot = boot
  NoProc = noProc
  NoTask = noTask
  Strategies = {"c3a"}
  Faults = {}
  CanShutdown = FALSE
PROPERTIES
  FreshVisionStaysUp
