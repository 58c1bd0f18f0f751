SPECIFICATION ClientsSpec
CONSTANTS
  q1 = q1
  q2 = q2
  own = own
  minted = minted
  rotated = rotated
  acme = acme
  global = global
  NoToken = NoToken
  NoCompany = NoCompany
  Requests = {q1, q2}
  Tokens = {own, minted}
  Companies = {acme, global}
  Static <- MCStatic
  Bindable <- MCBindable
  DefaultCompany = global
  TTL = 2
  Timeout = 1
  Horizon = 3
  scan = scan
  news = news
  ideas = ideas
  old = old
  f1 = f1
  f2 = f2
  f3 = f3
  NoBeat = NoBeat
  Beats = {scan, news, old}
  Kind <- MCKind
  Weight <- MCWeight
  MinInterval <- MCMinInterval
  BeatFiles <- MCBeatFiles
  Findings = {f1, f2, f3}
  Level <- MCLevel
  MaxFindings = 2
  Resembles <- MCResembles
  WebOn = TRUE
  DraftsOn = TRUE
  AgentAuth = TRUE
  FaultSets = {{"lost"}}
  Uptime = 0
  AgeCap = 0
  MaxTurns = 3
  MaxBoard = 2
INVARIANT NeverDuplicates
