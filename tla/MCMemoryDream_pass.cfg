SPECIFICATION FairSpec
CONSTANTS
  a1 = a1
  a2 = a2
  a3 = a3
  r = r
  b = b
  acme = acme
  other = other
  topic = topic
  NoTopic = noTopic
  NoMemory = noMemory
  Global = other
  Memories <- All
  Existing <- First
  Company <- Owner
  Topic <- Community
  Ts <- Created
  Importance <- Unranked
  Twins <- Chain
  Close <- Likeness
  User = {a2}
  Statable = {a1, a3}
  Sayable = {r}
  MaxTouch <- Touches
  DedupMax = 3
  MinMembers = 2
  MaxInsights = 1
  MaxForget = 1
  FailAt = {"merge", "insights"}
  MayKill = TRUE
  Unembedded = {a2}
  EmbedderUp = {TRUE}
INVARIANTS
  TypeOK
  DuplicatesKept
  TwinsMerged
  EdgesWithinCompany
  EvidenceEpisodic
PROPERTIES
  PassEnds
