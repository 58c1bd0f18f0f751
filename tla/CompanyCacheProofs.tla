-------------------------- MODULE CompanyCacheProofs --------------------------
(***************************************************************************)
(* For any requests, tokens, times to live and timeouts: the memory        *)
(* server's cache never lets a request into a company that its token has   *)
(* lost longer ago than an entry lives, and stays bounded.                 *)
(***************************************************************************)
EXTENDS CompanyCache, TLAPS

Waiting(r) == request[r].at \in {"asking", "answered"}

\* A lookup is for a token that is not configured, and is not over time.
LookupsTimely ==
  \A r \in Requests : Waiting(r) =>
    /\ request[r].token \in Tokens \ DOMAIN Static /\ TTL > 0
    /\ request[r].began <= now /\ now <= request[r].began + Timeout

\* What Paperclip has answered was so at some moment of the lookup.
AnswersWereBound ==
  \A r \in Requests : request[r].at = "answered" /\ request[r].company # NoCompany =>
    BoundSince(request[r].token, request[r].company, request[r].began)

\* An entry is no older than its expiry says.
EntryBound(t) ==
  /\ t \notin DOMAIN Static /\ cached[t].company \in Companies
  /\ cached[t].expiry - TTL <= now
  /\ BoundSince(t, cached[t].company, cached[t].expiry - TTL)

EntriesWereBound == \A t \in Tokens : cached[t] = NoEntry \/ EntryBound(t)

CacheInv ==
  /\ McpTypeOK /\ LookupsTimely /\ AnswersWereBound /\ EntriesWereBound /\ CacheSwept

\* The server starts with an empty cache and no request.
LEMMA CacheStarts == McpInit => CacheInv
  BY CacheAssumption
     DEF McpInit, CacheInv, McpTypeOK, LookupsTimely, AnswersWereBound, EntriesWereBound,
         CacheSwept, Waiting, MaybeCompany, Rest, NoEntry

\* What is known without a lookup is a company, and a configured token's own.
LEMMA KnownIs ==
  ASSUME CacheInv, NEW t \in Tokens
  PROVE  /\ Known(t) \in MaybeCompany
         /\ TTL > 0 /\ Known(t) = NoCompany => t \notin DOMAIN Static
         /\ AuthRequired /\ t \notin DOMAIN Static /\ Known(t) # NoCompany
              => TTL > 0 /\ cached[t].expiry > now /\ Known(t) = cached[t].company
                 /\ cached[t] # NoEntry
<1>1. cached[t].company \in MaybeCompany
  BY DEF CacheInv, McpTypeOK
<1>2. t \in DOMAIN Static => Static[t] \in Companies
  BY CacheAssumption
<1>3. DefaultCompany \in Companies /\ NoCompany \notin Companies
  BY CacheAssumption
<1> QED
  BY <1>1, <1>2, <1>3 DEF Known, AuthRequired, MaybeCompany, NoEntry

\* A request that is let in, refused or served leaves everything else alone.
LEMMA OneRequestMoves ==
  ASSUME CacheInv, NEW r \in Requests, NEW q,
         q \in [at : {"idle", "scoped"}, token : Tokens \cup {NoToken},
                began : 0..Horizon, company : MaybeCompany],
         request' = [request EXCEPT ![r] = q],
         UNCHANGED <<now, bound, lastBound, cached>>
  PROVE  CacheInv'
<1>1. McpTypeOK'
  BY DEF CacheInv, McpTypeOK
<1>2. \A s \in Requests : s # r => request'[s] = request[s]
  BY DEF CacheInv, McpTypeOK
<1>3. request'[r].at \notin {"asking", "answered"}
  BY DEF CacheInv, McpTypeOK
<1>4. LookupsTimely'
  BY <1>2, <1>3 DEF CacheInv, LookupsTimely, Waiting
<1>5. AnswersWereBound'
  BY <1>2, <1>3 DEF CacheInv, AnswersWereBound, BoundSince
<1>6. EntriesWereBound'
  BY DEF CacheInv, EntriesWereBound, EntryBound, BoundSince
<1>7. CacheSwept'
  BY <1>2, <1>3 DEF CacheInv, CacheSwept
<1> QED
  BY <1>1, <1>4, <1>5, <1>6, <1>7 DEF CacheInv

\* A lookup begins with a swept cache.
LEMMA LookupKeeps ==
  ASSUME CacheInv, NEW r \in Requests, NEW t \in Tokens, Lookup(r, t)
  PROVE  CacheInv'
<1> USE DEF Lookup
<1> DEFINE q == [at |-> "asking", token |-> t, began |-> now, company |-> NoCompany]
<1>1. /\ now \in 0..Horizon /\ cached \in [Tokens -> [company : MaybeCompany, expiry : 0..Horizon + TTL]]
      /\ request \in [Requests ->
            [at : {"idle", "asking", "answered", "scoped"}, token : Tokens \cup {NoToken},
             began : 0..Horizon, company : MaybeCompany]]
      /\ TTL \in Nat /\ Timeout \in Nat /\ Horizon \in Nat
  BY CacheAssumption DEF CacheInv, McpTypeOK
<1>2. NoEntry \in [company : MaybeCompany, expiry : 0..Horizon + TTL]
  BY <1>1 DEF NoEntry, MaybeCompany
<1>3. \A u \in Tokens : cached'[u] = NoEntry \/ (cached'[u] = cached[u] /\ cached[u].expiry > now)
  BY <1>1
<1>4. /\ \A s \in Requests : s # r => request'[s] = request[s]
      /\ request'[r] = q
  BY <1>1
<1>5. McpTypeOK'
  <2>1. cached' \in [Tokens -> [company : MaybeCompany, expiry : 0..Horizon + TTL]]
    BY <1>1, <1>2
  <2>2. q \in [at : {"idle", "asking", "answered", "scoped"}, token : Tokens \cup {NoToken},
               began : 0..Horizon, company : MaybeCompany]
    BY <1>1 DEF MaybeCompany
  <2> QED
    BY <1>1, <2>1, <2>2 DEF CacheInv, McpTypeOK
<1>6. LookupsTimely'
  <2>1. t \notin DOMAIN Static
    BY KnownIs
  <2> QED
    BY <1>1, <1>4, <2>1 DEF CacheInv, LookupsTimely, Waiting
<1>7. AnswersWereBound'
  BY <1>4 DEF CacheInv, AnswersWereBound, BoundSince
<1>8. EntriesWereBound'
  BY <1>3 DEF CacheInv, EntriesWereBound, EntryBound, BoundSince
<1>9. CacheSwept'
  <2>1. ASSUME NEW s \in Requests, Waiting(s)', NEW u \in Tokens, cached'[u] # NoEntry
        PROVE  cached'[u].expiry > request'[s].began
    <3>1. cached'[u] = cached[u] /\ cached[u].expiry > now
      BY <1>3, <2>1
    <3>2. request'[s].began \in 0..Horizon /\ request'[s].began <= now
      BY <1>1, <1>4, <2>1 DEF CacheInv, LookupsTimely, Waiting
    <3>3. cached[u].expiry \in Nat
      BY <1>1
    <3> QED
      BY <1>1, <3>1, <3>2, <3>3
  <2> QED
    BY <2>1 DEF CacheSwept, Waiting
<1> QED
  BY <1>5, <1>6, <1>7, <1>8, <1>9 DEF CacheInv

\* Paperclip answers what is so.
LEMMA AnswerKeeps ==
  ASSUME CacheInv, NEW r \in Requests, Answer(r)
  PROVE  CacheInv'
<1> USE DEF Answer
<1>1. /\ \A s \in Requests : s # r => request'[s] = request[s]
      /\ request'[r].at = "answered" /\ request'[r].company = bound[request[r].token]
      /\ request'[r].token = request[r].token /\ request'[r].began = request[r].began
  BY DEF CacheInv, McpTypeOK
<1>2. Waiting(r) /\ request[r].token \in Tokens /\ bound[request[r].token] \in MaybeCompany
  BY DEF CacheInv, McpTypeOK, LookupsTimely, Waiting
<1>3. McpTypeOK'
  BY <1>2 DEF CacheInv, McpTypeOK
<1>4. LookupsTimely'
  BY <1>1, <1>2 DEF CacheInv, LookupsTimely, Waiting
<1>5. AnswersWereBound'
  BY <1>1, <1>2 DEF CacheInv, AnswersWereBound, BoundSince
<1>6. EntriesWereBound'
  BY DEF CacheInv, EntriesWereBound, EntryBound, BoundSince
<1>7. CacheSwept'
  BY <1>1, <1>2 DEF CacheInv, CacheSwept, Waiting
<1> QED
  BY <1>3, <1>4, <1>5, <1>6, <1>7 DEF CacheInv

\* An answer is cached from the moment it was asked for.
LEMMA ResolvedKeeps ==
  ASSUME CacheInv, NEW r \in Requests, Resolved(r)
  PROVE  CacheInv'
<1>0. PICK t \in Tokens, c \in Companies, b \in 0..Horizon :
        t = request[r].token /\ c = request[r].company /\ b = request[r].began
  BY DEF CacheInv, McpTypeOK, LookupsTimely, Waiting, Resolved, MaybeCompany
<1> DEFINE e == [company |-> c, expiry |-> b + TTL]
<1>1. /\ Waiting(r) /\ t \notin DOMAIN Static /\ TTL > 0
      /\ b <= now /\ now <= b + Timeout
      /\ bound[t] = c \/ lastBound[t][c] >= b
  BY <1>0 DEF CacheInv, LookupsTimely, AnswersWereBound, Waiting, Resolved, BoundSince
<1>2. TTL \in Nat /\ Timeout \in Nat /\ Horizon \in Nat /\ now \in 0..Horizon
  BY CacheAssumption DEF CacheInv, McpTypeOK
<1>3. /\ \A u \in Tokens : u # t => cached'[u] = cached[u]
      /\ cached'[t] = e
      /\ UNCHANGED <<now, bound, lastBound>>
  BY <1>0 DEF Resolved, CacheInv, McpTypeOK
<1>4. /\ \A s \in Requests : s # r => request'[s] = request[s]
      /\ request'[r].at = "scoped"
  BY DEF Resolved, Admit, CacheInv, McpTypeOK
<1>5. McpTypeOK'
  <2>1. e \in [company : MaybeCompany, expiry : 0..Horizon + TTL]
    BY <1>2 DEF MaybeCompany
  <2>2. cached' \in [Tokens -> [company : MaybeCompany, expiry : 0..Horizon + TTL]]
    BY <1>0, <2>1 DEF Resolved, CacheInv, McpTypeOK
  <2>3. [at |-> "scoped", token |-> t, began |-> 0, company |-> c]
          \in [at : {"idle", "asking", "answered", "scoped"}, token : Tokens \cup {NoToken},
               began : 0..Horizon, company : MaybeCompany]
    BY <1>2 DEF MaybeCompany
  <2> QED
    BY <1>0, <2>2, <2>3 DEF Resolved, Admit, CacheInv, McpTypeOK
<1>6. LookupsTimely'
  BY <1>3, <1>4 DEF CacheInv, LookupsTimely, Waiting
<1>7. AnswersWereBound'
  BY <1>3, <1>4 DEF CacheInv, AnswersWereBound, BoundSince
<1>8. EntriesWereBound'
  <2>1. cached'[t].company = c /\ cached'[t].expiry = b + TTL
    BY <1>3
  <2>2. cached'[t].company = c /\ cached'[t].expiry - TTL = b
    BY <1>2, <2>1
  <2>3. ASSUME NEW u \in Tokens, u = t PROVE EntryBound(u)'
    <3> DEFINE x == cached'[u].expiry - TTL
    <3>1. x = b /\ cached'[u].company = c
      BY <2>3, <2>2
    <3> HIDE DEF x
    <3>2. /\ u \notin DOMAIN Static /\ cached'[u].company \in Companies /\ x <= now
          /\ bound[u] = cached'[u].company \/ lastBound[u][cached'[u].company] >= x
      BY <1>1, <2>3, <3>1
    <3> QED
      BY <1>3, <3>2 DEF EntryBound, BoundSince, x
  <2>4. ASSUME NEW u \in Tokens, u # t PROVE (cached[u] = NoEntry \/ EntryBound(u))'
    BY <1>3, <2>4 DEF CacheInv, EntriesWereBound, EntryBound, BoundSince
  <2> QED
    BY <2>3, <2>4 DEF EntriesWereBound
<1>9. CacheSwept'
  <2>1. ASSUME NEW s \in Requests, Waiting(s)', NEW u \in Tokens, cached'[u] # NoEntry
        PROVE  \/ cached'[u].expiry > request'[s].began
               \/ cached'[u].expiry >= request'[s].began + TTL - Timeout
    <3>1. Waiting(s) /\ request'[s] = request[s]
      BY <1>4, <2>1 DEF Waiting
    <3>2. CASE u # t
      BY <1>3, <2>1, <3>1, <3>2 DEF CacheInv, CacheSwept, Waiting
    <3>3. CASE u = t
      <4>1. request[s].began <= now /\ request[s].began \in 0..Horizon
        BY <3>1 DEF CacheInv, McpTypeOK, LookupsTimely
      <4>2. cached'[u].expiry = b + TTL
        BY <1>3, <3>3
      <4> QED
        BY <1>1, <1>2, <3>1, <4>1, <4>2
    <3> QED
      BY <3>2, <3>3
  <2> QED
    BY <2>1 DEF CacheSwept, Waiting
<1> QED
  BY <1>5, <1>6, <1>7, <1>8, <1>9 DEF CacheInv

\* A token that moves on was bound to its old company just now.
LEMMA RebindKeeps ==
  ASSUME CacheInv, NEW t \in Tokens, Rebind(t)
  PROVE  CacheInv'
<1> USE DEF Rebind
<1>1. now \in 0..Horizon /\ Horizon \in Nat /\ TTL \in Nat /\ NoCompany \notin Companies
  BY CacheAssumption DEF CacheInv, McpTypeOK
<1>2. /\ lastBound \in [Tokens -> [Companies -> -1..Horizon]] /\ bound \in [Tokens -> MaybeCompany]
      /\ cached \in [Tokens -> [company : MaybeCompany, expiry : 0..Horizon + TTL]]
  BY DEF CacheInv, McpTypeOK
<1>3. PICK d \in MaybeCompany : bound' = [bound EXCEPT ![t] = d]
  <2>1. Bindable[t] \subseteq Companies
    BY CacheAssumption
  <2> QED
    BY <2>1 DEF MaybeCompany
<1>4. McpTypeOK'
  <2>1. [c \in Companies |-> IF c = bound[t] THEN now ELSE lastBound[t][c]] \in [Companies -> -1..Horizon]
    BY <1>1, <1>2
  <2>2. lastBound' \in [Tokens -> [Companies -> -1..Horizon]]
    BY <1>2, <2>1
  <2>3. bound' \in [Tokens -> MaybeCompany]
    BY <1>2, <1>3
  <2> QED
    BY <2>2, <2>3 DEF CacheInv, McpTypeOK
<1>5. ASSUME NEW u \in Tokens, NEW c \in Companies, NEW s \in Int, s <= now, BoundSince(u, c, s)
      PROVE  bound'[u] = c \/ lastBound'[u][c] >= s
  <2>1. CASE u = t
    <3>1. lastBound'[u][c] = IF c = bound[t] THEN now ELSE lastBound[t][c]
      BY <1>2, <2>1
    <3> QED
      BY <1>1, <1>2, <1>5, <2>1, <3>1 DEF BoundSince
  <2>2. CASE u # t
    BY <1>2, <1>3, <1>5, <2>2 DEF BoundSince
  <2> QED
    BY <2>1, <2>2
<1>6. LookupsTimely'
  BY DEF CacheInv, LookupsTimely, Waiting
<1>7. AnswersWereBound'
  <2>1. ASSUME NEW r \in Requests, request[r].at = "answered", request[r].company # NoCompany
        PROVE  bound'[request[r].token] = request[r].company
                 \/ lastBound'[request[r].token][request[r].company] >= request[r].began
    <3>1. /\ request[r].token \in Tokens /\ request[r].began <= now
          /\ request[r].company \in Companies /\ request[r].began \in Int
      BY <2>1 DEF CacheInv, McpTypeOK, LookupsTimely, Waiting, MaybeCompany
    <3>2. BoundSince(request[r].token, request[r].company, request[r].began)
      BY <2>1 DEF CacheInv, AnswersWereBound
    <3> QED
      BY <1>5, <3>1, <3>2
  <2> QED
    BY <2>1 DEF AnswersWereBound, BoundSince
<1>8. EntriesWereBound'
  <2>1. ASSUME NEW u \in Tokens, EntryBound(u)
        PROVE  bound'[u] = cached[u].company \/ lastBound'[u][cached[u].company] >= cached[u].expiry - TTL
    <3>1. cached[u].expiry - TTL \in Int
      BY <1>1, <1>2
    <3> QED
      BY <1>5, <2>1, <3>1 DEF EntryBound
  <2> QED
    BY <2>1 DEF CacheInv, EntriesWereBound, EntryBound, BoundSince
<1>9. CacheSwept'
  BY DEF CacheInv, CacheSwept
<1> QED
  BY <1>4, <1>6, <1>7, <1>8, <1>9 DEF CacheInv

\* A lookup that is waited for has not timed out.
LEMMA TickKeeps ==
  ASSUME CacheInv, Tick
  PROVE  CacheInv'
<1> USE DEF Tick
<1>1. now \in 0..Horizon /\ Horizon \in Nat /\ TTL \in Nat /\ Timeout \in Nat
  BY CacheAssumption DEF CacheInv, McpTypeOK
<1>2. McpTypeOK'
  BY <1>1 DEF CacheInv, McpTypeOK
<1>3. LookupsTimely'
  <2>1. \A r \in Requests : request[r].began \in 0..Horizon
    BY DEF CacheInv, McpTypeOK
  <2> QED
    BY <1>1, <2>1 DEF CacheInv, LookupsTimely, Waiting
<1>4. AnswersWereBound'
  BY DEF CacheInv, AnswersWereBound, BoundSince
<1>5. EntriesWereBound'
  <2>1. \A t \in Tokens : cached[t].expiry - TTL \in Int
    BY <1>1 DEF CacheInv, McpTypeOK
  <2> QED
    BY <1>1, <2>1 DEF CacheInv, EntriesWereBound, EntryBound, BoundSince
<1>6. CacheSwept'
  BY DEF CacheInv, CacheSwept
<1> QED
  BY <1>2, <1>3, <1>4, <1>5, <1>6 DEF CacheInv

\* Every step keeps the invariant.
LEMMA CacheStep == CacheInv /\ [McpNext]_mcpVars => CacheInv'
<1> SUFFICES ASSUME CacheInv, [McpNext]_mcpVars PROVE CacheInv'
  OBVIOUS
<1>0. Horizon \in Nat
  BY CacheAssumption
<1>1. ASSUME NEW r \in Requests, NEW t \in Tokens, AdmitKnown(r, t) PROVE CacheInv'
  <2>1. [at |-> "scoped", token |-> t, began |-> 0, company |-> Known(t)]
          \in [at : {"idle", "scoped"}, token : Tokens \cup {NoToken},
               began : 0..Horizon, company : MaybeCompany]
    BY <1>0, KnownIs
  <2> QED
    BY <1>1, <2>1, OneRequestMoves DEF AdmitKnown, Admit
<1>2. ASSUME NEW r \in Requests, Unresolved(r) \/ Served(r) PROVE CacheInv'
  <2>1. Rest \in [at : {"idle", "scoped"}, token : Tokens \cup {NoToken},
                  began : 0..Horizon, company : MaybeCompany]
    BY <1>0 DEF Rest, MaybeCompany
  <2> QED
    BY <1>2, <2>1, OneRequestMoves DEF Unresolved, Served, Refuse
<1>3. CASE UNCHANGED mcpVars
  BY <1>3 DEF mcpVars, CacheInv, McpTypeOK, LookupsTimely, AnswersWereBound, EntriesWereBound,
              EntryBound, BoundSince, CacheSwept, Waiting
<1> QED
  BY <1>1, <1>2, <1>3, LookupKeeps, AnswerKeeps, ResolvedKeeps, RebindKeeps, TickKeeps
     DEF McpNext

\* The invariant holds throughout.
LEMMA CacheInvariant == McpSpec => []CacheInv
  BY CacheStarts, CacheStep, PTL DEF McpSpec

\* Every variable of the memory server's resolution of tokens keeps its type.
THEOREM McpTypeCorrect == McpSpec => []McpTypeOK
<1>1. CacheInv => McpTypeOK
  BY DEF CacheInv
<1> QED
  BY <1>1, CacheInvariant, PTL

\* The cache stays bounded to live tokens, however many are minted and rotated:
\* what has expired when a lookup begins is gone.
THEOREM CacheIsSwept == McpSpec => []CacheSwept
<1>1. CacheInv => CacheSwept
  BY DEF CacheInv
<1> QED
  BY <1>1, CacheInvariant, PTL

\* A step lets a request into a company only if its token has just been bound
\* to it, within the life of an entry or the timeout of a lookup.
LEMMA AdmissionIsFresh ==
  ASSUME CacheInv, McpNext, NEW r \in Requests,
         AuthRequired, request[r].at # "scoped", request'[r].at = "scoped",
         request'[r].token \notin DOMAIN Static
  PROVE  /\ request'[r].company \in Companies
         /\ BoundSince(request'[r].token, request'[r].company, now - Grace)
<1>1. /\ TTL \in Nat /\ Timeout \in Nat /\ now \in Nat
      /\ Grace \in Nat /\ TTL <= Grace + 1 /\ Timeout <= Grace
  BY CacheAssumption DEF CacheInv, McpTypeOK, Grace
<1>2. request \in [Requests ->
         [at : {"idle", "asking", "answered", "scoped"}, token : Tokens \cup {NoToken},
          began : 0..Horizon, company : MaybeCompany]]
  BY DEF CacheInv, McpTypeOK
<1>3. (\E t \in Tokens : AdmitKnown(r, t)) \/ Resolved(r)
  <2>1. ASSUME NEW s \in Requests, NEW t \in Tokens, AdmitKnown(s, t) \/ Resolved(s), s # r
        PROVE  FALSE
    BY <1>2, <2>1 DEF AdmitKnown, Resolved, Admit
  <2>2. ASSUME NEW s \in Requests, NEW t \in Tokens, Lookup(s, t) PROVE FALSE
    BY <1>2, <2>2 DEF Lookup
  <2>3. ASSUME NEW s \in Requests, Answer(s) \/ Unresolved(s) \/ Served(s) PROVE FALSE
    BY <1>2, <2>3 DEF Answer, Unresolved, Served, Refuse, Rest
  <2>4. ASSUME NEW s \in Requests, Resolved(s), s # r PROVE FALSE
    BY <1>2, <2>4 DEF Resolved, Admit
  <2>5. ASSUME Tick \/ \E t \in Tokens : Rebind(t) PROVE FALSE
    BY <2>5 DEF Tick, Rebind
  <2> QED
    BY <2>1, <2>2, <2>3, <2>4, <2>5 DEF McpNext
<1>4. ASSUME NEW t \in Tokens, AdmitKnown(r, t) PROVE
         /\ request'[r].company \in Companies
         /\ BoundSince(request'[r].token, request'[r].company, now - Grace)
  <2>1. request'[r].token = t /\ request'[r].company = Known(t) /\ Known(t) # NoCompany
    BY <1>2, <1>4 DEF AdmitKnown, Admit
  <2>2. TTL > 0 /\ cached[t].expiry > now /\ Known(t) = cached[t].company /\ cached[t] # NoEntry
    BY <2>1, KnownIs
  <2>3. EntryBound(t)
    BY <2>2 DEF CacheInv, EntriesWereBound
  <2>4. cached[t].expiry \in Int /\ \A c \in Companies : lastBound[t][c] \in Int
    BY DEF CacheInv, McpTypeOK
  <2> QED
    BY <1>1, <2>1, <2>2, <2>3, <2>4 DEF EntryBound, BoundSince
<1>5. CASE Resolved(r)
  <2>1. request'[r].token = request[r].token /\ request'[r].company = request[r].company
    BY <1>2, <1>5 DEF Resolved, Admit
  <2>2. /\ request[r].token \in Tokens /\ now <= request[r].began + Timeout
        /\ request[r].company \in Companies /\ request[r].began \in Int
        /\ BoundSince(request[r].token, request[r].company, request[r].began)
    BY <1>5 DEF Resolved, CacheInv, McpTypeOK, LookupsTimely, AnswersWereBound, Waiting, MaybeCompany
  <2>3. lastBound[request[r].token][request[r].company] \in Int
    BY <2>2 DEF CacheInv, McpTypeOK
  <2> QED
    BY <1>1, <2>1, <2>2, <2>3 DEF BoundSince
<1> QED
  BY <1>3, <1>4, <1>5

\* A revoked or rebound token is refused as soon as its entry has expired,
\* whatever Paperclip answers, when, and in whichever order.
THEOREM ScopeStaysFresh == McpSpec => ScopeIsFresh
<1>1. CacheInv /\ [McpNext]_mcpVars =>
        [\A r \in Requests :
           /\ AuthRequired /\ request[r].at # "scoped" /\ request'[r].at = "scoped"
           /\ request'[r].token \notin DOMAIN Static
           => /\ request'[r].company \in Companies
              /\ BoundSince(request'[r].token, request'[r].company, now - Grace)]_mcpVars
  BY AdmissionIsFresh
<1> QED
  BY <1>1, CacheInvariant, PTL DEF McpSpec, ScopeIsFresh
=============================================================================
