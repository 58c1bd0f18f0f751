----------------------------- MODULE CompanyCache -----------------------------
(***************************************************************************)
(* agent/memory_mcp.py: every HTTP request of the memory server is scoped  *)
(* to the company of its bearer token.  Tokens that are not configured are *)
(* looked up at Paperclip, which mints, rebinds and revokes them as it     *)
(* likes, and the answers are cached for a while.  Requests interleave at  *)
(* the lookup; a request without a token is refused and changes nothing.   *)
(***************************************************************************)
EXTENDS Integers

CONSTANTS
  Requests, Tokens, Companies,
  NoToken, NoCompany,
  Static,          \* _TOKENS, the configured tokens
  DefaultCompany,  \* the scope when no token is asked for
  TTL, Timeout,    \* _RESOLVE_TTL_S (0: no lookups), the longest a lookup takes
  Bindable,        \* the companies that Paperclip may bind a token to
  Horizon          \* the clock is followed up to here

ASSUME CacheAssumption ==
  /\ NoToken \notin Tokens /\ NoCompany \notin Companies
  /\ DefaultCompany \in Companies /\ DOMAIN Static \subseteq Tokens /\ \A t \in DOMAIN Static : Static[t] \in Companies
  /\ Bindable \in [Tokens -> SUBSET Companies] /\ \A t \in DOMAIN Static : Bindable[t] = {}
  /\ TTL \in Nat /\ Timeout \in Nat /\ Horizon \in Nat

VARIABLES
  now,        \* time.monotonic()
  bound,      \* Paperclip: the company of each token
  lastBound,  \* when a token was last bound to a company it has lost, or -1
  cached,     \* _resolve_cache: company and expiry
  request     \* each request: where it is, its token, when it began, its company

mcpVars == <<now, bound, lastBound, cached, request>>

MaybeCompany == Companies \cup {NoCompany}
NoEntry == [company |-> NoCompany, expiry |-> 0]
Rest == [at |-> "idle", token |-> NoToken, began |-> 0, company |-> NoCompany]
AuthRequired == DOMAIN Static # {} \/ TTL > 0

McpInit ==
  /\ now = 0 /\ bound = [t \in Tokens |-> NoCompany]
  /\ lastBound = [t \in Tokens |-> [c \in Companies |-> -1]]
  /\ cached = [t \in Tokens |-> NoEntry]
  /\ request = [r \in Requests |-> Rest]

-----------------------------------------------------------------------------
\* The company that is known without a lookup; NoCompany when there is none.
Known(t) ==
  CASE ~AuthRequired -> DefaultCompany
    [] AuthRequired /\ t \in DOMAIN Static -> Static[t]
    [] OTHER -> IF TTL > 0 /\ cached[t].expiry > now THEN cached[t].company ELSE NoCompany

\* ScopedAuth lets the request through, with its company in _company_var.
Admit(r, t, c) ==
  request' = [request EXCEPT ![r] = [at |-> "scoped", token |-> t, began |-> 0, company |-> c]]

\* ... or answers 401.
Refuse(r) == request' = [request EXCEPT ![r] = Rest]

\* A request whose token is configured or cached needs no await.
AdmitKnown(r, t) ==
  /\ request[r].at = "idle" /\ Known(t) # NoCompany
  /\ Admit(r, t, Known(t))
  /\ UNCHANGED <<now, bound, lastBound, cached>>

\* Slip: only the entry of the token itself is dropped.
LookupUnswept(r, t) ==
  /\ request[r].at = "idle" /\ Known(t) = NoCompany /\ TTL > 0
  /\ cached' = [cached EXCEPT ![t] = NoEntry]
  /\ request' = [request EXCEPT ![r] =
       [at |-> "asking", token |-> t, began |-> now, company |-> NoCompany]]
  /\ UNCHANGED <<now, bound, lastBound>>

\* Otherwise the expired entries are dropped and Paperclip is asked.
Lookup(r, t) ==
  /\ request[r].at = "idle" /\ Known(t) = NoCompany /\ TTL > 0
  /\ cached' = [u \in Tokens |-> IF cached[u].expiry <= now THEN NoEntry ELSE cached[u]]
  /\ request' = [request EXCEPT ![r] =
       [at |-> "asking", token |-> t, began |-> now, company |-> NoCompany]]
  /\ UNCHANGED <<now, bound, lastBound>>

\* Paperclip answers with the company of that moment, or with none.
Answer(r) ==
  /\ request[r].at = "asking"
  /\ request' = [request EXCEPT ![r].at = "answered", ![r].company = bound[request[r].token]]
  /\ UNCHANGED <<now, bound, lastBound, cached>>

\* Slip: the entry lives from when the answer is there.
ResolvedLate(r) ==
  /\ request[r].at = "answered" /\ request[r].company # NoCompany
  /\ cached' = [cached EXCEPT ![request[r].token] =
       [company |-> request[r].company, expiry |-> now + TTL]]
  /\ Admit(r, request[r].token, request[r].company) /\ UNCHANGED <<now, bound, lastBound>>

\* The answer has come, perhaps after a later one: it is cached from when it
\* was asked for.
Resolved(r) ==
  /\ request[r].at = "answered" /\ request[r].company # NoCompany
  /\ cached' = [cached EXCEPT ![request[r].token] =
       [company |-> request[r].company, expiry |-> request[r].began + TTL]]
  /\ Admit(r, request[r].token, request[r].company) /\ UNCHANGED <<now, bound, lastBound>>

\* No company, an error, a lost answer or the timeout.
Unresolved(r) ==
  /\ \/ request[r].at = "asking"
     \/ request[r].at = "answered" /\ request[r].company = NoCompany
  /\ Refuse(r) /\ UNCHANGED <<now, bound, lastBound, cached>>

\* The tool has run in the scope of its request: remember or recall.
Served(r) ==
  /\ request[r].at = "scoped" /\ Refuse(r)
  /\ UNCHANGED <<now, bound, lastBound, cached>>

-----------------------------------------------------------------------------
\* Paperclip mints, rebinds or revokes a token of its own.
Rebind(t) ==
  /\ \E c \in (Bindable[t] \cup {NoCompany}) \ {bound[t]} : bound' = [bound EXCEPT ![t] = c]
  /\ lastBound' = [lastBound EXCEPT ![t] =
       [c \in Companies |-> IF c = bound[t] THEN now ELSE lastBound[t][c]]]
  /\ UNCHANGED <<now, cached, request>>

\* Time passes; connecting, sending and reading have timeouts, so a lookup ends.
Tick ==
  /\ now < Horizon
  /\ \A r \in Requests :
       request[r].at \in {"asking", "answered"} => now < request[r].began + Timeout
  /\ now' = now + 1
  /\ UNCHANGED <<bound, lastBound, cached, request>>

McpNext ==
  \/ \E r \in Requests :
       \/ \E t \in Tokens : AdmitKnown(r, t) \/ Lookup(r, t)
       \/ Answer(r) \/ Resolved(r) \/ Unresolved(r) \/ Served(r)
  \/ \E t \in Tokens : Rebind(t)
  \/ Tick

McpSpec == McpInit /\ [][McpNext]_mcpVars

-----------------------------------------------------------------------------
(* Properties                                                              *)

\* Every variable keeps its type.
McpTypeOK ==
  /\ now \in 0..Horizon /\ bound \in [Tokens -> MaybeCompany]
  /\ lastBound \in [Tokens -> [Companies -> -1..Horizon]]
  /\ cached \in [Tokens -> [company : MaybeCompany, expiry : 0..Horizon + TTL]]
  /\ request \in [Requests ->
       [at : {"idle", "asking", "answered", "scoped"}, token : Tokens \cup {NoToken},
        began : 0..Horizon, company : MaybeCompany]]

\* The token was bound to the company at time s or later.
BoundSince(t, c, s) == bound[t] = c \/ lastBound[t][c] >= s

\* An entry is used for less than the time to live, a lookup lasts at most its timeout.
Grace == IF TTL > Timeout THEN TTL - 1 ELSE Timeout

\* "fail-closed, never default-scoped": whatever Paperclip answers, when, and in
\* whichever order, a request with a token that is not configured gets into the
\* scope of a company only if the token was bound to it no longer ago than an
\* entry lives: a revoked or rebound token is soon refused.
ScopeIsFresh ==
  [][\A r \in Requests :
       /\ AuthRequired /\ request[r].at # "scoped" /\ request'[r].at = "scoped"
       /\ request'[r].token \notin DOMAIN Static
       => /\ request'[r].company \in Companies
          /\ BoundSince(request'[r].token, request'[r].company, now - Grace)]_mcpVars

\* "bound the cache to live tokens": while a lookup is under way the cache holds
\* no entry that had expired when it began, of whichever token, but for one whose
\* answer has come since, so late that the entry was dead on arrival.
CacheSwept ==
  \A r \in Requests : request[r].at \in {"asking", "answered"} =>
    \A t \in Tokens :
      \/ cached[t] = NoEntry
      \/ cached[t].expiry > request[r].began
      \/ cached[t].expiry >= request[r].began + TTL - Timeout
=============================================================================
