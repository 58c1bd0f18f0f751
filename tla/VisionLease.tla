------------------------------ MODULE VisionLease ------------------------------
(***************************************************************************)
(* What the model-manager promises to the proxy, without engines, locks or *)
(* modes: vision is a service that is brought up on demand and leased.     *)
(* Asking renews the lease, an ask is granted only by a service that is    *)
(* up, and the service goes away only when the lease has run out.          *)
(***************************************************************************)
CONSTANT Clients

VARIABLES
  up,       \* vision can serve
  expired,  \* the lease has run out
  asking,   \* the clients waiting for vision
  open      \* the manager is in service

vars == <<up, expired, asking, open>>

Init == up = FALSE /\ expired = TRUE /\ asking = {} /\ open = TRUE

Ask(c) ==
  /\ open /\ c \notin asking
  /\ asking' = asking \cup {c}
  /\ UNCHANGED <<up, expired, open>>

Renew ==
  /\ asking # {} /\ expired' = FALSE
  /\ UNCHANGED <<up, asking, open>>

BringUp ==
  /\ asking # {} /\ up' = TRUE
  /\ UNCHANGED <<expired, asking, open>>

\* The answer comes with vision up.
Grant(c) ==
  /\ c \in asking /\ asking' = asking \ {c}
  /\ up /\ up' = up
  /\ UNCHANGED <<expired, open>>

Expire == expired' = TRUE /\ UNCHANGED <<up, asking, open>>

TakeDown ==
  /\ expired /\ up' = FALSE
  /\ UNCHANGED <<expired, asking, open>>

Close ==
  /\ asking = {} /\ open' = FALSE
  /\ UNCHANGED <<up, expired, asking>>

\* A closed manager may leave at any time.
Vanish ==
  /\ ~open /\ up' = FALSE
  /\ UNCHANGED <<expired, asking, open>>

Next ==
  \/ \E c \in Clients : Ask(c) \/ Grant(c)
  \/ Renew \/ BringUp \/ Expire \/ TakeDown \/ Close \/ Vanish

Spec == Init /\ [][Next]_vars
=============================================================================
