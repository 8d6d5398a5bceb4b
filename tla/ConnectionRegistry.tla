-------------------------- MODULE ConnectionRegistry --------------------------
(***************************************************************************)
(* What the connection manager promises: a service has at most one         *)
(* connection; a connection is attached at most once, to one service, and  *)
(* once it is dropped it stays dropped; while a service is being connected *)
(* it has no connection and nothing else changes.                          *)
(***************************************************************************)
CONSTANTS Services, Clients, None

VARIABLES
    live,   \* the connection of each service
    spent,  \* the connections that were attached, or given up before that
    busy    \* the service that is being connected

registryVars == <<live, spent, busy>>

RegistryTypeOK ==
    /\ live \in [Services -> Clients \cup {None}]
    /\ spent \subseteq Clients
    /\ busy \in Services \cup {None}

RegistryInit ==
    /\ live = [s \in Services |-> None]
    /\ spent = {}
    /\ busy = None

StartConnect(s) ==
    /\ busy = None
    /\ busy' = s
    /\ live' = [live EXCEPT ![s] = None]
    /\ UNCHANGED spent

Attach(s, c) ==
    /\ busy = s /\ c \notin spent
    /\ busy' = None
    /\ live' = [live EXCEPT ![s] = c]
    /\ spent' = spent \cup {c}

GiveUp(s, c) ==
    /\ busy = s /\ c \notin spent
    /\ busy' = None
    /\ spent' = spent \cup {c}
    /\ UNCHANGED live

Drop(s) ==
    /\ busy = None /\ live[s] # None
    /\ live' = [live EXCEPT ![s] = None]
    /\ UNCHANGED <<spent, busy>>

RegistryNext ==
    \E s \in Services :
        \/ StartConnect(s) \/ Drop(s)
        \/ \E c \in Clients : Attach(s, c) \/ GiveUp(s, c)

RegistrySpec == RegistryInit /\ [][RegistryNext]_registryVars

\* Every attempt to connect comes to an end.
RegistryFairSpec ==
    /\ RegistrySpec
    /\ WF_registryVars(\E s \in Services, c \in Clients : Attach(s, c) \/ GiveUp(s, c))
=============================================================================
