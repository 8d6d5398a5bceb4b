------------------------ MODULE ConnectionManagerProofs ------------------------
(***************************************************************************)
(* The safety of ConnectionManager for any number of services, clients and *)
(* users, and that it implements ConnectionRegistry: which transports an   *)
(* attempt to connect has open at each of its steps, who owns a client,    *)
(* and what a user knows of the client it has got.                         *)
(***************************************************************************)
EXTENDS ConnectionManager, FiniteSetTheorems, TLAPS

USE ManagerConstants

-----------------------------------------------------------------------------
(* The inductive invariant.                                                *)

\* Only the active transport of a client may be open.
OnlyActive(c) == \A x \in Paths : link[c][x] = "open" => active[c] = x

\* What the Connect under way has made so far, by its step.
Made(c) ==
    /\ step = "build" => active[c] = None /\ \A x \in Paths : link[c][x] = "none"
    /\ step \in {"start", "initialize", "fallback"} =>
           active[c] = "primary" /\ link[c]["fallback"] = "none"
    /\ step \in {"startFallback", "initializeFallback", "detach"} => active[c] = "primary"
    /\ step \in {"closePrimary", "attach"} => active[c] = None
    /\ step = "attach" => link[c]["primary"] = "closed"
    /\ step \in {"settle", "validate"} => active[c] # None /\ OnlyActive(c)
    /\ step = "abort" => OnlyActive(c)

\* It has a client of its own, which nobody else knows.
AttemptFits ==
    /\ step = "idle" <=> fresh = None
    /\ step = "idle" <=> target = None
    /\ step # "idle" => /\ conf[fresh] # None /\ fresh \notin once
                        /\ items[target] = None /\ ~Connected(fresh)
                        /\ \A u \in Users : subject[u] # fresh
                        /\ Made(fresh)

\* A client serves one service; one that was never made has nothing; one that
\* serves has a transport; one that was closed has none open.
ClientsFit ==
    /\ \A s, t \in Services : items[s] = items[t] /\ items[s] # None => s = t
    /\ \A c \in Clients :
        /\ conf[c] = None => /\ active[c] = None /\ c \notin once /\ ~Connected(c)
                             /\ \A x \in Paths : link[c][x] = "none"
        /\ Connected(c) => active[c] # None
        /\ c \in once => \A x \in Paths : link[c][x] # "open"
    /\ session \subseteq Clients \X {"primary"}

\* A client that shows ERROR from its handshake on has lost what it uses now.
CausesFit ==
    step = "validate" /\ status[fresh] = "ERROR" =>
        <<fresh, active[fresh]>> \in lost \/ fresh \in expired

\* What a user knows of the client it has got.
UsersFit ==
    \A u \in Users :
        /\ pc[u] \in {"begin", "run", "end", "mark", "read", "remove", "apply"} =>
               subject[u] # None
        /\ pc[u] = "idle" => subject[u] = None
        /\ pc[u] # "idle" => service[u] # None
        /\ pc[u] \in {"begin", "end"} => kind[u] \in Interactions
        /\ pc[u] = "read" => fault[u] # "session"
        /\ pc[u] = "remove" => fault[u] = "session" /\ subject[u] \in expired
        /\ pc[u] = "returned" /\ fault[u] = "session" => subject[u] # None
        /\ subject[u] # None => /\ conf[subject[u]] # None /\ service[u] # None
                                /\ \A s \in Services : items[s] = subject[u] => s = service[u]

IInv == /\ TypeOK /\ AttemptFits /\ ClientsFit /\ CausesFit /\ UsersFit
        /\ TransportsAreOwned /\ ErrorHasCause
        /\ InFlightCounts /\ ExpiredIsRemoved

-----------------------------------------------------------------------------
(* What a request finds.                                                   *)

\* Users ask for a service before their first request, and a check once more.
Asked(u, s, k) == pc[u] \in {"idle", "returned"} /\ Get(u, s, k)

\* Calls and checks are requests for a service.
LEMMA Requests ==
    ASSUME TypeOK, UsersFit, NEW u \in Users
    PROVE  (\E s \in Services : Call(u, s) \/ Ping(u, s)) \/ ListInstead(u)
               => \E s \in Services, k \in {"call", "ping", "list"} : Asked(u, s, k)
<1>1. pc[u] = "returned" => service[u] \in Services BY DEF UsersFit, TypeOK
<1>. QED BY <1>1 DEF Call, Ping, ListInstead, Asked

-----------------------------------------------------------------------------
(* What closing a client does.                                             *)

\* Close leaves the client with no open transport and the other clients as they were.
LEMMA CloseShuts ==
    ASSUME TypeOK, ClientsFit, NEW c \in Clients, OnlyActive(c)
    PROVE  /\ AfterClose(c) \in [Clients -> [Paths -> {"none", "open", "closed"}]]
           /\ \A d \in Clients \ {c}, x \in Paths : AfterClose(c)[d][x] = link[d][x]
           /\ \A x \in Paths : AfterClose(c)[c][x] # "open"
<1>. USE DEF TypeOK
<1>1. CASE c \in once
  BY <1>1 DEF ClientsFit, AfterClose
<1>2. CASE c \notin once /\ active[c] = None
  BY <1>2 DEF AfterClose, OnlyActive, Paths
<1>3. CASE c \notin once /\ active[c] # None
  <2>1. AfterClose(c) = [link EXCEPT ![c][active[c]] = "closed"] /\ active[c] \in Paths
    BY <1>3 DEF AfterClose, Shut
  <2>. QED BY <2>1 DEF OnlyActive
<1>. QED BY <1>1, <1>2, <1>3

\* A client that serves has only its active transport open.
LEMMA ServingFits ==
    ASSUME TypeOK, AttemptFits, TransportsAreOwned, NEW c \in Clients, Connected(c)
    PROVE  c # fresh /\ OnlyActive(c)
<1>1. c # fresh BY DEF AttemptFits, TypeOK
<1>. QED BY <1>1 DEF TransportsAreOwned, OnlyActive

\* A transport that is opened or closed keeps the types of the links.
LEMMA LinkTyped ==
    ASSUME TypeOK, NEW c \in Clients, NEW x \in Paths, NEW v \in {"none", "open", "closed"}
    PROVE  [link EXCEPT ![c][x] = v] \in [Clients -> [Paths -> {"none", "open", "closed"}]]
<1>1. link[c] \in [Paths -> {"none", "open", "closed"}]
  BY DEF TypeOK
<1>2. [link[c] EXCEPT ![x] = v] \in [Paths -> {"none", "open", "closed"}]
  BY <1>1
<1>. QED BY <1>2 DEF TypeOK

\* Every step keeps the types.
LEMMA TypeStep ==
    TypeOK /\ AttemptFits /\ ClientsFit /\ UsersFit /\ TransportsAreOwned /\
    [Next]_vars
        => TypeOK'
<1>. SUFFICES ASSUME TypeOK, AttemptFits, ClientsFit, UsersFit,
            TransportsAreOwned, [Next]_vars PROVE TypeOK'
  OBVIOUS
<1>. USE DEF registry, attempt, runtime, history, userVars, request,
            Unpublished, Unlock, LockFree
<1>1. ASSUME NEW s \in Services, NEW c \in Clients,
             NEW f \in Configs, NEW n \in RowFailures, BeginConnect(s, c, f, n)
      PROVE  TypeOK'
  <2>. USE DEF TypeOK, Statuses, Paths, Faults
  <2>1. /\ step = "idle" /\ conf[c] = None
        /\ items' = [items EXCEPT ![s] = None]
        /\ step' = "build"
        /\ target' = s
        /\ fresh' = c
        /\ conf' = [conf EXCEPT ![c] = f]
        /\ link' = IF items[s] = None THEN link ELSE AfterClose(items[s])
        /\ once' = IF items[s] = None THEN once ELSE once \cup {items[s]}
        /\ failures' = [failures EXCEPT ![c] = n]
        /\ UNCHANGED <<active, session, status, inFlight, lost, expired, pc,
                       service, subject, kind, fault, reply>>
    BY <1>1 DEF BeginConnect
  <2>2. items[s] # None => items[s] \in Clients /\ Connected(items[s])
    BY DEF Connected
  <2>3. items[s] # None =>
          AfterClose(items[s]) \in [Clients -> [Paths -> {"none", "open", "closed"}]]
    BY <2>2, ServingFits, CloseShuts
  <2>. QED BY <2>1, <2>2, <2>3
<1>2. CASE Build
  <2>. USE DEF TypeOK, Statuses, Paths, Faults
  <2>1. /\ step = "build"
        /\ \/ /\ link' = [link EXCEPT ![fresh]["primary"] = "open"]
              /\ active' = [active EXCEPT ![fresh] = "primary"]
              /\ step' = "start"
              /\ UNCHANGED <<target, fresh>>
           \/ /\ step' = "idle"
              /\ target' = None
              /\ fresh' = None
              /\ UNCHANGED <<link, active>>
        /\ UNCHANGED <<items, conf, session, once, status, failures,
                       inFlight, lost, expired, pc, service, subject, kind,
                       fault, reply>>
    BY <1>2 DEF Build
  <2>2. fresh \in Clients
    BY <2>1 DEF AttemptFits
  <2>3. /\ link' \in [Clients -> [Paths -> {"none", "open", "closed"}]]
        /\ active' \in [Clients -> Paths \cup {None}]
    <3>1. CASE UNCHANGED <<link, active>> BY <3>1
    <3>2. CASE /\ link' = [link EXCEPT ![fresh]["primary"] = "open"]
               /\ active' = [active EXCEPT ![fresh] = "primary"]
      BY <2>2, <3>2, LinkTyped
    <3>. QED BY <2>1, <3>1, <3>2
  <2>4. /\ step' \in {"start", "idle"} /\ target' \in {target, None}
        /\ fresh' \in {fresh, None}
    BY <2>1
  <2>. QED BY <2>1, <2>3, <2>4
<1>3. CASE Start
  <2>. USE DEF TypeOK, Statuses, Paths, Faults
  <2>1. /\ step = "start"
        /\ step' \in {"initialize", "abort"}
        /\ UNCHANGED <<items, target, fresh, conf, active, link, session,
                       once, status, failures, inFlight, lost, expired, pc,
                       service, subject, kind, fault, reply>>
    BY <1>3 DEF Start
  <2>. QED BY <2>1
<1>4. CASE Initialize
  <2>. USE DEF TypeOK, Statuses, Paths, Faults
  <2>1. /\ step = "initialize"
        /\ \/ /\ step' = "settle"
              /\ UNCHANGED session
           \/ /\ MayHaveSession(conf[fresh], "primary")
              /\ session' = session \cup {<<fresh, "primary">>}
              /\ step' = "settle"
           \/ /\ step' \in {"fallback", "abort"}
              /\ UNCHANGED session
        /\ UNCHANGED <<items, target, fresh, conf, active, link, once,
                       status, failures, inFlight, lost, expired, pc,
                       service, subject, kind, fault, reply>>
    BY <1>4 DEF Initialize
  <2>2. fresh \in Clients
    BY <2>1 DEF AttemptFits
  <2>. QED BY <2>1, <2>2
<1>5. CASE BuildFallback
  <2>. USE DEF TypeOK, Statuses, Paths, Faults
  <2>1. /\ step = "fallback"
        /\ \/ /\ link' = [link EXCEPT ![fresh]["fallback"] = "open"]
              /\ step' = "startFallback"
           \/ /\ step' = "abort"
              /\ UNCHANGED link
        /\ UNCHANGED <<items, target, fresh, conf, active, session, once,
                       status, failures, inFlight, lost, expired, pc,
                       service, subject, kind, fault, reply>>
    BY <1>5 DEF BuildFallback
  <2>2. fresh \in Clients
    BY <2>1 DEF AttemptFits
  <2>3. link' \in [Clients -> [Paths -> {"none", "open", "closed"}]]
    <3>1. link \in [Clients -> [Paths -> {"none", "open", "closed"}]]
      OBVIOUS
    <3>2. \A v \in {"none", "open", "closed"} :
             [link EXCEPT ![fresh]["fallback"] = v]
                 \in [Clients -> [Paths -> {"none", "open", "closed"}]]
      BY <2>2, LinkTyped
    <3>. HIDE DEF TypeOK
    <3>. QED BY <2>1, <3>1, <3>2
  <2>. QED BY <2>1, <2>2, <2>3
<1>6. CASE StartFallback
  <2>. USE DEF TypeOK, Statuses, Paths, Faults
  <2>1. /\ step = "startFallback"
        /\ \/ /\ step' = "initializeFallback"
              /\ UNCHANGED link
           \/ /\ link' = [link EXCEPT ![fresh]["fallback"] = "closed"]
              /\ step' = "abort"
        /\ UNCHANGED <<items, target, fresh, conf, active, session, once,
                       status, failures, inFlight, lost, expired, pc,
                       service, subject, kind, fault, reply>>
    BY <1>6 DEF StartFallback, GivenUp, Shut
  <2>2. fresh \in Clients
    BY <2>1 DEF AttemptFits
  <2>3. link' \in [Clients -> [Paths -> {"none", "open", "closed"}]]
    <3>1. link \in [Clients -> [Paths -> {"none", "open", "closed"}]]
      OBVIOUS
    <3>2. \A v \in {"none", "open", "closed"} :
             [link EXCEPT ![fresh]["fallback"] = v]
                 \in [Clients -> [Paths -> {"none", "open", "closed"}]]
      BY <2>2, LinkTyped
    <3>. HIDE DEF TypeOK
    <3>. QED BY <2>1, <3>1, <3>2
  <2>. QED BY <2>1, <2>2, <2>3
<1>7. CASE InitializeFallback
  <2>. USE DEF TypeOK, Statuses, Paths, Faults
  <2>1. /\ step = "initializeFallback"
        /\ \/ /\ step' = "detach"
              /\ UNCHANGED link
           \/ /\ link' = [link EXCEPT ![fresh]["fallback"] = "closed"]
              /\ step' = "abort"
        /\ UNCHANGED <<items, target, fresh, conf, active, session, once,
                       status, failures, inFlight, lost, expired, pc,
                       service, subject, kind, fault, reply>>
    BY <1>7 DEF InitializeFallback, GivenUp, Shut, AfterFallback
  <2>2. fresh \in Clients
    BY <2>1 DEF AttemptFits
  <2>3. link' \in [Clients -> [Paths -> {"none", "open", "closed"}]]
    <3>1. link \in [Clients -> [Paths -> {"none", "open", "closed"}]]
      OBVIOUS
    <3>2. \A v \in {"none", "open", "closed"} :
             [link EXCEPT ![fresh]["fallback"] = v]
                 \in [Clients -> [Paths -> {"none", "open", "closed"}]]
      BY <2>2, LinkTyped
    <3>. HIDE DEF TypeOK
    <3>. QED BY <2>1, <3>1, <3>2
  <2>. QED BY <2>1, <2>2, <2>3
<1>8. CASE Detach
  <2>. USE DEF TypeOK, Statuses, Paths, Faults
  <2>1. /\ step = "detach"
        /\ step' = "closePrimary"
        /\ active' = [active EXCEPT ![fresh] = None]
        /\ UNCHANGED <<items, target, fresh, conf, link, session, once,
                       status, failures, inFlight, lost, expired, pc,
                       service, subject, kind, fault, reply>>
    BY <1>8 DEF Detach
  <2>2. fresh \in Clients
    BY <2>1 DEF AttemptFits
  <2>. QED BY <2>1, <2>2
<1>9. CASE ClosePrimary
  <2>. USE DEF TypeOK, Statuses, Paths, Faults
  <2>1. /\ step = "closePrimary"
        /\ \/ /\ link' = [link EXCEPT ![fresh]["primary"] = "closed"]
              /\ step' = "attach"
              /\ UNCHANGED active
           \/ /\ link' = [link EXCEPT ![fresh] = [x \in Paths |-> "closed"]]
              /\ active' = [active EXCEPT ![fresh] = "primary"]
              /\ step' = "abort"
        /\ UNCHANGED <<items, target, fresh, conf, session, once, status,
                       failures, inFlight, lost, expired, pc, service,
                       subject, kind, fault, reply>>
    BY <1>9 DEF ClosePrimary, Shut
  <2>2. fresh \in Clients
    BY <2>1 DEF AttemptFits
  <2>3. link' \in [Clients -> [Paths -> {"none", "open", "closed"}]]
    <3>1. [x \in Paths |-> "closed"] \in [Paths -> {"none", "open", "closed"}]
      OBVIOUS
    <3>2. CASE link' = [link EXCEPT ![fresh]["primary"] = "closed"]
      BY <2>2, <3>2
    <3>3. CASE link' = [link EXCEPT ![fresh] = [x \in Paths |-> "closed"]]
      BY <2>2, <3>1, <3>3
    <3>. QED BY <2>1, <3>2, <3>3
  <2>4. active' \in [Clients -> Paths \cup {None}]
    BY <2>1, <2>2
  <2>. QED BY <2>1, <2>3, <2>4
<1>10. CASE AttachFallback
  <2>. USE DEF TypeOK, Statuses, Paths, Faults
  <2>1. /\ step = "attach"
        /\ step' = "settle"
        /\ active' = [active EXCEPT ![fresh] = "fallback"]
        /\ UNCHANGED <<items, target, fresh, conf, link, session, once,
                       status, failures, inFlight, lost, expired, pc,
                       service, subject, kind, fault, reply>>
    BY <1>10 DEF AttachFallback
  <2>2. fresh \in Clients
    BY <2>1 DEF AttemptFits
  <2>. QED BY <2>1, <2>2
<1>11. CASE Settle
  <2>. USE DEF TypeOK, Statuses, Paths, Faults
  <2>1. /\ step = "settle"
        /\ step' = "validate"
        /\ status' = [status EXCEPT ![fresh] = "CONNECTED"]
        /\ UNCHANGED <<items, target, fresh, conf, active, link, session,
                       once, failures, inFlight, lost, expired, pc, service,
                       subject, kind, fault, reply>>
    BY <1>11 DEF Settle
  <2>2. fresh \in Clients
    BY <2>1 DEF AttemptFits
  <2>. QED BY <2>1, <2>2
<1>12. CASE Install
  <2>. USE DEF TypeOK, Statuses, Paths, Faults
  <2>1. /\ step = "validate" /\ Valid(fresh)
        /\ items' = [items EXCEPT ![target] = fresh]
        /\ step' = "idle"
        /\ target' = None
        /\ fresh' = None
        /\ UNCHANGED <<conf, active, link, session, once, status, failures,
                       inFlight, lost, expired, pc, service, subject, kind,
                       fault, reply>>
    BY <1>12 DEF Install
  <2>2. fresh \in Clients
    BY <2>1 DEF AttemptFits
  <2>. QED BY <2>1, <2>2
<1>13. CASE Reject
  <2>. USE DEF TypeOK, Statuses, Paths, Faults
  <2>1. /\ step = "validate"
        /\ step' = "abort"
        /\ status' = [status EXCEPT ![fresh] = "ERROR"]
        /\ UNCHANGED <<items, target, fresh, conf, active, link, session,
                       once, failures, inFlight, lost, expired, pc, service,
                       subject, kind, fault, reply>>
    BY <1>13 DEF Reject
  <2>2. fresh \in Clients
    BY <2>1 DEF AttemptFits
  <2>. QED BY <2>1, <2>2
<1>14. CASE Abort
  <2>. USE DEF TypeOK, Statuses, Paths, Faults
  <2>1. /\ step = "abort"
        /\ step' = "idle"
        /\ target' = None
        /\ fresh' = None
        /\ link' = AfterClose(fresh)
        /\ once' = once \cup {fresh}
        /\ UNCHANGED <<items, conf, active, session, status, failures,
                       inFlight, lost, expired, pc, service, subject, kind,
                       fault, reply>>
    BY <1>14 DEF Abort
  <2>2. fresh \in Clients
    BY <2>1 DEF AttemptFits
  <2>3. AfterClose(fresh) \in [Clients -> [Paths -> {"none", "open", "closed"}]]
    BY <2>1, <2>2, CloseShuts DEF AttemptFits, Made
  <2>. QED BY <2>1, <2>2, <2>3
<1>15. ASSUME NEW s \in Services, Disconnect(s) PROVE TypeOK'
  <2>. USE DEF TypeOK, Statuses, Paths, Faults
  <2>1. /\ step = "idle" /\ items[s] # None
        /\ link' = AfterClose(items[s])
        /\ once' = once \cup {items[s]}
        /\ \/ items' = [items EXCEPT ![s] = None]
           \/ UNCHANGED items
        /\ UNCHANGED <<step, target, fresh, conf, active, session, status,
                       failures, inFlight, lost, expired, pc, service,
                       subject, kind, fault, reply>>
    BY <1>15 DEF Disconnect
  <2>2. items[s] # None => items[s] \in Clients /\ Connected(items[s])
    BY DEF Connected
  <2>3. items[s] # None =>
          AfterClose(items[s]) \in [Clients -> [Paths -> {"none", "open", "closed"}]]
    BY <2>2, ServingFits, CloseShuts
  <2>. QED BY <2>1, <2>2, <2>3
<1>16. ASSUME NEW c \in Clients, NEW x \in Paths, ConnectionLost(c, x) PROVE TypeOK'
  <2>. USE DEF TypeOK, Statuses, Paths, Faults
  <2>1. /\ link[c][x] # "none"
        /\ status' = IF active[c] = x THEN [status EXCEPT ![c] = "ERROR"] ELSE status
        /\ lost' = lost \cup {<<c, x>>}
        /\ UNCHANGED <<items, step, target, fresh, conf, active, link,
                       session, once, failures, inFlight, expired, pc,
                       service, subject, kind, fault, reply>>
    BY <1>16 DEF ConnectionLost, Hears, LostStatus
  <2>. QED BY <2>1
<1>17. ASSUME NEW u \in Users, NEW s \in Services, NEW k \in {"call", "ping", "list"},
             Asked(u, s, k)
      PROVE  TypeOK'
  <2>. USE DEF TypeOK, Statuses, Paths, Faults
  <2>1. /\ pc[u] \in {"idle", "returned"} /\ step = "idle"
        /\ service' = [service EXCEPT ![u] = s]
        /\ kind' = [kind EXCEPT ![u] = k]
        /\ subject' = [subject EXCEPT ![u] = items[s]]
        /\ fault' = [fault EXCEPT ![u] = IF items[s] = None THEN "absent" ELSE "none"]
        /\ pc' = [pc EXCEPT ![u] = CASE items[s] = None -> "returned"
                                      [] items[s] # None /\ k \in Interactions -> "begin"
                                      [] OTHER -> "run"]
        /\ reply' = [reply EXCEPT ![u] = 0]
        /\ UNCHANGED <<items, step, target, fresh, conf, active, link,
                       session, once, status, failures, inFlight, lost,
                       expired>>
    BY <1>17 DEF Asked, Get
  <2>2. fault' \in [Users -> Faults \cup {"absent"}]
    BY <2>1
  <2>3. pc' \in [Users -> {"idle", "begin", "run", "end", "mark", "read",
                        "remove", "returned", "apply"}]
    BY <2>1
  <2>4. subject' \in [Users -> Clients \cup {None}]
    BY <2>1
  <2>. QED BY <2>1, <2>2, <2>3, <2>4
<1>18. ASSUME NEW u \in Users, Begin(u) PROVE TypeOK'
  <2>. USE DEF TypeOK, Statuses, Paths, Faults
  <2>1. /\ pc[u] = "begin"
        /\ inFlight' = [inFlight EXCEPT ![subject[u]] = @ + 1]
        /\ pc' = [pc EXCEPT ![u] = "run"]
        /\ UNCHANGED <<items, step, target, fresh, conf, active, link,
                       session, once, status, failures, lost, expired,
                       service, subject, kind, fault, reply>>
    BY <1>18 DEF Begin
  <2>2. subject[u] \in Clients
    BY <2>1 DEF UsersFit
  <2>. QED BY <2>1, <2>2
<1>19. ASSUME NEW u \in Users, Respond(u) PROVE TypeOK'
  <2>. USE DEF TypeOK, Statuses, Paths, Faults
  <2>1. /\ pc[u] = "run"
        /\ \E e \in Faults : /\ fault' = [fault EXCEPT ![u] = e]
                             /\ pc' = [pc EXCEPT ![u] = AfterRun(u, e)]
        /\ UNCHANGED <<items, step, target, fresh, conf, active, link,
                       session, once, status, failures, inFlight, lost,
                       expired, service, subject, kind, reply>>
    BY <1>19 DEF Respond
  <2>2. /\ pc' \in [Users -> {"idle", "begin", "run", "end", "mark", "read",
                            "remove", "returned", "apply"}]
        /\ fault' \in [Users -> Faults \cup {"absent"}]
    BY <2>1 DEF AfterRun
  <2>. QED BY <2>1, <2>2
<1>20. ASSUME NEW u \in Users, End(u) PROVE TypeOK'
  <2>. USE DEF TypeOK, Statuses, Paths, Faults
  <2>1. /\ pc[u] = "end"
        /\ inFlight' = [inFlight EXCEPT ![subject[u]] = IF @ > 0 THEN @ - 1 ELSE @]
        /\ pc' = [pc EXCEPT ![u] = "mark"]
        /\ UNCHANGED <<items, step, target, fresh, conf, active, link,
                       session, once, status, failures, lost, expired,
                       service, subject, kind, fault, reply>>
    BY <1>20 DEF End
  <2>2. subject[u] \in Clients
    BY <2>1 DEF UsersFit
  <2>. QED BY <2>1, <2>2
<1>21. ASSUME NEW u \in Users, MarkSeen(u) PROVE TypeOK'
  <2>. USE DEF TypeOK, Statuses, Paths, Faults
  <2>1. /\ pc[u] = "mark" /\ fault[u] = "none"
        /\ status' = [status EXCEPT ![subject[u]] = "CONNECTED"]
        /\ failures' = [failures EXCEPT ![subject[u]] = 0]
        /\ pc' = [pc EXCEPT ![u] = "read"]
        /\ UNCHANGED <<items, step, target, fresh, conf, active, link,
                       session, once, inFlight, lost, expired, service,
                       subject, kind, fault, reply>>
    BY <1>21 DEF MarkSeen
  <2>2. subject[u] \in Clients
    BY <2>1 DEF UsersFit
  <2>. QED BY <2>1, <2>2
<1>22. ASSUME NEW u \in Users, MarkError(u) PROVE TypeOK'
  <2>. USE DEF TypeOK, Statuses, Paths, Faults
  <2>1. /\ pc[u] = "mark" /\ fault[u] \in {"plain", "unsupported"}
        /\ pc' = [pc EXCEPT ![u] = "read"]
        /\ UNCHANGED <<items, step, target, fresh, conf, active, link,
                       session, once, status, failures, inFlight, lost,
                       expired, service, subject, kind, fault, reply>>
    BY <1>22 DEF MarkError
  <2>. QED BY <2>1
<1>23. ASSUME NEW u \in Users, Read(u) PROVE TypeOK'
  <2>. USE DEF TypeOK, Statuses, Paths, Faults
  <2>1. /\ pc[u] = "read"
        /\ pc' = [pc EXCEPT ![u] = "returned"]
        /\ reply' = [reply EXCEPT ![u] = failures[subject[u]]]
        /\ UNCHANGED <<items, step, target, fresh, conf, active, link,
                       session, once, status, failures, inFlight, lost,
                       expired, service, subject, kind, fault>>
    BY <1>23 DEF Read
  <2>2. subject[u] \in Clients
    BY <2>1 DEF UsersFit
  <2>. QED BY <2>1, <2>2
<1>24. ASSUME NEW u \in Users, MarkTerminal(u) PROVE TypeOK'
  <2>. USE DEF TypeOK, Statuses, Paths, Faults
  <2>1. /\ pc[u] = "mark" /\ fault[u] = "session"
        /\ status' = [status EXCEPT ![subject[u]] = "ERROR"]
        /\ expired' = expired \cup {subject[u]}
        /\ pc' = [pc EXCEPT ![u] = "remove"]
        /\ reply' = [reply EXCEPT ![u] = failures[subject[u]]]
        /\ UNCHANGED <<items, step, target, fresh, conf, active, link,
                       session, once, failures, inFlight, lost, service,
                       subject, kind, fault>>
    BY <1>24 DEF MarkTerminal
  <2>2. subject[u] \in Clients
    BY <2>1 DEF UsersFit
  <2>. QED BY <2>1, <2>2
<1>25. ASSUME NEW u \in Users, Remove(u) PROVE TypeOK'
  <2>. USE DEF TypeOK, Statuses, Paths, Faults
  <2>1. /\ pc[u] = "remove" /\ step = "idle"
        /\ pc' = [pc EXCEPT ![u] = "returned"]
        /\ \/ /\ items[service[u]] = subject[u]
              /\ link' = AfterClose(items[service[u]])
              /\ once' = once \cup {items[service[u]]}
              /\ items' = [items EXCEPT ![service[u]] = None]
           \/ /\ items[service[u]] # subject[u]
              /\ UNCHANGED <<link, once, items>>
        /\ UNCHANGED <<step, target, fresh, conf, active, session, status,
                       failures, inFlight, lost, expired, service, subject,
                       kind, fault, reply>>
    BY <1>25 DEF Remove, IsCurrent
  <2>2. subject[u] \in Clients
    BY <2>1 DEF UsersFit
  <2>3. items[service[u]] = subject[u] => /\ service[u] \in Services
                                          /\ items[service[u]] \in Clients
                                          /\ Connected(items[service[u]])
    BY <2>1, <2>2 DEF Connected, UsersFit
  <2>4. items[service[u]] = subject[u] =>
          AfterClose(items[service[u]]) \in [Clients -> [Paths -> {"none", "open", "closed"}]]
    BY <2>3, ServingFits, CloseShuts
  <2>. QED BY <2>1, <2>2, <2>3, <2>4
<1>26. ASSUME NEW u \in Users, Leave(u) \/ Miss(u) PROVE TypeOK'
  <2>. USE DEF TypeOK, Statuses, Paths, Faults
  <2>1. /\ pc[u] = "returned"
        /\ pc' = [pc EXCEPT ![u] = "idle"]
        /\ service' = [service EXCEPT ![u] = None]
        /\ subject' = [subject EXCEPT ![u] = None]
        /\ kind' = [kind EXCEPT ![u] = "call"]
        /\ fault' = [fault EXCEPT ![u] = "none"]
        /\ reply' = [reply EXCEPT ![u] = 0]
        /\ UNCHANGED <<items, step, target, fresh, conf, active, link,
                       session, once, status, failures, inFlight, lost,
                       expired>>
    BY <1>26 DEF Leave, Miss, Rest
  <2>. QED BY <2>1
<1>28. ASSUME NEW u \in Users, Locate(u) PROVE TypeOK'
  <2>. USE DEF TypeOK, Statuses, Paths, Faults
  <2>1. /\ pc[u] = "returned" /\ items[service[u]] # None
        /\ subject' = [subject EXCEPT ![u] = items[service[u]]]
        /\ reply' = [reply EXCEPT ![u] = Counted(u)]
        /\ pc' = [pc EXCEPT ![u] = "apply"]
        /\ UNCHANGED <<items, step, target, fresh, conf, active, link,
                       session, once, status, failures, inFlight, lost,
                       expired, service, kind, fault>>
    BY <1>28 DEF Locate
  <2>2. service[u] \in Services
    BY <2>1 DEF UsersFit
  <2>3. Counted(u) \in Nat
    BY DEF Counted
  <2>. QED BY <2>1, <2>2, <2>3
<1>29. ASSUME NEW u \in Users, Apply(u) PROVE TypeOK'
  <2>. USE DEF TypeOK, Statuses, Paths, Faults
  <2>1. /\ pc[u] = "apply"
        /\ status' = [status EXCEPT ![subject[u]] = Verdict(reply[u])]
        /\ failures' = [failures EXCEPT ![subject[u]] = reply[u]]
        /\ pc' = [pc EXCEPT ![u] = "idle"]
        /\ service' = [service EXCEPT ![u] = None]
        /\ subject' = [subject EXCEPT ![u] = None]
        /\ kind' = [kind EXCEPT ![u] = "call"]
        /\ fault' = [fault EXCEPT ![u] = "none"]
        /\ reply' = [reply EXCEPT ![u] = 0]
        /\ UNCHANGED <<items, step, target, fresh, conf, active, link,
                       session, once, inFlight, lost, expired>>
    BY <1>29 DEF Apply, Rest
  <2>2. subject[u] \in Clients /\ Verdict(reply[u]) \in Statuses
    BY <2>1 DEF UsersFit, Verdict
  <2>. QED BY <2>1, <2>2
<1>27. CASE UNCHANGED vars
  <2>. USE DEF TypeOK, Statuses, Paths, Faults
  <2>1. UNCHANGED <<items, step, target, fresh, conf, active, link,
                       session, once, status, failures, inFlight, lost,
                       expired, pc, service, subject, kind, fault, reply>>
    BY <1>27 DEF vars
  <2>. QED BY <2>1
<1>. QED BY <1>1, <1>2, <1>3, <1>4, <1>5, <1>6, <1>7, <1>8, <1>9, <1>10,
            <1>11, <1>12, <1>13, <1>14, <1>15, <1>16, <1>17, <1>18, <1>19,
            <1>20, <1>21, <1>22, <1>23, <1>24, <1>25, <1>26, <1>27, <1>28, <1>29, Requests
            DEF Next, Connect, Handshake, Serve

\* Closing what a service has, for Connect, Disconnect and a session error.
LEMMA ClosesServing ==
    ASSUME TypeOK, AttemptFits, ClientsFit, TransportsAreOwned,
           NEW s \in Services, items[s] # None, link' = AfterClose(items[s])
    PROVE  /\ items[s] \in Clients /\ Connected(items[s]) /\ items[s] # fresh
           /\ \A d \in Clients, x \in Paths :
                  IF d = items[s] THEN link'[d][x] # "open" ELSE link'[d][x] = link[d][x]
<1>1. items[s] \in Clients /\ Connected(items[s]) BY DEF TypeOK, Connected
<1>. DEFINE c == items[s]
<1>. HIDE DEF c
<1>2. c \in Clients /\ c # fresh /\ OnlyActive(c) BY <1>1, ServingFits DEF c
<1>3. /\ \A d \in Clients \ {c}, x \in Paths : AfterClose(c)[d][x] = link[d][x]
      /\ \A x \in Paths : AfterClose(c)[c][x] # "open"
  BY <1>2, CloseShuts
<1>4. link' = AfterClose(c) BY DEF c
<1>5. \A d \in Clients, x \in Paths :
          IF d = c THEN link'[d][x] # "open" ELSE link'[d][x] = link[d][x]
  BY <1>3, <1>4
<1>. QED BY <1>1, <1>2, <1>5 DEF c

\* Closing the client of the attempt.
LEMMA ClosesFresh ==
    ASSUME TypeOK, AttemptFits, ClientsFit, step = "abort", link' = AfterClose(fresh)
    PROVE  /\ fresh \in Clients
           /\ \A d \in Clients, x \in Paths :
                  IF d = fresh THEN link'[d][x] # "open" ELSE link'[d][x] = link[d][x]
<1>1. fresh \in Clients /\ OnlyActive(fresh) BY DEF AttemptFits, Made, TypeOK
<1>2. /\ \A d \in Clients \ {fresh}, x \in Paths : AfterClose(fresh)[d][x] = link[d][x]
      /\ \A x \in Paths : AfterClose(fresh)[fresh][x] # "open"
  BY <1>1, CloseShuts
<1>. QED BY <1>1, <1>2

\* Every step keeps what the Connect under way has made.
LEMMA AttemptStep ==
    TypeOK /\ AttemptFits /\ ClientsFit /\ UsersFit /\ TransportsAreOwned /\
    [Next]_vars
        => AttemptFits'
<1>. SUFFICES ASSUME TypeOK, AttemptFits, ClientsFit, UsersFit,
            TransportsAreOwned, [Next]_vars PROVE AttemptFits'
  OBVIOUS
<1>. USE DEF registry, attempt, runtime, history, userVars, request,
            Unpublished, Unlock, LockFree
<1>t. /\ items \in [Services -> Clients \cup {None}]
      /\ conf \in [Clients -> Configs \cup {None}]
      /\ target \in Services \cup {None} /\ fresh \in Clients \cup {None}
      /\ active \in [Clients -> Paths \cup {None}]
      /\ link \in [Clients -> [Paths -> {"none", "open", "closed"}]]
  BY DEF TypeOK
<1>. USE <1>t
<1>1. ASSUME NEW s \in Services, NEW c \in Clients,
             NEW f \in Configs, NEW n \in RowFailures, BeginConnect(s, c, f, n)
      PROVE  AttemptFits'
  <2>1. /\ step = "idle" /\ conf[c] = None
        /\ items' = [items EXCEPT ![s] = None]
        /\ step' = "build"
        /\ target' = s
        /\ fresh' = c
        /\ conf' = [conf EXCEPT ![c] = f]
        /\ link' = IF items[s] = None THEN link ELSE AfterClose(items[s])
        /\ once' = IF items[s] = None THEN once ELSE once \cup {items[s]}
        /\ UNCHANGED <<active, subject>>
    BY <1>1 DEF BeginConnect
  <2>2. items[s] # None =>
          /\ items[s] \in Clients /\ Connected(items[s]) /\ items[s] # fresh
          /\ \A d \in Clients, x \in Paths :
                 IF d = items[s] THEN link'[d][x] # "open"
                                     ELSE link'[d][x] = link[d][x]
    BY <2>1, ClosesServing
  <2>. QED BY <2>1, <2>2 DEF AttemptFits, ClientsFit, UsersFit, Made,
          OnlyActive, Connected, Paths
<1>2. CASE Build
  <2>1. /\ step = "build"
        /\ \/ /\ link' = [link EXCEPT ![fresh]["primary"] = "open"]
              /\ active' = [active EXCEPT ![fresh] = "primary"]
              /\ step' = "start"
              /\ UNCHANGED <<target, fresh>>
           \/ /\ step' = "idle"
              /\ target' = None
              /\ fresh' = None
              /\ UNCHANGED <<link, active>>
        /\ UNCHANGED <<items, conf, once, subject>>
    BY <1>2 DEF Build
  <2>2. fresh \in Clients
    BY <2>1 DEF AttemptFits, TypeOK
  <2>. QED BY <2>1, <2>2 DEF AttemptFits, ClientsFit, UsersFit, Made,
          OnlyActive, Connected, Paths
<1>3. CASE Start
  <2>1. /\ step = "start"
        /\ step' \in {"initialize", "abort"}
        /\ UNCHANGED <<items, target, fresh, conf, active, link, once, subject
                       >>
    BY <1>3 DEF Start
  <2>. QED BY <2>1 DEF AttemptFits, ClientsFit, UsersFit, Made, OnlyActive,
          Connected, Paths
<1>4. CASE Initialize
  <2>1. /\ step = "initialize"
        /\ \/ step' = "settle"
           \/ step' \in {"fallback", "abort"}
        /\ UNCHANGED <<items, target, fresh, conf, active, link, once, subject
                       >>
    BY <1>4 DEF Initialize
  <2>2. fresh \in Clients
    BY <2>1 DEF AttemptFits, TypeOK
  <2>. QED BY <2>1, <2>2 DEF AttemptFits, ClientsFit, UsersFit, Made,
          OnlyActive, Connected, Paths
<1>5. CASE BuildFallback
  <2>1. /\ step = "fallback"
        /\ \/ /\ link' = [link EXCEPT ![fresh]["fallback"] = "open"]
              /\ step' = "startFallback"
           \/ /\ step' = "abort"
              /\ UNCHANGED link
        /\ UNCHANGED <<items, target, fresh, conf, active, once, subject>>
    BY <1>5 DEF BuildFallback
  <2>2. fresh \in Clients
    BY <2>1 DEF AttemptFits, TypeOK
  <2>. QED BY <2>1, <2>2 DEF AttemptFits, ClientsFit, UsersFit, Made,
          OnlyActive, Connected, Paths
<1>6. CASE StartFallback
  <2>1. /\ step = "startFallback"
        /\ \/ /\ step' = "initializeFallback"
              /\ UNCHANGED link
           \/ /\ link' = [link EXCEPT ![fresh]["fallback"] = "closed"]
              /\ step' = "abort"
        /\ UNCHANGED <<items, target, fresh, conf, active, once, subject>>
    BY <1>6 DEF StartFallback, GivenUp, Shut
  <2>2. fresh \in Clients
    BY <2>1 DEF AttemptFits, TypeOK
  <2>. QED BY <2>1, <2>2 DEF AttemptFits, ClientsFit, UsersFit, Made,
          OnlyActive, Connected, Paths
<1>7. CASE InitializeFallback
  <2>1. /\ step = "initializeFallback"
        /\ \/ /\ step' = "detach"
              /\ UNCHANGED link
           \/ /\ link' = [link EXCEPT ![fresh]["fallback"] = "closed"]
              /\ step' = "abort"
        /\ UNCHANGED <<items, target, fresh, conf, active, once, subject>>
    BY <1>7 DEF InitializeFallback, GivenUp, Shut, AfterFallback
  <2>2. fresh \in Clients
    BY <2>1 DEF AttemptFits, TypeOK
  <2>. QED BY <2>1, <2>2 DEF AttemptFits, ClientsFit, UsersFit, Made,
          OnlyActive, Connected, Paths
<1>8. CASE Detach
  <2>1. /\ step = "detach"
        /\ step' = "closePrimary"
        /\ active' = [active EXCEPT ![fresh] = None]
        /\ UNCHANGED <<items, target, fresh, conf, link, once, subject>>
    BY <1>8 DEF Detach
  <2>2. fresh \in Clients
    BY <2>1 DEF AttemptFits, TypeOK
  <2>. QED BY <2>1, <2>2 DEF AttemptFits, ClientsFit, UsersFit, Made,
          OnlyActive, Connected, Paths
<1>9. CASE ClosePrimary
  <2>1. /\ step = "closePrimary"
        /\ \/ /\ link' = [link EXCEPT ![fresh]["primary"] = "closed"]
              /\ step' = "attach"
              /\ UNCHANGED active
           \/ /\ link' = [link EXCEPT ![fresh] = [x \in Paths |-> "closed"]]
              /\ active' = [active EXCEPT ![fresh] = "primary"]
              /\ step' = "abort"
        /\ UNCHANGED <<items, target, fresh, conf, once, subject>>
    BY <1>9 DEF ClosePrimary, Shut
  <2>2. fresh \in Clients
    BY <2>1 DEF AttemptFits, TypeOK
  <2>. QED BY <2>1, <2>2 DEF AttemptFits, ClientsFit, UsersFit, Made,
          OnlyActive, Connected, Paths
<1>10. CASE AttachFallback
  <2>1. /\ step = "attach"
        /\ step' = "settle"
        /\ active' = [active EXCEPT ![fresh] = "fallback"]
        /\ UNCHANGED <<items, target, fresh, conf, link, once, subject>>
    BY <1>10 DEF AttachFallback
  <2>2. fresh \in Clients
    BY <2>1 DEF AttemptFits, TypeOK
  <2>. QED BY <2>1, <2>2 DEF AttemptFits, ClientsFit, UsersFit, Made,
          OnlyActive, Connected, Paths
<1>11. CASE Settle
  <2>1. /\ step = "settle"
        /\ step' = "validate"
        /\ UNCHANGED <<items, target, fresh, conf, active, link, once, subject
                       >>
    BY <1>11 DEF Settle
  <2>2. fresh \in Clients
    BY <2>1 DEF AttemptFits, TypeOK
  <2>. QED BY <2>1, <2>2 DEF AttemptFits, ClientsFit, UsersFit, Made,
          OnlyActive, Connected, Paths
<1>12. CASE Install
  <2>1. /\ step = "validate" /\ Valid(fresh)
        /\ items' = [items EXCEPT ![target] = fresh]
        /\ step' = "idle"
        /\ target' = None
        /\ fresh' = None
        /\ UNCHANGED <<conf, active, link, once, subject>>
    BY <1>12 DEF Install
  <2>2. fresh \in Clients
    BY <2>1 DEF AttemptFits, TypeOK
  <2>. QED BY <2>1, <2>2 DEF AttemptFits, ClientsFit, UsersFit, Made,
          OnlyActive, Connected, Paths
<1>13. CASE Reject
  <2>1. /\ step = "validate"
        /\ step' = "abort"
        /\ UNCHANGED <<items, target, fresh, conf, active, link, once, subject
                       >>
    BY <1>13 DEF Reject
  <2>2. fresh \in Clients
    BY <2>1 DEF AttemptFits, TypeOK
  <2>. QED BY <2>1, <2>2 DEF AttemptFits, ClientsFit, UsersFit, Made,
          OnlyActive, Connected, Paths
<1>14. CASE Abort
  <2>1. /\ step = "abort"
        /\ step' = "idle"
        /\ target' = None
        /\ fresh' = None
        /\ link' = AfterClose(fresh)
        /\ once' = once \cup {fresh}
        /\ UNCHANGED <<items, conf, active, subject>>
    BY <1>14 DEF Abort
  <2>2. /\ fresh \in Clients
        /\ \A d \in Clients, x \in Paths :
               IF d = fresh THEN link'[d][x] # "open" ELSE link'[d][x] = link[d][x]
    BY <2>1, ClosesFresh
  <2>. QED BY <2>1, <2>2 DEF AttemptFits, ClientsFit, UsersFit, Made,
          OnlyActive, Connected, Paths
<1>15. ASSUME NEW s \in Services, Disconnect(s) PROVE AttemptFits'
  <2>1. /\ step = "idle" /\ items[s] # None
        /\ link' = AfterClose(items[s])
        /\ once' = once \cup {items[s]}
        /\ \/ items' = [items EXCEPT ![s] = None]
           \/ UNCHANGED items
        /\ UNCHANGED <<step, target, fresh, conf, active, subject>>
    BY <1>15 DEF Disconnect
  <2>2. items[s] # None =>
          /\ items[s] \in Clients /\ Connected(items[s]) /\ items[s] # fresh
          /\ \A d \in Clients, x \in Paths :
                 IF d = items[s] THEN link'[d][x] # "open"
                                     ELSE link'[d][x] = link[d][x]
    BY <2>1, ClosesServing
  <2>. QED BY <2>1, <2>2 DEF AttemptFits, ClientsFit, UsersFit, Made,
          OnlyActive, Connected, Paths
<1>16. ASSUME NEW c \in Clients, NEW x \in Paths, ConnectionLost(c, x)
      PROVE  AttemptFits'
  <2>1. /\ link[c][x] # "none"
        /\ UNCHANGED <<items, step, target, fresh, conf, active, link, once,
                       subject>>
    BY <1>16 DEF ConnectionLost, Hears, LostStatus
  <2>. QED BY <2>1 DEF AttemptFits, ClientsFit, UsersFit, Made, OnlyActive,
          Connected, Paths
<1>17. ASSUME NEW u \in Users, NEW s \in Services, NEW k \in {"call", "ping", "list"},
             Asked(u, s, k)
      PROVE  AttemptFits'
  <2>1. /\ pc[u] \in {"idle", "returned"} /\ step = "idle"
        /\ subject' = [subject EXCEPT ![u] = items[s]]
        /\ UNCHANGED <<items, step, target, fresh, conf, active, link, once>>
    BY <1>17 DEF Asked, Get
  <2>. QED BY <2>1 DEF AttemptFits, ClientsFit, UsersFit, Made, OnlyActive,
          Connected, Paths
<1>18. ASSUME NEW u \in Users,
             Begin(u) \/ Respond(u) \/ End(u) \/ MarkSeen(u) \/ MarkError(u) \/
             Read(u) \/ MarkTerminal(u)
      PROVE  AttemptFits'
  <2>1. UNCHANGED <<items, step, target, fresh, conf, active, link, once,
                    subject>>
    BY <1>18 DEF Begin, Respond, End, MarkSeen, MarkError, Read, MarkTerminal
  <2>. QED BY <2>1 DEF AttemptFits, ClientsFit, UsersFit, Made, OnlyActive,
          Connected, Paths
<1>19. ASSUME NEW u \in Users, Remove(u) PROVE AttemptFits'
  <2>1. /\ pc[u] = "remove" /\ step = "idle"
        /\ \/ /\ items[service[u]] = subject[u]
              /\ link' = AfterClose(items[service[u]])
              /\ once' = once \cup {items[service[u]]}
              /\ items' = [items EXCEPT ![service[u]] = None]
           \/ /\ items[service[u]] # subject[u]
              /\ UNCHANGED <<link, once, items>>
        /\ UNCHANGED <<step, target, fresh, conf, active, subject>>
    BY <1>19 DEF Remove, IsCurrent
  <2>2. subject[u] \in Clients /\ service[u] \in Services
    BY <2>1 DEF UsersFit, TypeOK
  <2>3. items[service[u]] = subject[u] =>
          /\ items[service[u]] \in Clients /\ Connected(items[service[u]])
          /\ items[service[u]] # fresh
          /\ \A d \in Clients, x \in Paths :
                 IF d = items[service[u]] THEN link'[d][x] # "open"
                                          ELSE link'[d][x] = link[d][x]
    BY <2>1, <2>2, ClosesServing
  <2>. QED BY <2>1, <2>2, <2>3 DEF AttemptFits, ClientsFit, UsersFit, Made,
          OnlyActive, Connected, Paths
<1>20. ASSUME NEW u \in Users, Leave(u) \/ Miss(u) \/ Apply(u) PROVE AttemptFits'
  <2>1. /\ subject' = [subject EXCEPT ![u] = None]
        /\ UNCHANGED <<items, step, target, fresh, conf, active, link, once>>
    BY <1>20 DEF Leave, Miss, Apply, Rest
  <2>. QED BY <2>1 DEF AttemptFits, ClientsFit, UsersFit, Made, OnlyActive,
          Connected, Paths
<1>22. ASSUME NEW u \in Users, Locate(u) PROVE AttemptFits'
  <2>1. /\ step = "idle"
        /\ subject' = [subject EXCEPT ![u] = items[service[u]]]
        /\ UNCHANGED <<items, step, target, fresh, conf, active, link, once>>
    BY <1>22 DEF Locate
  <2>. QED BY <2>1 DEF AttemptFits, Connected
<1>21. CASE UNCHANGED vars
  <2>1. UNCHANGED <<items, step, target, fresh, conf, active, link, once,
                       subject>>
    BY <1>21 DEF vars
  <2>. QED BY <2>1 DEF AttemptFits, ClientsFit, UsersFit, Made, OnlyActive,
          Connected, Paths
<1>. QED BY <1>1, <1>2, <1>3, <1>4, <1>5, <1>6, <1>7, <1>8, <1>9, <1>10,
            <1>11, <1>12, <1>13, <1>14, <1>15, <1>16, <1>17, <1>18, <1>19,
            <1>20, <1>21, <1>22, Requests DEF Next, Connect, Handshake, Serve

\* Every step keeps the clients apart.
LEMMA ClientsStep ==
    TypeOK /\ AttemptFits /\ ClientsFit /\ UsersFit /\ TransportsAreOwned /\
    [Next]_vars
        => ClientsFit'
<1>. SUFFICES ASSUME TypeOK, AttemptFits, ClientsFit, UsersFit,
            TransportsAreOwned, [Next]_vars PROVE ClientsFit'
  OBVIOUS
<1>. USE DEF registry, attempt, runtime, history, userVars, request,
            Unpublished, Unlock, LockFree
<1>t. /\ items \in [Services -> Clients \cup {None}]
      /\ conf \in [Clients -> Configs \cup {None}]
      /\ target \in Services \cup {None} /\ fresh \in Clients \cup {None}
      /\ active \in [Clients -> Paths \cup {None}]
      /\ link \in [Clients -> [Paths -> {"none", "open", "closed"}]]
  BY DEF TypeOK
<1>. USE <1>t
<1>1. ASSUME NEW s \in Services, NEW c \in Clients,
             NEW f \in Configs, NEW n \in RowFailures, BeginConnect(s, c, f, n)
      PROVE  ClientsFit'
  <2>1. /\ step = "idle" /\ conf[c] = None
        /\ items' = [items EXCEPT ![s] = None]
        /\ conf' = [conf EXCEPT ![c] = f]
        /\ link' = IF items[s] = None THEN link ELSE AfterClose(items[s])
        /\ once' = IF items[s] = None THEN once ELSE once \cup {items[s]}
        /\ UNCHANGED <<active, session>>
    BY <1>1 DEF BeginConnect
  <2>2. items[s] # None =>
          /\ items[s] \in Clients /\ Connected(items[s]) /\ items[s] # fresh
          /\ \A d \in Clients, x \in Paths :
                 IF d = items[s] THEN link'[d][x] # "open"
                                     ELSE link'[d][x] = link[d][x]
    BY <2>1, ClosesServing
  <2>. QED BY <2>1, <2>2 DEF AttemptFits, ClientsFit, Made, OnlyActive,
          Connected, Paths
<1>2. CASE Build
  <2>1. /\ step = "build"
        /\ \/ /\ link' = [link EXCEPT ![fresh]["primary"] = "open"]
              /\ active' = [active EXCEPT ![fresh] = "primary"]
           \/ UNCHANGED <<link, active>>
        /\ UNCHANGED <<items, conf, once, session>>
    BY <1>2 DEF Build
  <2>2. fresh \in Clients
    BY <2>1 DEF AttemptFits, TypeOK
  <2>. QED BY <2>1, <2>2 DEF AttemptFits, ClientsFit, Made, OnlyActive,
          Connected, Paths
<1>3. CASE Start
  <2>1. /\ step = "start"
        /\ UNCHANGED <<items, conf, active, link, once, session>>
    BY <1>3 DEF Start
  <2>. QED BY <2>1 DEF AttemptFits, ClientsFit, Made, OnlyActive, Connected,
          Paths
<1>4. CASE Initialize
  <2>1. /\ step = "initialize"
        /\ \/ UNCHANGED session
           \/ /\ MayHaveSession(conf[fresh], "primary")
              /\ session' = session \cup {<<fresh, "primary">>}
        /\ UNCHANGED <<items, conf, active, link, once>>
    BY <1>4 DEF Initialize
  <2>2. fresh \in Clients
    BY <2>1 DEF AttemptFits, TypeOK
  <2>. QED BY <2>1, <2>2 DEF AttemptFits, ClientsFit, Made, OnlyActive,
          Connected, Paths
<1>5. CASE BuildFallback
  <2>1. /\ step = "fallback"
        /\ \/ link' = [link EXCEPT ![fresh]["fallback"] = "open"]
           \/ UNCHANGED link
        /\ UNCHANGED <<items, conf, active, once, session>>
    BY <1>5 DEF BuildFallback
  <2>2. fresh \in Clients
    BY <2>1 DEF AttemptFits, TypeOK
  <2>. QED BY <2>1, <2>2 DEF AttemptFits, ClientsFit, Made, OnlyActive,
          Connected, Paths
<1>6. CASE StartFallback
  <2>1. /\ step = "startFallback"
        /\ \/ UNCHANGED link
           \/ link' = [link EXCEPT ![fresh]["fallback"] = "closed"]
        /\ UNCHANGED <<items, conf, active, once, session>>
    BY <1>6 DEF StartFallback, GivenUp, Shut
  <2>2. fresh \in Clients
    BY <2>1 DEF AttemptFits, TypeOK
  <2>. QED BY <2>1, <2>2 DEF AttemptFits, ClientsFit, Made, OnlyActive,
          Connected, Paths
<1>7. CASE InitializeFallback
  <2>1. /\ step = "initializeFallback"
        /\ \/ UNCHANGED link
           \/ link' = [link EXCEPT ![fresh]["fallback"] = "closed"]
        /\ UNCHANGED <<items, conf, active, once, session>>
    BY <1>7 DEF InitializeFallback, GivenUp, Shut, AfterFallback
  <2>2. fresh \in Clients
    BY <2>1 DEF AttemptFits, TypeOK
  <2>. QED BY <2>1, <2>2 DEF AttemptFits, ClientsFit, Made, OnlyActive,
          Connected, Paths
<1>8. CASE Detach
  <2>1. /\ step = "detach"
        /\ active' = [active EXCEPT ![fresh] = None]
        /\ UNCHANGED <<items, conf, link, once, session>>
    BY <1>8 DEF Detach
  <2>2. fresh \in Clients
    BY <2>1 DEF AttemptFits, TypeOK
  <2>. QED BY <2>1, <2>2 DEF AttemptFits, ClientsFit, Made, OnlyActive,
          Connected, Paths
<1>9. CASE ClosePrimary
  <2>1. /\ step = "closePrimary"
        /\ \/ /\ link' = [link EXCEPT ![fresh]["primary"] = "closed"]
              /\ UNCHANGED active
           \/ /\ link' = [link EXCEPT ![fresh] = [x \in Paths |-> "closed"]]
              /\ active' = [active EXCEPT ![fresh] = "primary"]
        /\ UNCHANGED <<items, conf, once, session>>
    BY <1>9 DEF ClosePrimary, Shut
  <2>2. fresh \in Clients
    BY <2>1 DEF AttemptFits, TypeOK
  <2>. QED BY <2>1, <2>2 DEF AttemptFits, ClientsFit, Made, OnlyActive,
          Connected, Paths
<1>10. CASE AttachFallback
  <2>1. /\ step = "attach"
        /\ active' = [active EXCEPT ![fresh] = "fallback"]
        /\ UNCHANGED <<items, conf, link, once, session>>
    BY <1>10 DEF AttachFallback
  <2>2. fresh \in Clients
    BY <2>1 DEF AttemptFits, TypeOK
  <2>. QED BY <2>1, <2>2 DEF AttemptFits, ClientsFit, Made, OnlyActive,
          Connected, Paths
<1>11. CASE Settle
  <2>1. /\ step = "settle"
        /\ UNCHANGED <<items, conf, active, link, once, session>>
    BY <1>11 DEF Settle
  <2>2. fresh \in Clients
    BY <2>1 DEF AttemptFits, TypeOK
  <2>. QED BY <2>1, <2>2 DEF AttemptFits, ClientsFit, Made, OnlyActive,
          Connected, Paths
<1>12. CASE Install
  <2>1. /\ step = "validate" /\ Valid(fresh)
        /\ items' = [items EXCEPT ![target] = fresh]
        /\ UNCHANGED <<conf, active, link, once, session>>
    BY <1>12 DEF Install
  <2>2. fresh \in Clients
    BY <2>1 DEF AttemptFits, TypeOK
  <2>. QED BY <2>1, <2>2 DEF AttemptFits, ClientsFit, Made, OnlyActive,
          Connected, Paths
<1>13. CASE Reject
  <2>1. /\ step = "validate"
        /\ UNCHANGED <<items, conf, active, link, once, session>>
    BY <1>13 DEF Reject
  <2>2. fresh \in Clients
    BY <2>1 DEF AttemptFits, TypeOK
  <2>. QED BY <2>1, <2>2 DEF AttemptFits, ClientsFit, Made, OnlyActive,
          Connected, Paths
<1>14. CASE Abort
  <2>1. /\ step = "abort"
        /\ link' = AfterClose(fresh)
        /\ once' = once \cup {fresh}
        /\ UNCHANGED <<items, conf, active, session>>
    BY <1>14 DEF Abort
  <2>2. /\ fresh \in Clients
        /\ \A d \in Clients, x \in Paths :
               IF d = fresh THEN link'[d][x] # "open" ELSE link'[d][x] = link[d][x]
    BY <2>1, ClosesFresh
  <2>. QED BY <2>1, <2>2 DEF AttemptFits, ClientsFit, Made, OnlyActive,
          Connected, Paths
<1>15. ASSUME NEW s \in Services, Disconnect(s) PROVE ClientsFit'
  <2>1. /\ step = "idle" /\ items[s] # None
        /\ link' = AfterClose(items[s])
        /\ once' = once \cup {items[s]}
        /\ \/ items' = [items EXCEPT ![s] = None]
           \/ UNCHANGED items
        /\ UNCHANGED <<conf, active, session>>
    BY <1>15 DEF Disconnect
  <2>2. items[s] # None =>
          /\ items[s] \in Clients /\ Connected(items[s]) /\ items[s] # fresh
          /\ \A d \in Clients, x \in Paths :
                 IF d = items[s] THEN link'[d][x] # "open"
                                     ELSE link'[d][x] = link[d][x]
    BY <2>1, ClosesServing
  <2>. QED BY <2>1, <2>2 DEF AttemptFits, ClientsFit, Made, OnlyActive,
          Connected, Paths
<1>16. ASSUME NEW c \in Clients, NEW x \in Paths, ConnectionLost(c, x)
      PROVE  ClientsFit'
  <2>1. /\ link[c][x] # "none"
        /\ UNCHANGED <<items, conf, active, link, once, session>>
    BY <1>16 DEF ConnectionLost, Hears, LostStatus
  <2>. QED BY <2>1 DEF AttemptFits, ClientsFit, Made, OnlyActive, Connected,
          Paths
<1>17. ASSUME NEW u \in Users, NEW s \in Services, NEW k \in {"call", "ping", "list"},
             Asked(u, s, k)
      PROVE  ClientsFit'
  <2>1. /\ pc[u] \in {"idle", "returned"} /\ step = "idle"
        /\ UNCHANGED <<items, conf, active, link, once, session>>
    BY <1>17 DEF Asked, Get
  <2>. QED BY <2>1 DEF AttemptFits, ClientsFit, Made, OnlyActive, Connected,
          Paths
<1>18. ASSUME NEW u \in Users,
             Begin(u) \/ Respond(u) \/ End(u) \/ MarkSeen(u) \/ MarkError(u) \/
             Read(u) \/ MarkTerminal(u) \/ Leave(u) \/ Locate(u) \/ Miss(u) \/
             Apply(u)
      PROVE  ClientsFit'
  <2>1. UNCHANGED <<items, conf, active, link, once, session>>
    BY <1>18 DEF Begin, Respond, End, MarkSeen, MarkError, Read, MarkTerminal,
        Leave, Locate, Miss, Apply
  <2>. QED BY <2>1 DEF AttemptFits, ClientsFit, Made, OnlyActive, Connected,
          Paths
<1>19. ASSUME NEW u \in Users, Remove(u) PROVE ClientsFit'
  <2>1. /\ pc[u] = "remove" /\ step = "idle"
        /\ \/ /\ items[service[u]] = subject[u]
              /\ link' = AfterClose(items[service[u]])
              /\ once' = once \cup {items[service[u]]}
              /\ items' = [items EXCEPT ![service[u]] = None]
           \/ /\ items[service[u]] # subject[u]
              /\ UNCHANGED <<link, once, items>>
        /\ UNCHANGED <<conf, active, session>>
    BY <1>19 DEF Remove, IsCurrent
  <2>2. subject[u] \in Clients /\ service[u] \in Services
    BY <2>1 DEF UsersFit, TypeOK
  <2>3. items[service[u]] = subject[u] =>
          /\ items[service[u]] \in Clients /\ Connected(items[service[u]])
          /\ items[service[u]] # fresh
          /\ \A d \in Clients, x \in Paths :
                 IF d = items[service[u]] THEN link'[d][x] # "open"
                                          ELSE link'[d][x] = link[d][x]
    BY <2>1, <2>2, ClosesServing
  <2>4. CASE items[service[u]] = subject[u]
    <3>1. \A d \in Clients : Connected(d)' => Connected(d) /\ d # subject[u]
      BY <2>1, <2>2, <2>4 DEF ClientsFit, Connected
    <3>2. \A d \in Clients, x \in Paths :
              IF d = subject[u] THEN link'[d][x] # "open" ELSE link'[d][x] = link[d][x]
      BY <2>3, <2>4
    <3>3. conf[subject[u]] # None
      BY <2>3, <2>4 DEF ClientsFit
    <3>4. \A s, t \in Services : items'[s] = items'[t] /\ items'[s] # None => s = t
      BY <2>1, <2>2, <2>4 DEF ClientsFit
    <3>5. once' = once \cup {subject[u]}
      BY <2>1, <2>4
    <3>6. UNCHANGED <<conf, active, session>>
      BY <2>1
    <3>. QED BY <3>1, <3>2, <3>3, <3>4, <3>5, <3>6 DEF ClientsFit
  <2>5. CASE items[service[u]] # subject[u]
    BY <2>1, <2>5 DEF ClientsFit, Connected
  <2>. QED BY <2>1, <2>4, <2>5
<1>20. CASE UNCHANGED vars
  <2>1. UNCHANGED <<items, conf, active, link, once, session>>
    BY <1>20 DEF vars
  <2>. QED BY <2>1 DEF AttemptFits, ClientsFit, Made, OnlyActive, Connected,
          Paths
<1>. QED BY <1>1, <1>2, <1>3, <1>4, <1>5, <1>6, <1>7, <1>8, <1>9, <1>10,
            <1>11, <1>12, <1>13, <1>14, <1>15, <1>16, <1>17, <1>18, <1>19,
            <1>20, Requests DEF Next, Connect, Handshake, Serve

\* Every step keeps the owners of the transports.
LEMMA OwnedStep ==
    TypeOK /\ AttemptFits /\ ClientsFit /\ UsersFit /\ TransportsAreOwned /\
    [Next]_vars
        => TransportsAreOwned'
<1>. SUFFICES ASSUME TypeOK, AttemptFits, ClientsFit, UsersFit,
            TransportsAreOwned, [Next]_vars PROVE TransportsAreOwned'
  OBVIOUS
<1>. USE DEF registry, attempt, runtime, history, userVars, request,
            Unpublished, Unlock, LockFree
<1>t. /\ items \in [Services -> Clients \cup {None}]
      /\ conf \in [Clients -> Configs \cup {None}]
      /\ target \in Services \cup {None} /\ fresh \in Clients \cup {None}
      /\ active \in [Clients -> Paths \cup {None}]
      /\ link \in [Clients -> [Paths -> {"none", "open", "closed"}]]
  BY DEF TypeOK
<1>. USE <1>t
<1>1. ASSUME NEW s \in Services, NEW c \in Clients,
             NEW f \in Configs, NEW n \in RowFailures, BeginConnect(s, c, f, n)
      PROVE  TransportsAreOwned'
  <2>1. /\ step = "idle" /\ conf[c] = None
        /\ items' = [items EXCEPT ![s] = None]
        /\ fresh' = c
        /\ conf' = [conf EXCEPT ![c] = f]
        /\ link' = IF items[s] = None THEN link ELSE AfterClose(items[s])
        /\ UNCHANGED active
    BY <1>1 DEF BeginConnect
  <2>2. items[s] # None =>
          /\ items[s] \in Clients /\ Connected(items[s]) /\ items[s] # fresh
          /\ \A d \in Clients, x \in Paths :
                 IF d = items[s] THEN link'[d][x] # "open"
                                     ELSE link'[d][x] = link[d][x]
    BY <2>1, ClosesServing
  <2>. QED BY <2>1, <2>2 DEF AttemptFits, ClientsFit, TransportsAreOwned,
          Made, OnlyActive, Connected, Paths
<1>2. CASE Build
  <2>1. /\ step = "build"
        /\ \/ /\ link' = [link EXCEPT ![fresh]["primary"] = "open"]
              /\ active' = [active EXCEPT ![fresh] = "primary"]
              /\ UNCHANGED fresh
           \/ /\ fresh' = None
              /\ UNCHANGED <<link, active>>
        /\ UNCHANGED <<items, conf>>
    BY <1>2 DEF Build
  <2>2. fresh \in Clients
    BY <2>1 DEF AttemptFits, TypeOK
  <2>. QED BY <2>1, <2>2 DEF AttemptFits, ClientsFit, TransportsAreOwned,
          Made, OnlyActive, Connected, Paths
<1>3. CASE Start
  <2>1. /\ step = "start"
        /\ UNCHANGED <<items, fresh, conf, active, link>>
    BY <1>3 DEF Start
  <2>. QED BY <2>1 DEF AttemptFits, ClientsFit, TransportsAreOwned, Made,
          OnlyActive, Connected, Paths
<1>4. CASE Initialize
  <2>1. /\ step = "initialize"
        /\ UNCHANGED <<items, fresh, conf, active, link>>
    BY <1>4 DEF Initialize
  <2>2. fresh \in Clients
    BY <2>1 DEF AttemptFits, TypeOK
  <2>. QED BY <2>1, <2>2 DEF AttemptFits, ClientsFit, TransportsAreOwned,
          Made, OnlyActive, Connected, Paths
<1>5. CASE BuildFallback
  <2>1. /\ step = "fallback"
        /\ \/ link' = [link EXCEPT ![fresh]["fallback"] = "open"]
           \/ UNCHANGED link
        /\ UNCHANGED <<items, fresh, conf, active>>
    BY <1>5 DEF BuildFallback
  <2>2. fresh \in Clients
    BY <2>1 DEF AttemptFits, TypeOK
  <2>. QED BY <2>1, <2>2 DEF AttemptFits, ClientsFit, TransportsAreOwned,
          Made, OnlyActive, Connected, Paths
<1>6. CASE StartFallback
  <2>1. /\ step = "startFallback"
        /\ \/ UNCHANGED link
           \/ link' = [link EXCEPT ![fresh]["fallback"] = "closed"]
        /\ UNCHANGED <<items, fresh, conf, active>>
    BY <1>6 DEF StartFallback, GivenUp, Shut
  <2>2. fresh \in Clients
    BY <2>1 DEF AttemptFits, TypeOK
  <2>. QED BY <2>1, <2>2 DEF AttemptFits, ClientsFit, TransportsAreOwned,
          Made, OnlyActive, Connected, Paths
<1>7. CASE InitializeFallback
  <2>1. /\ step = "initializeFallback"
        /\ \/ UNCHANGED link
           \/ link' = [link EXCEPT ![fresh]["fallback"] = "closed"]
        /\ UNCHANGED <<items, fresh, conf, active>>
    BY <1>7 DEF InitializeFallback, GivenUp, Shut, AfterFallback
  <2>2. fresh \in Clients
    BY <2>1 DEF AttemptFits, TypeOK
  <2>. QED BY <2>1, <2>2 DEF AttemptFits, ClientsFit, TransportsAreOwned,
          Made, OnlyActive, Connected, Paths
<1>8. CASE Detach
  <2>1. /\ step = "detach"
        /\ active' = [active EXCEPT ![fresh] = None]
        /\ UNCHANGED <<items, fresh, conf, link>>
    BY <1>8 DEF Detach
  <2>2. fresh \in Clients
    BY <2>1 DEF AttemptFits, TypeOK
  <2>. QED BY <2>1, <2>2 DEF AttemptFits, ClientsFit, TransportsAreOwned,
          Made, OnlyActive, Connected, Paths
<1>9. CASE ClosePrimary
  <2>1. /\ step = "closePrimary"
        /\ \/ /\ link' = [link EXCEPT ![fresh]["primary"] = "closed"]
              /\ UNCHANGED active
           \/ /\ link' = [link EXCEPT ![fresh] = [x \in Paths |-> "closed"]]
              /\ active' = [active EXCEPT ![fresh] = "primary"]
        /\ UNCHANGED <<items, fresh, conf>>
    BY <1>9 DEF ClosePrimary, Shut
  <2>2. fresh \in Clients
    BY <2>1 DEF AttemptFits, TypeOK
  <2>. QED BY <2>1, <2>2 DEF AttemptFits, ClientsFit, TransportsAreOwned,
          Made, OnlyActive, Connected, Paths
<1>10. CASE AttachFallback
  <2>1. /\ step = "attach"
        /\ active' = [active EXCEPT ![fresh] = "fallback"]
        /\ UNCHANGED <<items, fresh, conf, link>>
    BY <1>10 DEF AttachFallback
  <2>2. fresh \in Clients
    BY <2>1 DEF AttemptFits, TypeOK
  <2>. QED BY <2>1, <2>2 DEF AttemptFits, ClientsFit, TransportsAreOwned,
          Made, OnlyActive, Connected, Paths
<1>11. CASE Settle
  <2>1. /\ step = "settle"
        /\ UNCHANGED <<items, fresh, conf, active, link>>
    BY <1>11 DEF Settle
  <2>2. fresh \in Clients
    BY <2>1 DEF AttemptFits, TypeOK
  <2>. QED BY <2>1, <2>2 DEF AttemptFits, ClientsFit, TransportsAreOwned,
          Made, OnlyActive, Connected, Paths
<1>12. CASE Install
  <2>1. /\ step = "validate" /\ Valid(fresh)
        /\ items' = [items EXCEPT ![target] = fresh]
        /\ fresh' = None
        /\ UNCHANGED <<conf, active, link>>
    BY <1>12 DEF Install
  <2>2. fresh \in Clients
    BY <2>1 DEF AttemptFits, TypeOK
  <2>. QED BY <2>1, <2>2 DEF AttemptFits, ClientsFit, TransportsAreOwned,
          Made, OnlyActive, Connected, Paths
<1>13. CASE Reject
  <2>1. /\ step = "validate"
        /\ UNCHANGED <<items, fresh, conf, active, link>>
    BY <1>13 DEF Reject
  <2>2. fresh \in Clients
    BY <2>1 DEF AttemptFits, TypeOK
  <2>. QED BY <2>1, <2>2 DEF AttemptFits, ClientsFit, TransportsAreOwned,
          Made, OnlyActive, Connected, Paths
<1>14. CASE Abort
  <2>1. /\ step = "abort"
        /\ fresh' = None
        /\ link' = AfterClose(fresh)
        /\ UNCHANGED <<items, conf, active>>
    BY <1>14 DEF Abort
  <2>2. /\ fresh \in Clients
        /\ \A d \in Clients, x \in Paths :
               IF d = fresh THEN link'[d][x] # "open" ELSE link'[d][x] = link[d][x]
    BY <2>1, ClosesFresh
  <2>. QED BY <2>1, <2>2 DEF AttemptFits, ClientsFit, TransportsAreOwned,
          Made, OnlyActive, Connected, Paths
<1>15. ASSUME NEW s \in Services, Disconnect(s) PROVE TransportsAreOwned'
  <2>1. /\ step = "idle" /\ items[s] # None
        /\ link' = AfterClose(items[s])
        /\ \/ items' = [items EXCEPT ![s] = None]
           \/ UNCHANGED items
        /\ UNCHANGED <<fresh, conf, active>>
    BY <1>15 DEF Disconnect
  <2>2. items[s] # None =>
          /\ items[s] \in Clients /\ Connected(items[s]) /\ items[s] # fresh
          /\ \A d \in Clients, x \in Paths :
                 IF d = items[s] THEN link'[d][x] # "open"
                                     ELSE link'[d][x] = link[d][x]
    BY <2>1, ClosesServing
  <2>. QED BY <2>1, <2>2 DEF AttemptFits, ClientsFit, TransportsAreOwned,
          Made, OnlyActive, Connected, Paths
<1>16. ASSUME NEW c \in Clients, NEW x \in Paths, ConnectionLost(c, x)
      PROVE  TransportsAreOwned'
  <2>1. /\ link[c][x] # "none"
        /\ UNCHANGED <<items, fresh, conf, active, link>>
    BY <1>16 DEF ConnectionLost, Hears, LostStatus
  <2>. QED BY <2>1 DEF AttemptFits, ClientsFit, TransportsAreOwned, Made,
          OnlyActive, Connected, Paths
<1>17. ASSUME NEW u \in Users, NEW s \in Services, NEW k \in {"call", "ping", "list"},
             Asked(u, s, k)
      PROVE  TransportsAreOwned'
  <2>1. /\ pc[u] \in {"idle", "returned"} /\ step = "idle"
        /\ UNCHANGED <<items, fresh, conf, active, link>>
    BY <1>17 DEF Asked, Get
  <2>. QED BY <2>1 DEF AttemptFits, ClientsFit, TransportsAreOwned, Made,
          OnlyActive, Connected, Paths
<1>18. ASSUME NEW u \in Users,
             Begin(u) \/ Respond(u) \/ End(u) \/ MarkSeen(u) \/ MarkError(u) \/
             Read(u) \/ MarkTerminal(u) \/ Leave(u) \/ Locate(u) \/ Miss(u) \/
             Apply(u)
      PROVE  TransportsAreOwned'
  <2>1. UNCHANGED <<items, fresh, conf, active, link>>
    BY <1>18 DEF Begin, Respond, End, MarkSeen, MarkError, Read, MarkTerminal,
        Leave, Locate, Miss, Apply
  <2>. QED BY <2>1 DEF AttemptFits, ClientsFit, TransportsAreOwned, Made,
          OnlyActive, Connected, Paths
<1>19. ASSUME NEW u \in Users, Remove(u) PROVE TransportsAreOwned'
  <2>1. /\ pc[u] = "remove" /\ step = "idle"
        /\ \/ /\ items[service[u]] = subject[u]
              /\ link' = AfterClose(items[service[u]])
              /\ items' = [items EXCEPT ![service[u]] = None]
           \/ /\ items[service[u]] # subject[u]
              /\ UNCHANGED <<link, items>>
        /\ UNCHANGED <<fresh, conf, active>>
    BY <1>19 DEF Remove, IsCurrent
  <2>2. subject[u] \in Clients /\ service[u] \in Services
    BY <2>1 DEF UsersFit, TypeOK
  <2>3. items[service[u]] = subject[u] =>
          /\ items[service[u]] \in Clients /\ Connected(items[service[u]])
          /\ items[service[u]] # fresh
          /\ \A d \in Clients, x \in Paths :
                 IF d = items[service[u]] THEN link'[d][x] # "open"
                                          ELSE link'[d][x] = link[d][x]
    BY <2>1, <2>2, ClosesServing
  <2>. QED BY <2>1, <2>2, <2>3 DEF AttemptFits, ClientsFit,
          TransportsAreOwned, Made, OnlyActive, Connected, Paths
<1>20. CASE UNCHANGED vars
  <2>1. UNCHANGED <<items, fresh, conf, active, link>>
    BY <1>20 DEF vars
  <2>. QED BY <2>1 DEF AttemptFits, ClientsFit, TransportsAreOwned, Made,
          OnlyActive, Connected, Paths
<1>. QED BY <1>1, <1>2, <1>3, <1>4, <1>5, <1>6, <1>7, <1>8, <1>9, <1>10,
            <1>11, <1>12, <1>13, <1>14, <1>15, <1>16, <1>17, <1>18, <1>19,
            <1>20, Requests DEF Next, Connect, Handshake, Serve

\* Every step keeps the causes of an error.
LEMMA CauseStep ==
    TypeOK /\ AttemptFits /\ ClientsFit /\ UsersFit /\ CausesFit /\
    ErrorHasCause /\ [Next]_vars
        => CausesFit' /\ ErrorHasCause'
<1>. SUFFICES ASSUME TypeOK, AttemptFits, ClientsFit, UsersFit, CausesFit,
            ErrorHasCause, [Next]_vars PROVE CausesFit' /\ ErrorHasCause'
  OBVIOUS
<1>. USE DEF registry, attempt, runtime, history, userVars, request,
            Unpublished, Unlock, LockFree
<1>t. /\ items \in [Services -> Clients \cup {None}]
      /\ conf \in [Clients -> Configs \cup {None}]
      /\ target \in Services \cup {None} /\ fresh \in Clients \cup {None}
      /\ active \in [Clients -> Paths \cup {None}]
      /\ link \in [Clients -> [Paths -> {"none", "open", "closed"}]]
  BY DEF TypeOK
<1>. USE <1>t
<1>u. status \in [Clients -> Statuses] /\ failures \in [Clients -> Nat] BY DEF TypeOK
<1>. USE <1>u
<1>1. ASSUME NEW s \in Services, NEW c \in Clients,
             NEW f \in Configs, NEW n \in RowFailures, BeginConnect(s, c, f, n)
      PROVE  CausesFit' /\ ErrorHasCause'
  <2>1. /\ step = "idle" /\ conf[c] = None
        /\ items' = [items EXCEPT ![s] = None]
        /\ fresh' = c
        /\ step' = "build"
        /\ UNCHANGED <<active, status, lost, expired>>
        /\ failures' = [failures EXCEPT ![c] = n]
    BY <1>1 DEF BeginConnect
  <2>. QED BY <2>1 DEF CausesFit, ErrorHasCause, AttemptFits, ClientsFit,
          UsersFit, Connected
<1>2. CASE Build
  <2>1. /\ step = "build"
        /\ \/ /\ active' = [active EXCEPT ![fresh] = "primary"]
              /\ step' = "start"
              /\ UNCHANGED fresh
           \/ /\ step' = "idle"
              /\ fresh' = None
              /\ UNCHANGED active
        /\ UNCHANGED <<items, status, failures, lost, expired>>
    BY <1>2 DEF Build
  <2>. QED BY <2>1 DEF CausesFit, ErrorHasCause, AttemptFits, ClientsFit,
          UsersFit, Connected
<1>3. CASE Start
  <2>1. /\ step = "start"
        /\ step' \in {"initialize", "abort"}
        /\ UNCHANGED <<items, fresh, active, status, failures, lost, expired>>
    BY <1>3 DEF Start
  <2>. QED BY <2>1 DEF CausesFit, ErrorHasCause, AttemptFits, ClientsFit,
          UsersFit, Connected
<1>4. CASE Initialize
  <2>1. /\ step = "initialize"
        /\ \/ step' = "settle"
           \/ step' \in {"fallback", "abort"}
        /\ UNCHANGED <<items, fresh, active, status, failures, lost, expired>>
    BY <1>4 DEF Initialize
  <2>. QED BY <2>1 DEF CausesFit, ErrorHasCause, AttemptFits, ClientsFit,
          UsersFit, Connected
<1>5. CASE BuildFallback
  <2>1. /\ step = "fallback"
        /\ \/ step' = "startFallback"
           \/ step' = "abort"
        /\ UNCHANGED <<items, fresh, active, status, failures, lost, expired>>
    BY <1>5 DEF BuildFallback
  <2>. QED BY <2>1 DEF CausesFit, ErrorHasCause, AttemptFits, ClientsFit,
          UsersFit, Connected
<1>6. CASE StartFallback
  <2>1. /\ step = "startFallback"
        /\ \/ step' = "initializeFallback"
           \/ step' = "abort"
        /\ UNCHANGED <<items, fresh, active, status, failures, lost, expired>>
    BY <1>6 DEF StartFallback, GivenUp, Shut
  <2>. QED BY <2>1 DEF CausesFit, ErrorHasCause, AttemptFits, ClientsFit,
          UsersFit, Connected
<1>7. CASE InitializeFallback
  <2>1. /\ step = "initializeFallback"
        /\ \/ step' = "detach"
           \/ step' = "abort"
        /\ UNCHANGED <<items, fresh, active, status, failures, lost, expired>>
    BY <1>7 DEF InitializeFallback, GivenUp, Shut, AfterFallback
  <2>. QED BY <2>1 DEF CausesFit, ErrorHasCause, AttemptFits, ClientsFit,
          UsersFit, Connected
<1>8. CASE Detach
  <2>1. /\ step = "detach"
        /\ active' = [active EXCEPT ![fresh] = None]
        /\ step' = "closePrimary"
        /\ UNCHANGED <<items, fresh, status, failures, lost, expired>>
    BY <1>8 DEF Detach
  <2>. QED BY <2>1 DEF CausesFit, ErrorHasCause, AttemptFits, ClientsFit,
          UsersFit, Connected
<1>9. CASE ClosePrimary
  <2>1. /\ step = "closePrimary"
        /\ \/ /\ step' = "attach"
              /\ UNCHANGED active
           \/ /\ active' = [active EXCEPT ![fresh] = "primary"]
              /\ step' = "abort"
        /\ UNCHANGED <<items, fresh, status, failures, lost, expired>>
    BY <1>9 DEF ClosePrimary, Shut
  <2>. QED BY <2>1 DEF CausesFit, ErrorHasCause, AttemptFits, ClientsFit,
          UsersFit, Connected
<1>10. CASE AttachFallback
  <2>1. /\ step = "attach"
        /\ active' = [active EXCEPT ![fresh] = "fallback"]
        /\ step' = "settle"
        /\ UNCHANGED <<items, fresh, status, failures, lost, expired>>
    BY <1>10 DEF AttachFallback
  <2>. QED BY <2>1 DEF CausesFit, ErrorHasCause, AttemptFits, ClientsFit,
          UsersFit, Connected
<1>11. CASE Settle
  <2>1. /\ step = "settle"
        /\ status' = [status EXCEPT ![fresh] = "CONNECTED"]
        /\ step' = "validate"
        /\ UNCHANGED <<items, fresh, active, failures, lost, expired>>
    BY <1>11 DEF Settle
  <2>2. fresh \in Clients
    BY <2>1 DEF AttemptFits, TypeOK
  <2>. QED BY <2>1, <2>2 DEF CausesFit, ErrorHasCause
<1>12. CASE Install
  <2>1. /\ step = "validate" /\ Valid(fresh)
        /\ items' = [items EXCEPT ![target] = fresh]
        /\ fresh' = None
        /\ step' = "idle"
        /\ UNCHANGED <<active, status, failures, lost, expired>>
    BY <1>12 DEF Install
  <2>2. fresh \in Clients /\ target \in Services
    BY <2>1 DEF AttemptFits, TypeOK
  <2>. QED BY <2>1, <2>2 DEF CausesFit, ErrorHasCause
<1>13. CASE Reject
  <2>1. /\ step = "validate"
        /\ status' = [status EXCEPT ![fresh] = "ERROR"]
        /\ step' = "abort"
        /\ UNCHANGED <<items, fresh, active, failures, lost, expired>>
    BY <1>13 DEF Reject
  <2>. QED BY <2>1 DEF CausesFit, ErrorHasCause, AttemptFits, ClientsFit,
          UsersFit, Connected
<1>14. CASE Abort
  <2>1. /\ step = "abort"
        /\ fresh' = None
        /\ step' = "idle"
        /\ UNCHANGED <<items, active, status, failures, lost, expired>>
    BY <1>14 DEF Abort
  <2>. QED BY <2>1 DEF CausesFit, ErrorHasCause, AttemptFits, ClientsFit,
          UsersFit, Connected
<1>15. ASSUME NEW s \in Services, Disconnect(s) PROVE CausesFit' /\ ErrorHasCause'
  <2>1. /\ step = "idle" /\ items[s] # None
        /\ \/ items' = [items EXCEPT ![s] = None]
           \/ UNCHANGED items
        /\ UNCHANGED <<fresh, active, status, failures, lost, expired, step>>
    BY <1>15 DEF Disconnect
  <2>. QED BY <2>1 DEF CausesFit, ErrorHasCause, AttemptFits, ClientsFit,
          UsersFit, Connected
<1>16. ASSUME NEW c \in Clients, NEW x \in Paths, ConnectionLost(c, x)
      PROVE  CausesFit' /\ ErrorHasCause'
  <2>1. /\ lost' = lost \cup {<<c, x>>}
        /\ status' = IF active[c] = x THEN [status EXCEPT ![c] = "ERROR"] ELSE status
        /\ UNCHANGED <<items, fresh, active, failures, expired, step>>
    BY <1>16 DEF ConnectionLost, Hears, LostStatus
  <2>2. \A d \in Clients : status'[d] = "ERROR" =>
            status[d] = "ERROR" \/ <<d, active[d]>> \in lost'
    BY <2>1
  <2>3. step = "validate" => fresh \in Clients
    BY DEF AttemptFits
  <2>. QED BY <2>1, <2>2, <2>3 DEF CausesFit, ErrorHasCause
<1>17. ASSUME NEW u \in Users, NEW s \in Services, NEW k \in {"call", "ping", "list"},
             Asked(u, s, k)
      PROVE  CausesFit' /\ ErrorHasCause'
  <2>1. /\ pc[u] \in {"idle", "returned"} /\ step = "idle"
        /\ UNCHANGED <<items, fresh, active, status, failures, lost, expired, step>>
    BY <1>17 DEF Asked, Get
  <2>. QED BY <2>1 DEF CausesFit, ErrorHasCause, AttemptFits, ClientsFit,
          UsersFit, Connected
<1>18. ASSUME NEW u \in Users,
             Begin(u) \/ Respond(u) \/ End(u) \/ MarkError(u) \/ Read(u) \/
             Leave(u) \/ Locate(u) \/ Miss(u)
      PROVE  CausesFit' /\ ErrorHasCause'
  <2>1. UNCHANGED <<items, fresh, active, status, failures, lost, expired, step>>
    BY <1>18 DEF Begin, Respond, End, MarkError, Read, Leave, Locate,
        Miss
  <2>. QED BY <2>1 DEF CausesFit, ErrorHasCause, AttemptFits, ClientsFit,
          UsersFit, Connected
<1>19. ASSUME NEW u \in Users, MarkSeen(u) PROVE CausesFit' /\ ErrorHasCause'
  <2>1. /\ pc[u] = "mark" /\ fault[u] = "none"
        /\ status' = [status EXCEPT ![subject[u]] = "CONNECTED"]
        /\ failures' = [failures EXCEPT ![subject[u]] = 0]
        /\ UNCHANGED <<items, fresh, active, lost, expired, step>>
    BY <1>19 DEF MarkSeen
  <2>2. subject[u] \in Clients
    BY <2>1 DEF TypeOK, UsersFit
  <2>. QED BY <2>1, <2>2 DEF CausesFit, ErrorHasCause, AttemptFits,
          ClientsFit, UsersFit, Connected
<1>20. ASSUME NEW u \in Users, MarkTerminal(u) PROVE CausesFit' /\ ErrorHasCause'
  <2>1. /\ pc[u] = "mark" /\ fault[u] = "session"
        /\ status' = [status EXCEPT ![subject[u]] = "ERROR"]
        /\ expired' = expired \cup {subject[u]}
        /\ UNCHANGED <<items, fresh, active, failures, lost, step>>
    BY <1>20 DEF MarkTerminal
  <2>2. subject[u] \in Clients
    BY <2>1 DEF TypeOK, UsersFit
  <2>. QED BY <2>1, <2>2 DEF CausesFit, ErrorHasCause, AttemptFits,
          ClientsFit, UsersFit, Connected
<1>21. ASSUME NEW u \in Users, Remove(u) PROVE CausesFit' /\ ErrorHasCause'
  <2>1. /\ pc[u] = "remove" /\ step = "idle"
        /\ \/ /\ items[service[u]] = subject[u]
              /\ items' = [items EXCEPT ![service[u]] = None]
           \/ /\ items[service[u]] # subject[u]
              /\ UNCHANGED items
        /\ UNCHANGED <<fresh, active, status, failures, lost, expired, step>>
    BY <1>21 DEF Remove, IsCurrent
  <2>. QED BY <2>1 DEF CausesFit, ErrorHasCause, AttemptFits, ClientsFit,
          UsersFit, Connected
<1>23. ASSUME NEW u \in Users, Apply(u) PROVE CausesFit' /\ ErrorHasCause'
  <2>1. /\ pc[u] = "apply"
        /\ status' = [status EXCEPT ![subject[u]] = Verdict(reply[u])]
        /\ failures' = [failures EXCEPT ![subject[u]] = reply[u]]
        /\ UNCHANGED <<items, fresh, active, lost, expired, step>>
    BY <1>23 DEF Apply
  <2>2. subject[u] \in Clients /\ (step # "idle" => subject[u] # fresh)
    BY <2>1 DEF TypeOK, UsersFit, AttemptFits
  <2>3. Verdict(reply[u]) = "ERROR" => reply[u] >= Threshold
    BY DEF Verdict
  <2>4. CausesFit'
    BY <2>1, <2>2 DEF CausesFit
  <2>5. ErrorHasCause'
    BY <2>1, <2>2, <2>3 DEF ErrorHasCause
  <2>. QED BY <2>4, <2>5
<1>22. CASE UNCHANGED vars
  <2>1. UNCHANGED <<items, fresh, active, status, failures, lost, expired, step>>
    BY <1>22 DEF vars
  <2>. QED BY <2>1 DEF CausesFit, ErrorHasCause, AttemptFits, ClientsFit,
          UsersFit, Connected
<1>. QED BY <1>1, <1>2, <1>3, <1>4, <1>5, <1>6, <1>7, <1>8, <1>9, <1>10,
            <1>11, <1>12, <1>13, <1>14, <1>15, <1>16, <1>17, <1>18, <1>19,
            <1>20, <1>21, <1>22, <1>23, Requests DEF Next, Connect, Handshake, Serve

\* Every step keeps what the users know.
LEMMA UsersStep ==
    TypeOK /\ AttemptFits /\ ClientsFit /\ UsersFit /\ [Next]_vars => UsersFit'
<1>. SUFFICES ASSUME TypeOK, AttemptFits, ClientsFit, UsersFit, [Next]_vars
            PROVE UsersFit'
  OBVIOUS
<1>. USE DEF registry, attempt, runtime, history, userVars, request,
            Unpublished, Unlock, LockFree
<1>t. /\ items \in [Services -> Clients \cup {None}]
      /\ conf \in [Clients -> Configs \cup {None}]
      /\ target \in Services \cup {None} /\ fresh \in Clients \cup {None}
      /\ pc \in [Users -> {"idle", "begin", "run", "end", "mark", "read", "remove",
                          "returned", "apply"}]
      /\ service \in [Users -> Services \cup {None}]
      /\ subject \in [Users -> Clients \cup {None}]
      /\ kind \in [Users -> {"call", "ping", "list"}] /\ fault \in [Users -> Faults \cup {"absent"}]
  BY DEF TypeOK
<1>. USE <1>t
<1>1. ASSUME NEW s \in Services, NEW c \in Clients,
             NEW f \in Configs, NEW n \in RowFailures, BeginConnect(s, c, f, n)
      PROVE  UsersFit'
  <2>1. /\ step = "idle" /\ conf[c] = None
        /\ items' = [items EXCEPT ![s] = None]
        /\ conf' = [conf EXCEPT ![c] = f]
        /\ UNCHANGED <<expired, pc, service, subject, kind, fault>>
    BY <1>1 DEF BeginConnect
  <2>. QED BY <2>1 DEF AttemptFits, ClientsFit, UsersFit, Connected
<1>2. CASE Build \/ Start \/ Initialize \/ BuildFallback \/ StartFallback \/
           InitializeFallback \/ Detach \/ ClosePrimary \/ AttachFallback \/ Settle \/
           Reject \/ Abort
  <2>1. UNCHANGED <<items, conf, expired, pc, service, subject, kind, fault
                    >>
    BY <1>2 DEF Build, Start, Initialize, BuildFallback, StartFallback,
        InitializeFallback, Detach, ClosePrimary, AttachFallback, Settle,
        Reject, Abort
  <2>. QED BY <2>1 DEF AttemptFits, ClientsFit, UsersFit, Connected
<1>3. CASE Install
  <2>1. /\ step = "validate" /\ Valid(fresh)
        /\ items' = [items EXCEPT ![target] = fresh]
        /\ UNCHANGED <<conf, expired, pc, service, subject, kind, fault>>
    BY <1>3 DEF Install
  <2>2. fresh \in Clients
    BY <2>1 DEF AttemptFits, TypeOK
  <2>. QED BY <2>1, <2>2 DEF AttemptFits, ClientsFit, UsersFit, Connected
<1>4. ASSUME NEW s \in Services, Disconnect(s) PROVE UsersFit'
  <2>1. /\ step = "idle" /\ items[s] # None
        /\ \/ items' = [items EXCEPT ![s] = None]
           \/ UNCHANGED items
        /\ UNCHANGED <<conf, expired, pc, service, subject, kind, fault>>
    BY <1>4 DEF Disconnect
  <2>. QED BY <2>1 DEF AttemptFits, ClientsFit, UsersFit, Connected
<1>5. ASSUME NEW c \in Clients, NEW x \in Paths, ConnectionLost(c, x) PROVE UsersFit'
  <2>1. /\ link[c][x] # "none"
        /\ UNCHANGED <<items, conf, expired, pc, service, subject, kind, fault
                       >>
    BY <1>5 DEF ConnectionLost, Hears, LostStatus
  <2>. QED BY <2>1 DEF AttemptFits, ClientsFit, UsersFit, Connected
<1>6. ASSUME NEW u \in Users, NEW s \in Services, NEW k \in {"call", "ping", "list"},
             Asked(u, s, k)
      PROVE  UsersFit'
  <2>1. /\ pc[u] \in {"idle", "returned"} /\ step = "idle"
        /\ service' = [service EXCEPT ![u] = s]
        /\ kind' = [kind EXCEPT ![u] = k]
        /\ subject' = [subject EXCEPT ![u] = items[s]]
        /\ fault' = [fault EXCEPT ![u] = IF items[s] = None THEN "absent" ELSE "none"]
        /\ pc' = [pc EXCEPT ![u] = CASE items[s] = None -> "returned"
                                      [] items[s] # None /\ k \in Interactions -> "begin"
                                      [] OTHER -> "run"]
        /\ UNCHANGED <<items, conf, expired>>
    BY <1>6 DEF Asked, Get
  <2>2. items[s] # None => /\ items[s] \in Clients /\ conf[items[s]] # None
                            /\ \A t \in Services : items[t] = items[s] => t = s
    BY DEF ClientsFit, Connected
  <2>. QED BY <2>1, <2>2 DEF UsersFit
<1>7. ASSUME NEW u \in Users, Begin(u) PROVE UsersFit'
  <2>1. /\ pc[u] = "begin"
        /\ pc' = [pc EXCEPT ![u] = "run"]
        /\ UNCHANGED <<items, conf, expired, service, subject, kind, fault>>
    BY <1>7 DEF Begin
  <2>. QED BY <2>1 DEF AttemptFits, ClientsFit, UsersFit, Connected
<1>8. ASSUME NEW u \in Users, Respond(u) PROVE UsersFit'
  <2>1. /\ pc[u] = "run"
        /\ \E e \in Faults : /\ fault' = [fault EXCEPT ![u] = e]
                             /\ pc' = [pc EXCEPT ![u] = AfterRun(u, e)]
        /\ UNCHANGED <<items, conf, expired, service, subject, kind>>
    BY <1>8 DEF Respond
  <2>. QED BY <2>1 DEF UsersFit, AfterRun
<1>9. ASSUME NEW u \in Users, End(u) PROVE UsersFit'
  <2>1. /\ pc[u] = "end"
        /\ pc' = [pc EXCEPT ![u] = "mark"]
        /\ UNCHANGED <<items, conf, expired, service, subject, kind, fault>>
    BY <1>9 DEF End
  <2>. QED BY <2>1 DEF AttemptFits, ClientsFit, UsersFit, Connected
<1>10. ASSUME NEW u \in Users, MarkSeen(u) PROVE UsersFit'
  <2>1. /\ pc[u] = "mark" /\ fault[u] = "none"
        /\ pc' = [pc EXCEPT ![u] = "read"]
        /\ UNCHANGED <<items, conf, expired, service, subject, kind, fault>>
    BY <1>10 DEF MarkSeen
  <2>. QED BY <2>1 DEF AttemptFits, ClientsFit, UsersFit, Connected
<1>11. ASSUME NEW u \in Users, MarkError(u) PROVE UsersFit'
  <2>1. /\ pc[u] = "mark" /\ fault[u] \in {"plain", "unsupported"}
        /\ pc' = [pc EXCEPT ![u] = "read"]
        /\ UNCHANGED <<items, conf, expired, service, subject, kind, fault>>
    BY <1>11 DEF MarkError
  <2>. QED BY <2>1 DEF AttemptFits, ClientsFit, UsersFit, Connected
<1>12. ASSUME NEW u \in Users, Read(u) PROVE UsersFit'
  <2>1. /\ pc[u] = "read"
        /\ pc' = [pc EXCEPT ![u] = "returned"]
        /\ UNCHANGED <<items, conf, expired, service, subject, kind, fault>>
    BY <1>12 DEF Read
  <2>. QED BY <2>1 DEF AttemptFits, ClientsFit, UsersFit, Connected
<1>13. ASSUME NEW u \in Users, MarkTerminal(u) PROVE UsersFit'
  <2>1. /\ pc[u] = "mark" /\ fault[u] = "session"
        /\ expired' = expired \cup {subject[u]}
        /\ pc' = [pc EXCEPT ![u] = "remove"]
        /\ UNCHANGED <<items, conf, service, subject, kind, fault>>
    BY <1>13 DEF MarkTerminal
  <2>. QED BY <2>1 DEF AttemptFits, ClientsFit, UsersFit, Connected
<1>14. ASSUME NEW u \in Users, Remove(u) PROVE UsersFit'
  <2>1. /\ pc[u] = "remove" /\ step = "idle"
        /\ pc' = [pc EXCEPT ![u] = "returned"]
        /\ \/ /\ items[service[u]] = subject[u]
              /\ items' = [items EXCEPT ![service[u]] = None]
           \/ /\ items[service[u]] # subject[u]
              /\ UNCHANGED items
        /\ UNCHANGED <<conf, expired, service, subject, kind, fault>>
    BY <1>14 DEF Remove, IsCurrent
  <2>. QED BY <2>1 DEF AttemptFits, ClientsFit, UsersFit, Connected
<1>15. ASSUME NEW u \in Users, Leave(u) \/ Miss(u) \/ Apply(u) PROVE UsersFit'
  <2>1. /\ pc' = [pc EXCEPT ![u] = "idle"]
        /\ service' = [service EXCEPT ![u] = None]
        /\ subject' = [subject EXCEPT ![u] = None]
        /\ kind' = [kind EXCEPT ![u] = "call"]
        /\ fault' = [fault EXCEPT ![u] = "none"]
        /\ UNCHANGED <<items, conf, expired>>
    BY <1>15 DEF Leave, Miss, Apply, Rest
  <2>. QED BY <2>1 DEF AttemptFits, ClientsFit, UsersFit, Connected
<1>17. ASSUME NEW u \in Users, Locate(u) PROVE UsersFit'
  <2>1. /\ pc[u] = "returned" /\ items[service[u]] # None
        /\ subject' = [subject EXCEPT ![u] = items[service[u]]]
        /\ pc' = [pc EXCEPT ![u] = "apply"]
        /\ UNCHANGED <<items, conf, expired, service, kind, fault>>
    BY <1>17 DEF Locate
  <2>2. service[u] \in Services
    BY <2>1 DEF UsersFit
  <2>3. /\ items[service[u]] \in Clients /\ conf[items[service[u]]] # None
        /\ \A t \in Services : items[t] = items[service[u]] => t = service[u]
    BY <2>1, <2>2 DEF ClientsFit, Connected
  <2>. QED BY <2>1, <2>2, <2>3 DEF UsersFit
<1>16. CASE UNCHANGED vars
  <2>1. UNCHANGED <<items, conf, expired, pc, service, subject, kind, fault
                       >>
    BY <1>16 DEF vars
  <2>. QED BY <2>1 DEF AttemptFits, ClientsFit, UsersFit, Connected
<1>. QED BY <1>1, <1>2, <1>3, <1>4, <1>5, <1>6, <1>7, <1>8, <1>9, <1>10,
            <1>11, <1>12, <1>13, <1>14, <1>15, <1>16, <1>17, Requests
            DEF Next, Connect, Handshake, Serve

\* Every step keeps the expired clients out.
LEMMA ExpiredStep ==
    TypeOK /\ AttemptFits /\ UsersFit /\ ExpiredIsRemoved /\ [Next]_vars
        => ExpiredIsRemoved'
<1>. SUFFICES ASSUME TypeOK, AttemptFits, UsersFit, ExpiredIsRemoved,
            [Next]_vars PROVE ExpiredIsRemoved'
  OBVIOUS
<1>. USE DEF registry, attempt, runtime, history, userVars, request,
            Unpublished, Unlock, LockFree
<1>t. /\ items \in [Services -> Clients \cup {None}]
      /\ conf \in [Clients -> Configs \cup {None}]
      /\ target \in Services \cup {None} /\ fresh \in Clients \cup {None}
      /\ pc \in [Users -> {"idle", "begin", "run", "end", "mark", "read", "remove",
                          "returned", "apply"}]
      /\ service \in [Users -> Services \cup {None}]
      /\ subject \in [Users -> Clients \cup {None}]
      /\ kind \in [Users -> {"call", "ping", "list"}] /\ fault \in [Users -> Faults \cup {"absent"}]
  BY DEF TypeOK
<1>. USE <1>t
<1>1. ASSUME NEW s \in Services, NEW c \in Clients,
             NEW f \in Configs, NEW n \in RowFailures, BeginConnect(s, c, f, n)
      PROVE  ExpiredIsRemoved'
  <2>1. /\ step = "idle" /\ conf[c] = None
        /\ items' = [items EXCEPT ![s] = None]
        /\ UNCHANGED <<pc, subject, fault>>
    BY <1>1 DEF BeginConnect
  <2>. QED BY <2>1 DEF AttemptFits, UsersFit, ExpiredIsRemoved, Connected
<1>2. CASE Build \/ Start \/ Initialize \/ BuildFallback \/ StartFallback \/
           InitializeFallback \/ Detach \/ ClosePrimary \/ AttachFallback \/ Settle \/
           Reject \/ Abort
  <2>1. UNCHANGED <<items, pc, subject, fault>>
    BY <1>2 DEF Build, Start, Initialize, BuildFallback, StartFallback,
        InitializeFallback, Detach, ClosePrimary, AttachFallback, Settle,
        Reject, Abort
  <2>. QED BY <2>1 DEF AttemptFits, UsersFit, ExpiredIsRemoved, Connected
<1>3. CASE Install
  <2>1. /\ step = "validate" /\ Valid(fresh)
        /\ items' = [items EXCEPT ![target] = fresh]
        /\ UNCHANGED <<pc, subject, fault>>
    BY <1>3 DEF Install
  <2>. QED BY <2>1 DEF AttemptFits, UsersFit, ExpiredIsRemoved, Connected
<1>4. ASSUME NEW s \in Services, Disconnect(s) PROVE ExpiredIsRemoved'
  <2>1. /\ step = "idle" /\ items[s] # None
        /\ \/ items' = [items EXCEPT ![s] = None]
           \/ UNCHANGED items
        /\ UNCHANGED <<pc, subject, fault>>
    BY <1>4 DEF Disconnect
  <2>. QED BY <2>1 DEF AttemptFits, UsersFit, ExpiredIsRemoved, Connected
<1>5. ASSUME NEW c \in Clients, NEW x \in Paths, ConnectionLost(c, x)
      PROVE  ExpiredIsRemoved'
  <2>1. /\ link[c][x] # "none"
        /\ UNCHANGED <<items, pc, subject, fault>>
    BY <1>5 DEF ConnectionLost, Hears, LostStatus
  <2>. QED BY <2>1 DEF AttemptFits, UsersFit, ExpiredIsRemoved, Connected
<1>6. ASSUME NEW u \in Users, NEW s \in Services, NEW k \in {"call", "ping", "list"},
             Asked(u, s, k)
      PROVE  ExpiredIsRemoved'
  <2>1. /\ pc[u] \in {"idle", "returned"} /\ step = "idle"
        /\ subject' = [subject EXCEPT ![u] = items[s]]
        /\ fault' = [fault EXCEPT ![u] = IF items[s] = None THEN "absent" ELSE "none"]
        /\ pc' = [pc EXCEPT ![u] = CASE items[s] = None -> "returned"
                                      [] items[s] # None /\ k \in Interactions -> "begin"
                                      [] OTHER -> "run"]
        /\ UNCHANGED items
    BY <1>6 DEF Asked, Get
  <2>. QED BY <2>1 DEF AttemptFits, UsersFit, ExpiredIsRemoved, Connected
<1>7. ASSUME NEW u \in Users, Begin(u) PROVE ExpiredIsRemoved'
  <2>1. /\ pc[u] = "begin"
        /\ pc' = [pc EXCEPT ![u] = "run"]
        /\ UNCHANGED <<items, subject, fault>>
    BY <1>7 DEF Begin
  <2>. QED BY <2>1 DEF AttemptFits, UsersFit, ExpiredIsRemoved, Connected
<1>8. ASSUME NEW u \in Users, Respond(u) PROVE ExpiredIsRemoved'
  <2>1. /\ pc[u] = "run"
        /\ \E e \in Faults : /\ fault' = [fault EXCEPT ![u] = e]
                             /\ pc' = [pc EXCEPT ![u] = AfterRun(u, e)]
        /\ UNCHANGED <<items, subject>>
    BY <1>8 DEF Respond
  <2>. QED BY <2>1 DEF ExpiredIsRemoved, Connected, AfterRun
<1>9. ASSUME NEW u \in Users, End(u) PROVE ExpiredIsRemoved'
  <2>1. /\ pc[u] = "end"
        /\ pc' = [pc EXCEPT ![u] = "mark"]
        /\ UNCHANGED <<items, subject, fault>>
    BY <1>9 DEF End
  <2>. QED BY <2>1 DEF AttemptFits, UsersFit, ExpiredIsRemoved, Connected
<1>10. ASSUME NEW u \in Users, MarkSeen(u) PROVE ExpiredIsRemoved'
  <2>1. /\ pc[u] = "mark" /\ fault[u] = "none"
        /\ pc' = [pc EXCEPT ![u] = "read"]
        /\ UNCHANGED <<items, subject, fault>>
    BY <1>10 DEF MarkSeen
  <2>. QED BY <2>1 DEF AttemptFits, UsersFit, ExpiredIsRemoved, Connected
<1>11. ASSUME NEW u \in Users, MarkError(u) PROVE ExpiredIsRemoved'
  <2>1. /\ pc[u] = "mark" /\ fault[u] \in {"plain", "unsupported"}
        /\ pc' = [pc EXCEPT ![u] = "read"]
        /\ UNCHANGED <<items, subject, fault>>
    BY <1>11 DEF MarkError
  <2>. QED BY <2>1 DEF AttemptFits, UsersFit, ExpiredIsRemoved, Connected
<1>12. ASSUME NEW u \in Users, Read(u) PROVE ExpiredIsRemoved'
  <2>1. /\ pc[u] = "read"
        /\ pc' = [pc EXCEPT ![u] = "returned"]
        /\ UNCHANGED <<items, subject, fault>>
    BY <1>12 DEF Read
  <2>. QED BY <2>1 DEF AttemptFits, UsersFit, ExpiredIsRemoved, Connected
<1>13. ASSUME NEW u \in Users, MarkTerminal(u) PROVE ExpiredIsRemoved'
  <2>1. /\ pc[u] = "mark" /\ fault[u] = "session"
        /\ pc' = [pc EXCEPT ![u] = "remove"]
        /\ UNCHANGED <<items, subject, fault>>
    BY <1>13 DEF MarkTerminal
  <2>. QED BY <2>1 DEF AttemptFits, UsersFit, ExpiredIsRemoved, Connected
<1>14. ASSUME NEW u \in Users, Remove(u) PROVE ExpiredIsRemoved'
  <2>1. /\ pc[u] = "remove" /\ step = "idle"
        /\ pc' = [pc EXCEPT ![u] = "returned"]
        /\ \/ /\ items[service[u]] = subject[u]
              /\ items' = [items EXCEPT ![service[u]] = None]
           \/ /\ items[service[u]] # subject[u]
              /\ UNCHANGED items
        /\ UNCHANGED <<subject, fault>>
    BY <1>14 DEF Remove, IsCurrent
  <2>. QED BY <2>1 DEF AttemptFits, UsersFit, ExpiredIsRemoved, Connected
<1>15. ASSUME NEW u \in Users, Leave(u) \/ Miss(u) \/ Apply(u) PROVE ExpiredIsRemoved'
  <2>1. /\ pc' = [pc EXCEPT ![u] = "idle"]
        /\ subject' = [subject EXCEPT ![u] = None]
        /\ fault' = [fault EXCEPT ![u] = "none"]
        /\ UNCHANGED items
    BY <1>15 DEF Leave, Miss, Apply, Rest
  <2>. QED BY <2>1 DEF AttemptFits, UsersFit, ExpiredIsRemoved, Connected
<1>17. ASSUME NEW u \in Users, Locate(u) PROVE ExpiredIsRemoved'
  <2>1. /\ subject' = [subject EXCEPT ![u] = items[service[u]]]
        /\ pc' = [pc EXCEPT ![u] = "apply"]
        /\ UNCHANGED <<items, fault>>
    BY <1>17 DEF Locate
  <2>. QED BY <2>1 DEF ExpiredIsRemoved, Connected
<1>16. CASE UNCHANGED vars
  <2>1. UNCHANGED <<items, pc, subject, fault>>
    BY <1>16 DEF vars
  <2>. QED BY <2>1 DEF AttemptFits, UsersFit, ExpiredIsRemoved, Connected
<1>. QED BY <1>1, <1>2, <1>3, <1>4, <1>5, <1>6, <1>7, <1>8, <1>9, <1>10,
            <1>11, <1>12, <1>13, <1>14, <1>15, <1>16, <1>17, Requests
            DEF Next, Connect, Handshake, Serve

-----------------------------------------------------------------------------
(* The calls in flight.                                                    *)

Calls(c) == {u \in Users : /\ subject[u] = c /\ kind[u] \in Interactions
                           /\ pc[u] \in {"run", "end"}}

\* One request more or less changes the number of requests by one.
LEMMA OneMoreCall ==
    ASSUME NEW S \in SUBSET Users, NEW u \in Users
    PROVE  /\ Cardinality(S) \in Nat
           /\ u \notin S => Cardinality(S \cup {u}) = Cardinality(S) + 1
           /\ u \in S => Cardinality(S) > 0 /\ Cardinality(S \ {u}) = Cardinality(S) - 1
<1>1. IsFiniteSet(S) BY FS_Subset
<1>2. Cardinality(S) \in Nat BY <1>1, FS_CardinalityType
<1>3. u \notin S => Cardinality(S \cup {u}) = Cardinality(S) + 1
  BY <1>1, FS_AddElement
<1>4. u \in S => Cardinality(S \ {u}) = Cardinality(S) - 1
  BY <1>1, FS_RemoveElement
<1>5. u \in S => Cardinality(S) # 0 BY <1>1, FS_EmptySet
<1>. QED BY <1>2, <1>3, <1>4, <1>5

\* Every step keeps the calls in flight.
LEMMA CountsStep ==
    TypeOK /\ UsersFit /\ InFlightCounts /\ [Next]_vars => InFlightCounts'
<1>. SUFFICES ASSUME TypeOK, UsersFit, InFlightCounts, [Next]_vars
            PROVE InFlightCounts'
  OBVIOUS
<1>. USE DEF registry, attempt, runtime, history, userVars, request,
            Unpublished, Unlock, LockFree
<1>t. /\ items \in [Services -> Clients \cup {None}]
      /\ conf \in [Clients -> Configs \cup {None}]
      /\ target \in Services \cup {None} /\ fresh \in Clients \cup {None}
      /\ pc \in [Users -> {"idle", "begin", "run", "end", "mark", "read", "remove",
                          "returned", "apply"}]
      /\ service \in [Users -> Services \cup {None}]
      /\ subject \in [Users -> Clients \cup {None}]
      /\ kind \in [Users -> {"call", "ping", "list"}] /\ fault \in [Users -> Faults \cup {"absent"}]
      /\ inFlight \in [Clients -> Nat]
  BY DEF TypeOK
<1>. USE <1>t
<1>c. \A c \in Clients : inFlight[c] = Cardinality(Calls(c)) BY DEF InFlightCounts, Calls
<1>1. ASSUME NEW s \in Services, NEW c \in Clients,
             NEW f \in Configs, NEW n \in RowFailures, BeginConnect(s, c, f, n)
      PROVE  InFlightCounts'
  <2>1. /\ step = "idle" /\ conf[c] = None
        /\ UNCHANGED <<inFlight, subject, kind, pc>>
    BY <1>1 DEF BeginConnect
  <2>. QED BY <2>1 DEF InFlightCounts, Calls
<1>2. CASE Build \/ Start \/ Initialize \/ BuildFallback \/ StartFallback \/
           InitializeFallback \/ Detach \/ ClosePrimary \/ AttachFallback \/ Settle \/
           Install \/ Reject \/ Abort
  <2>1. UNCHANGED <<inFlight, subject, kind, pc>>
    BY <1>2 DEF Build, Start, Initialize, BuildFallback, StartFallback,
        InitializeFallback, Detach, ClosePrimary, AttachFallback, Settle,
        Install, Reject, Abort
  <2>. QED BY <2>1 DEF InFlightCounts, Calls
<1>3. ASSUME NEW s \in Services, Disconnect(s) PROVE InFlightCounts'
  <2>1. /\ step = "idle" /\ items[s] # None
        /\ UNCHANGED <<inFlight, subject, kind, pc>>
    BY <1>3 DEF Disconnect
  <2>. QED BY <2>1 DEF InFlightCounts, Calls
<1>4. ASSUME NEW c \in Clients, NEW x \in Paths, ConnectionLost(c, x)
      PROVE  InFlightCounts'
  <2>1. /\ link[c][x] # "none"
        /\ UNCHANGED <<inFlight, subject, kind, pc>>
    BY <1>4 DEF ConnectionLost, Hears, LostStatus
  <2>. QED BY <2>1 DEF InFlightCounts, Calls
<1>5. ASSUME NEW u \in Users, NEW s \in Services, NEW k \in {"call", "ping", "list"},
             Asked(u, s, k)
      PROVE  InFlightCounts'
  <2>1. /\ pc[u] \in {"idle", "returned"} /\ step = "idle"
        /\ kind' = [kind EXCEPT ![u] = k]
        /\ subject' = [subject EXCEPT ![u] = items[s]]
        /\ pc' = [pc EXCEPT ![u] = CASE items[s] = None -> "returned"
                                      [] items[s] # None /\ k \in Interactions -> "begin"
                                      [] OTHER -> "run"]
        /\ UNCHANGED inFlight
    BY <1>5 DEF Asked, Get
  <2>2. \A d \in Clients : Calls(d)' = Calls(d)
    BY <2>1 DEF Calls
  <2>. QED BY <2>1, <2>2, <1>c DEF InFlightCounts, Calls
<1>6. ASSUME NEW u \in Users, Begin(u) PROVE InFlightCounts'
  <2>1. /\ pc[u] = "begin"
        /\ inFlight' = [inFlight EXCEPT ![subject[u]] = @ + 1]
        /\ pc' = [pc EXCEPT ![u] = "run"]
        /\ UNCHANGED <<subject, kind>>
    BY <1>6 DEF Begin
  <2>2. subject[u] \in Clients /\ kind[u] \in Interactions
    BY <2>1 DEF UsersFit
  <2>3. \A d \in Clients \ {subject[u]} : Calls(d)' = Calls(d)
    BY <2>1 DEF Calls
  <2>4. u \notin Calls(subject[u]) /\ Calls(subject[u])' = Calls(subject[u]) \cup {u}
    BY <2>1, <2>2 DEF Calls
  <2>. DEFINE S == Calls(subject[u])
  <2>5. S \in SUBSET Users BY DEF Calls
  <2>. HIDE DEF S
  <2>6. Cardinality(S \cup {u}) = Cardinality(S) + 1
    BY <2>4, <2>5, OneMoreCall DEF S
  <2>7. inFlight'[subject[u]] = Cardinality(Calls(subject[u])')
    BY <2>1, <2>2, <2>4, <2>6, <1>c DEF S
  <2>8. \A d \in Clients : inFlight'[d] = Cardinality(Calls(d)')
    BY <2>1, <2>2, <2>3, <2>7, <1>c
  <2>. QED BY <2>1, <2>8 DEF InFlightCounts, Calls
<1>7. ASSUME NEW u \in Users, Respond(u) PROVE InFlightCounts'
  <2>1. /\ pc[u] = "run"
        /\ \E e \in Faults : pc' = [pc EXCEPT ![u] = AfterRun(u, e)]
        /\ UNCHANGED <<inFlight, subject, kind>>
    BY <1>7 DEF Respond
  <2>2. \A d \in Clients : Calls(d)' = Calls(d)
    BY <2>1 DEF Calls, AfterRun
  <2>. QED BY <2>1, <2>2, <1>c DEF InFlightCounts, Calls
<1>8. ASSUME NEW u \in Users, End(u) PROVE InFlightCounts'
  <2>1. /\ pc[u] = "end"
        /\ inFlight' = [inFlight EXCEPT ![subject[u]] = IF @ > 0 THEN @ - 1 ELSE @]
        /\ pc' = [pc EXCEPT ![u] = "mark"]
        /\ UNCHANGED <<subject, kind>>
    BY <1>8 DEF End
  <2>2. subject[u] \in Clients /\ kind[u] \in Interactions
    BY <2>1 DEF UsersFit
  <2>3. \A d \in Clients \ {subject[u]} : Calls(d)' = Calls(d)
    BY <2>1 DEF Calls
  <2>4. u \in Calls(subject[u]) /\ Calls(subject[u])' = Calls(subject[u]) \ {u}
    BY <2>1, <2>2 DEF Calls
  <2>. DEFINE S == Calls(subject[u])
  <2>5. S \in SUBSET Users BY DEF Calls
  <2>. HIDE DEF S
  <2>6. Cardinality(S) > 0 /\ Cardinality(S \ {u}) = Cardinality(S) - 1
    BY <2>4, <2>5, OneMoreCall DEF S
  <2>7. inFlight'[subject[u]] = Cardinality(Calls(subject[u])')
    BY <2>1, <2>2, <2>4, <2>6, <1>c DEF S
  <2>8. \A d \in Clients : inFlight'[d] = Cardinality(Calls(d)')
    BY <2>1, <2>2, <2>3, <2>7, <1>c
  <2>. QED BY <2>1, <2>8 DEF InFlightCounts, Calls
<1>9. ASSUME NEW u \in Users, MarkSeen(u) PROVE InFlightCounts'
  <2>1. /\ pc[u] = "mark" /\ fault[u] = "none"
        /\ pc' = [pc EXCEPT ![u] = "read"]
        /\ UNCHANGED <<inFlight, subject, kind>>
    BY <1>9 DEF MarkSeen
  <2>2. \A d \in Clients : Calls(d)' = Calls(d)
    BY <2>1 DEF Calls
  <2>. QED BY <2>1, <2>2, <1>c DEF InFlightCounts, Calls
<1>10. ASSUME NEW u \in Users, MarkError(u) PROVE InFlightCounts'
  <2>1. /\ pc[u] = "mark" /\ fault[u] \in {"plain", "unsupported"}
        /\ pc' = [pc EXCEPT ![u] = "read"]
        /\ UNCHANGED <<inFlight, subject, kind>>
    BY <1>10 DEF MarkError
  <2>2. \A d \in Clients : Calls(d)' = Calls(d)
    BY <2>1 DEF Calls
  <2>. QED BY <2>1, <2>2, <1>c DEF InFlightCounts, Calls
<1>11. ASSUME NEW u \in Users, Read(u) PROVE InFlightCounts'
  <2>1. /\ pc[u] = "read"
        /\ pc' = [pc EXCEPT ![u] = "returned"]
        /\ UNCHANGED <<inFlight, subject, kind>>
    BY <1>11 DEF Read
  <2>2. \A d \in Clients : Calls(d)' = Calls(d)
    BY <2>1 DEF Calls
  <2>. QED BY <2>1, <2>2, <1>c DEF InFlightCounts, Calls
<1>12. ASSUME NEW u \in Users, MarkTerminal(u) PROVE InFlightCounts'
  <2>1. /\ pc[u] = "mark" /\ fault[u] = "session"
        /\ pc' = [pc EXCEPT ![u] = "remove"]
        /\ UNCHANGED <<inFlight, subject, kind>>
    BY <1>12 DEF MarkTerminal
  <2>2. \A d \in Clients : Calls(d)' = Calls(d)
    BY <2>1 DEF Calls
  <2>. QED BY <2>1, <2>2, <1>c DEF InFlightCounts, Calls
<1>13. ASSUME NEW u \in Users, Remove(u) PROVE InFlightCounts'
  <2>1. /\ pc[u] = "remove" /\ step = "idle"
        /\ pc' = [pc EXCEPT ![u] = "returned"]
        /\ UNCHANGED <<inFlight, subject, kind>>
    BY <1>13 DEF Remove, IsCurrent
  <2>2. \A d \in Clients : Calls(d)' = Calls(d)
    BY <2>1 DEF Calls
  <2>. QED BY <2>1, <2>2, <1>c DEF InFlightCounts, Calls
<1>14. ASSUME NEW u \in Users, Leave(u) \/ Miss(u) \/ Apply(u) PROVE InFlightCounts'
  <2>1. /\ pc[u] \in {"returned", "apply"}
        /\ subject' = [subject EXCEPT ![u] = None]
        /\ kind' = [kind EXCEPT ![u] = "call"]
        /\ pc' = [pc EXCEPT ![u] = "idle"]
        /\ UNCHANGED inFlight
    BY <1>14 DEF Leave, Miss, Apply, Rest
  <2>2. \A d \in Clients : Calls(d)' = Calls(d)
    BY <2>1 DEF Calls
  <2>. QED BY <2>1, <2>2, <1>c DEF InFlightCounts, Calls
<1>16. ASSUME NEW u \in Users, Locate(u) PROVE InFlightCounts'
  <2>1. /\ pc[u] = "returned"
        /\ subject' = [subject EXCEPT ![u] = items[service[u]]]
        /\ pc' = [pc EXCEPT ![u] = "apply"]
        /\ UNCHANGED <<inFlight, kind>>
    BY <1>16 DEF Locate
  <2>2. \A d \in Clients : Calls(d)' = Calls(d)
    BY <2>1 DEF Calls
  <2>. QED BY <2>1, <2>2, <1>c DEF InFlightCounts, Calls
<1>15. CASE UNCHANGED vars
  <2>1. UNCHANGED <<inFlight, subject, kind, pc>>
    BY <1>15 DEF vars
  <2>2. \A d \in Clients : Calls(d)' = Calls(d)
    BY <2>1 DEF Calls
  <2>. QED BY <2>1, <2>2, <1>c DEF InFlightCounts, Calls
<1>. QED BY <1>1, <1>2, <1>3, <1>4, <1>5, <1>6, <1>7, <1>8, <1>9, <1>10,
            <1>11, <1>12, <1>13, <1>14, <1>15, <1>16, Requests
            DEF Next, Connect, Handshake, Serve

-----------------------------------------------------------------------------
(* The invariant.                                                          *)

\* The initial states fit the invariant.
LEMMA InitInvariant == Init => IInv
<1>. SUFFICES ASSUME Init PROVE IInv
  OBVIOUS
<1>1. TypeOK BY DEF Init, TypeOK, Statuses, Faults, Paths
<1>2. AttemptFits /\ CausesFit BY DEF Init, AttemptFits, CausesFit
<1>3. ClientsFit BY DEF Init, ClientsFit, Connected
<1>4. UsersFit BY DEF Init, UsersFit
<1>5. TransportsAreOwned BY DEF Init, TransportsAreOwned
<1>6. ErrorHasCause BY DEF Init, ErrorHasCause
<1>7. InFlightCounts
  <2>1. ASSUME NEW c \in Clients PROVE Calls(c) = {}
    BY DEF Init, Calls
  <2>2. \A c \in Clients : inFlight[c] = Cardinality(Calls(c))
    BY <2>1, FS_EmptySet DEF Init
  <2>. QED BY <2>2 DEF InFlightCounts, Calls
<1>8. ExpiredIsRemoved BY DEF Init, ExpiredIsRemoved
<1>. QED BY <1>1, <1>2, <1>3, <1>4, <1>5, <1>6, <1>7, <1>8 DEF IInv

\* Every step keeps the invariant.
LEMMA NextInvariant == IInv /\ [Next]_vars => IInv'
BY TypeStep, AttemptStep, ClientsStep, OwnedStep, CauseStep, UsersStep,
   ExpiredStep, CountsStep DEF IInv

\* The invariant the theorems below rest on.
THEOREM Invariant == Spec => []IInv
BY InitInvariant, NextInvariant, PTL DEF Spec

\* The state of the manager, of its clients and of the users has its types.
THEOREM TypeCorrect == Spec => []TypeOK
<1>1. IInv => TypeOK BY DEF IInv
<1>. QED BY <1>1, Invariant, PTL

\* On every path of Connect with its fallback (newManagedClient), of Disconnect
\* and of handleClientError, an open transport has an owner.
THEOREM NoTransportLeaks == Spec => []TransportsAreOwned
<1>1. IInv => TransportsAreOwned BY DEF IInv
<1>. QED BY <1>1, Invariant, PTL

\* OnConnectionLost, markTerminalError and applyHealthState put a service's
\* client into ERROR only for its own transport, its own session, or a count of
\* failed checks that has reached the threshold and that it carries.
THEOREM ErrorsAreItsOwn == Spec => []ErrorHasCause
<1>1. IInv => ErrorHasCause BY DEF IInv
<1>. QED BY <1>1, Invariant, PTL

\* beginInteraction and endInteraction keep InFlight right, for any number of
\* concurrent calls, and for clients that are replaced under them.
THEOREM CallsAreCounted == Spec => []InFlightCounts
<1>1. IInv => InFlightCounts BY DEF IInv
<1>. QED BY <1>1, Invariant, PTL

\* When handleClientError has returned, the client with the session error is
\* out of items, and it never comes back.
THEOREM ExpiredIsGone == Spec => []ExpiredIsRemoved
<1>1. IInv => ExpiredIsRemoved BY DEF IInv
<1>. QED BY <1>1, Invariant, PTL

-----------------------------------------------------------------------------
(* Who may take a client away.                                             *)

\* A step that takes away a client has one of the three reasons.
LEMMA LeavesStep ==
    TypeOK /\ AttemptFits /\ UsersFit /\ [Next]_vars => LeavesForAReason
<1>. SUFFICES ASSUME TypeOK, AttemptFits, UsersFit, [Next]_vars
            PROVE LeavesForAReason
  OBVIOUS
<1>. USE DEF registry, attempt, runtime, history, userVars, request,
            Unpublished, Unlock, LockFree
<1>t. items \in [Services -> Clients \cup {None}]
  BY DEF TypeOK
<1>. USE <1>t
<1>1. ASSUME NEW s \in Services, NEW c \in Clients,
             NEW f \in Configs, NEW n \in RowFailures, BeginConnect(s, c, f, n)
      PROVE  LeavesForAReason
  <2>1. /\ step = "idle" /\ conf[c] = None
        /\ items' = [items EXCEPT ![s] = None]
        /\ step' = "build"
        /\ target' = s
    BY <1>1 DEF BeginConnect
  <2>. QED BY <2>1 DEF LeavesForAReason
<1>2. CASE Build
  <2>1. /\ step = "build"
        /\ \/ /\ step' = "start"
              /\ UNCHANGED target
           \/ /\ step' = "idle"
              /\ target' = None
        /\ UNCHANGED items
    BY <1>2 DEF Build
  <2>. QED BY <2>1 DEF LeavesForAReason
<1>3. CASE Start
  <2>1. /\ step = "start"
        /\ step' \in {"initialize", "abort"}
        /\ UNCHANGED <<items, target>>
    BY <1>3 DEF Start
  <2>. QED BY <2>1 DEF LeavesForAReason
<1>4. CASE Initialize
  <2>1. /\ step = "initialize"
        /\ \/ step' = "settle"
           \/ step' \in {"fallback", "abort"}
        /\ UNCHANGED <<items, target>>
    BY <1>4 DEF Initialize
  <2>. QED BY <2>1 DEF LeavesForAReason
<1>5. CASE BuildFallback
  <2>1. /\ step = "fallback"
        /\ \/ step' = "startFallback"
           \/ step' = "abort"
        /\ UNCHANGED <<items, target>>
    BY <1>5 DEF BuildFallback
  <2>. QED BY <2>1 DEF LeavesForAReason
<1>6. CASE StartFallback
  <2>1. /\ step = "startFallback"
        /\ \/ step' = "initializeFallback"
           \/ step' = "abort"
        /\ UNCHANGED <<items, target>>
    BY <1>6 DEF StartFallback, GivenUp, Shut
  <2>. QED BY <2>1 DEF LeavesForAReason
<1>7. CASE InitializeFallback
  <2>1. /\ step = "initializeFallback"
        /\ \/ step' = "detach"
           \/ step' = "abort"
        /\ UNCHANGED <<items, target>>
    BY <1>7 DEF InitializeFallback, GivenUp, Shut, AfterFallback
  <2>. QED BY <2>1 DEF LeavesForAReason
<1>8. CASE Detach
  <2>1. /\ step = "detach"
        /\ step' = "closePrimary"
        /\ UNCHANGED <<items, target>>
    BY <1>8 DEF Detach
  <2>. QED BY <2>1 DEF LeavesForAReason
<1>9. CASE ClosePrimary
  <2>1. /\ step = "closePrimary"
        /\ \/ step' = "attach"
           \/ step' = "abort"
        /\ UNCHANGED <<items, target>>
    BY <1>9 DEF ClosePrimary, Shut
  <2>. QED BY <2>1 DEF LeavesForAReason
<1>10. CASE AttachFallback
  <2>1. /\ step = "attach"
        /\ step' = "settle"
        /\ UNCHANGED <<items, target>>
    BY <1>10 DEF AttachFallback
  <2>. QED BY <2>1 DEF LeavesForAReason
<1>11. CASE Settle
  <2>1. /\ step = "settle"
        /\ step' = "validate"
        /\ UNCHANGED <<items, target>>
    BY <1>11 DEF Settle
  <2>. QED BY <2>1 DEF LeavesForAReason
<1>12. CASE Install
  <2>1. /\ step = "validate" /\ Valid(fresh)
        /\ items' = [items EXCEPT ![target] = fresh]
        /\ step' = "idle"
        /\ target' = None
    BY <1>12 DEF Install
  <2>2. target \in Services /\ items[target] = None
    BY <2>1 DEF AttemptFits, TypeOK
  <2>. QED BY <2>1, <2>2 DEF LeavesForAReason
<1>13. CASE Reject
  <2>1. /\ step = "validate"
        /\ step' = "abort"
        /\ UNCHANGED <<items, target>>
    BY <1>13 DEF Reject
  <2>. QED BY <2>1 DEF LeavesForAReason
<1>14. CASE Abort
  <2>1. /\ step = "abort"
        /\ step' = "idle"
        /\ target' = None
        /\ UNCHANGED items
    BY <1>14 DEF Abort
  <2>. QED BY <2>1 DEF LeavesForAReason
<1>15. ASSUME NEW s \in Services, Disconnect(s) PROVE LeavesForAReason
  <2>1. \A t \in Services \ {s} : items'[t] = items[t]
    BY <1>15 DEF Disconnect
  <2>. QED BY <1>15, <2>1 DEF LeavesForAReason
<1>16. ASSUME NEW c \in Clients, NEW x \in Paths, ConnectionLost(c, x)
      PROVE  LeavesForAReason
  <2>1. /\ link[c][x] # "none"
        /\ UNCHANGED <<items, step, target>>
    BY <1>16 DEF ConnectionLost, Hears, LostStatus
  <2>. QED BY <2>1 DEF LeavesForAReason
<1>17. ASSUME NEW u \in Users, NEW s \in Services, NEW k \in {"call", "ping", "list"},
             Asked(u, s, k)
      PROVE  LeavesForAReason
  <2>1. /\ pc[u] \in {"idle", "returned"} /\ step = "idle"
        /\ UNCHANGED <<items, step, target>>
    BY <1>17 DEF Asked, Get
  <2>. QED BY <2>1 DEF LeavesForAReason
<1>18. ASSUME NEW u \in Users,
             Begin(u) \/ Respond(u) \/ End(u) \/ MarkSeen(u) \/ MarkError(u) \/
             Read(u) \/ MarkTerminal(u) \/ Leave(u) \/ Locate(u) \/ Miss(u) \/
             Apply(u)
      PROVE  LeavesForAReason
  <2>1. UNCHANGED <<items, step, target>>
    BY <1>18 DEF Begin, Respond, End, MarkSeen, MarkError, Read, MarkTerminal,
        Leave, Locate, Miss, Apply
  <2>. QED BY <2>1 DEF LeavesForAReason
<1>19. ASSUME NEW u \in Users, Remove(u) PROVE LeavesForAReason
  <2>1. /\ pc[u] = "remove" /\ step = "idle"
        /\ \/ /\ items[service[u]] = subject[u]
              /\ items' = [items EXCEPT ![service[u]] = None]
           \/ /\ items[service[u]] # subject[u]
              /\ UNCHANGED items
        /\ UNCHANGED <<step, target>>
    BY <1>19 DEF Remove, IsCurrent
  <2>2. subject[u] \in expired
    BY <2>1 DEF UsersFit
  <2>. QED BY <2>1, <2>2 DEF LeavesForAReason
<1>20. CASE UNCHANGED vars
  <2>1. UNCHANGED <<items, step, target>>
    BY <1>20 DEF vars
  <2>. QED BY <2>1 DEF LeavesForAReason
<1>. QED BY <1>1, <1>2, <1>3, <1>4, <1>5, <1>6, <1>7, <1>8, <1>9, <1>10,
            <1>11, <1>12, <1>13, <1>14, <1>15, <1>16, <1>17, <1>18, <1>19,
            <1>20, Requests DEF Next, Connect, Handshake, Serve

\* handleClientError asks isCurrent before it removes anything: a client leaves
\* by Disconnect or Connect of its service, or by its own session error.
THEOREM StrangersAreSafe == Spec => StrangersSurvive
<1>1. IInv /\ [Next]_vars => [LeavesForAReason]_vars
  BY LeavesStep DEF IInv
<1>. QED BY <1>1, Invariant, PTL DEF Spec, StrangersSurvive

-----------------------------------------------------------------------------
(* The refinement of ConnectionRegistry.                                   *)

\* The initial states are initial states of the registry.
LEMMA InitRefines == Init => Registry!RegistryInit
BY DEF Init, Registry!RegistryInit, Spent

\* Every step is a step of the registry, or none.
LEMMA StepRefines ==
    TypeOK /\ AttemptFits /\ UsersFit /\ [Next]_vars
        => [Registry!RegistryNext]_(Registry!registryVars)
<1>. SUFFICES ASSUME TypeOK, AttemptFits, UsersFit, [Next]_vars
            PROVE [Registry!RegistryNext]_(Registry!registryVars)
  OBVIOUS
<1>. USE DEF registry, attempt, runtime, history, userVars, request,
            Unpublished, Unlock, LockFree
<1>t. /\ items \in [Services -> Clients \cup {None}]
      /\ conf \in [Clients -> Configs \cup {None}] /\ fresh \in Clients \cup {None}
  BY DEF TypeOK
<1>. USE <1>t
<1>1. ASSUME NEW s \in Services, NEW c \in Clients,
             NEW f \in Configs, NEW n \in RowFailures, BeginConnect(s, c, f, n)
      PROVE  [Registry!RegistryNext]_(Registry!registryVars)
  <2>1. /\ step = "idle" /\ conf[c] = None
        /\ items' = [items EXCEPT ![s] = None]
        /\ target' = s
        /\ fresh' = c
        /\ conf' = [conf EXCEPT ![c] = f]
    BY <1>1 DEF BeginConnect
  <2>2. target = None /\ fresh = None
    BY <2>1 DEF AttemptFits
  <2>3. Spent' = Spent
    BY <2>1, <2>2 DEF Spent
  <2>4. Registry!StartConnect(s)
    BY <2>1, <2>2, <2>3 DEF Registry!StartConnect
  <2>. QED BY <2>4 DEF Registry!RegistryNext
<1>2. CASE Build
  <2>1. /\ step = "build"
        /\ \/ UNCHANGED <<target, fresh>>
           \/ /\ target' = None
              /\ fresh' = None
        /\ UNCHANGED <<items, conf>>
    BY <1>2 DEF Build
  <2>2. target \in Services /\ fresh \in Clients /\ conf[fresh] # None
    BY <2>1 DEF AttemptFits, TypeOK
  <2>3. CASE UNCHANGED <<target, fresh>>
    <3>1. Spent' = Spent BY <2>1, <2>3 DEF Spent
    <3>. QED BY <2>1, <2>3, <3>1 DEF Registry!registryVars
  <2>4. CASE target' = None /\ fresh' = None
    <3>1. Spent' = Spent \cup {fresh} /\ fresh \notin Spent
      BY <2>1, <2>2, <2>4 DEF Spent
    <3>2. Registry!GiveUp(target, fresh)
      BY <2>1, <2>4, <3>1 DEF Registry!GiveUp
    <3>. QED BY <2>2, <3>2 DEF Registry!RegistryNext
  <2>. QED BY <2>1, <2>3, <2>4
<1>3. CASE Start \/ Initialize \/ BuildFallback \/ StartFallback \/
           InitializeFallback \/ Detach \/ ClosePrimary \/ AttachFallback \/ Settle \/
           Reject
  <2>1. UNCHANGED <<items, target, fresh, conf>>
    BY <1>3 DEF Start, Initialize, BuildFallback, StartFallback,
        InitializeFallback, Detach, ClosePrimary, AttachFallback, Settle,
        Reject
  <2>2. Spent' = Spent
    BY <2>1 DEF Spent
  <2>. QED BY <2>1, <2>2 DEF Registry!registryVars
<1>4. CASE Install
  <2>1. /\ step = "validate" /\ Valid(fresh)
        /\ items' = [items EXCEPT ![target] = fresh]
        /\ target' = None
        /\ fresh' = None
        /\ UNCHANGED conf
    BY <1>4 DEF Install
  <2>2. target \in Services /\ fresh \in Clients /\ conf[fresh] # None
    BY <2>1 DEF AttemptFits, TypeOK
  <2>3. Spent' = Spent \cup {fresh} /\ fresh \notin Spent
    BY <2>1, <2>2 DEF Spent
  <2>4. Registry!Attach(target, fresh)
    BY <2>1, <2>3 DEF Registry!Attach
  <2>. QED BY <2>2, <2>4 DEF Registry!RegistryNext
<1>5. CASE Abort
  <2>1. /\ step = "abort"
        /\ target' = None
        /\ fresh' = None
        /\ UNCHANGED <<items, conf>>
    BY <1>5 DEF Abort
  <2>2. target \in Services /\ fresh \in Clients /\ conf[fresh] # None
    BY <2>1 DEF AttemptFits, TypeOK
  <2>3. Spent' = Spent \cup {fresh} /\ fresh \notin Spent
    BY <2>1, <2>2 DEF Spent
  <2>4. Registry!GiveUp(target, fresh)
    BY <2>1, <2>3 DEF Registry!GiveUp
  <2>. QED BY <2>2, <2>4 DEF Registry!RegistryNext
<1>6. ASSUME NEW s \in Services, Disconnect(s)
      PROVE  [Registry!RegistryNext]_(Registry!registryVars)
  <2>1. /\ step = "idle" /\ items[s] # None
        /\ \/ items' = [items EXCEPT ![s] = None]
           \/ UNCHANGED items
        /\ UNCHANGED <<target, fresh, conf>>
    BY <1>6 DEF Disconnect
  <2>3. Spent' = Spent /\ target = None
    BY <2>1 DEF Spent, AttemptFits
  <2>5. CASE items' = [items EXCEPT ![s] = None] /\ items[s] # None
    <3>1. Registry!Drop(s) BY <2>1, <2>3, <2>5 DEF Registry!Drop
    <3>. QED BY <3>1 DEF Registry!RegistryNext
  <2>6. CASE UNCHANGED items
    BY <2>1, <2>3, <2>6 DEF Registry!registryVars
  <2>. QED BY <2>1, <2>5, <2>6
<1>7. ASSUME NEW c \in Clients, NEW x \in Paths, ConnectionLost(c, x)
      PROVE  [Registry!RegistryNext]_(Registry!registryVars)
  <2>1. /\ link[c][x] # "none"
        /\ UNCHANGED <<items, target, fresh, conf>>
    BY <1>7 DEF ConnectionLost, Hears, LostStatus
  <2>2. Spent' = Spent
    BY <2>1 DEF Spent
  <2>. QED BY <2>1, <2>2 DEF Registry!registryVars
<1>8. ASSUME NEW u \in Users, NEW s \in Services, NEW k \in {"call", "ping", "list"},
             Asked(u, s, k)
      PROVE  [Registry!RegistryNext]_(Registry!registryVars)
  <2>1. /\ pc[u] \in {"idle", "returned"} /\ step = "idle"
        /\ UNCHANGED <<items, target, fresh, conf>>
    BY <1>8 DEF Asked, Get
  <2>2. Spent' = Spent
    BY <2>1 DEF Spent
  <2>. QED BY <2>1, <2>2 DEF Registry!registryVars
<1>9. ASSUME NEW u \in Users,
             Begin(u) \/ Respond(u) \/ End(u) \/ MarkSeen(u) \/ MarkError(u) \/
             Read(u) \/ MarkTerminal(u) \/ Leave(u) \/ Locate(u) \/ Miss(u) \/
             Apply(u)
      PROVE  [Registry!RegistryNext]_(Registry!registryVars)
  <2>1. UNCHANGED <<items, target, fresh, conf>>
    BY <1>9 DEF Begin, Respond, End, MarkSeen, MarkError, Read, MarkTerminal,
        Leave, Locate, Miss, Apply
  <2>2. Spent' = Spent
    BY <2>1 DEF Spent
  <2>. QED BY <2>1, <2>2 DEF Registry!registryVars
<1>10. ASSUME NEW u \in Users, Remove(u)
      PROVE  [Registry!RegistryNext]_(Registry!registryVars)
  <2>1. /\ pc[u] = "remove" /\ step = "idle"
        /\ \/ /\ items[service[u]] = subject[u]
              /\ items' = [items EXCEPT ![service[u]] = None]
           \/ /\ items[service[u]] # subject[u]
              /\ UNCHANGED items
        /\ UNCHANGED <<target, fresh, conf>>
    BY <1>10 DEF Remove, IsCurrent
  <2>2. subject[u] # None /\ service[u] \in Services
    BY <2>1 DEF UsersFit, TypeOK
  <2>3. Spent' = Spent /\ target = None
    BY <2>1 DEF Spent, AttemptFits
  <2>5. CASE items' = [items EXCEPT ![service[u]] = None] /\ items[service[u]] # None
    <3>1. Registry!Drop(service[u]) BY <2>1, <2>3, <2>5 DEF Registry!Drop
    <3>. QED BY <2>2, <3>1 DEF Registry!RegistryNext
  <2>6. CASE UNCHANGED items
    BY <2>1, <2>3, <2>6 DEF Registry!registryVars
  <2>. QED BY <2>1, <2>2, <2>5, <2>6
<1>11. CASE UNCHANGED vars
  <2>1. UNCHANGED <<items, target, fresh, conf>>
    BY <1>11 DEF vars
  <2>2. Spent' = Spent
    BY <2>1 DEF Spent
  <2>. QED BY <2>1, <2>2 DEF Registry!registryVars
<1>12. ASSUME NEW u \in Users,
              (\E s \in Services : Call(u, s) \/ Ping(u, s)) \/ ListInstead(u)
       PROVE  [Registry!RegistryNext]_(Registry!registryVars)
  BY <1>8, <1>12, Requests
<1>. QED BY <1>1, <1>2, <1>3, <1>4, <1>5, <1>6, <1>7, <1>9, <1>10, <1>11, <1>12
            DEF Next, Connect, Handshake, Serve

\* The manager implements the registry: one connection per service, attached
\* once and never again after it is dropped, and none while it is being made.
THEOREM ImplementsRegistry == Spec => Registry!RegistrySpec
<1>1. IInv /\ [Next]_vars => [Registry!RegistryNext]_(Registry!registryVars)
  BY StepRefines DEF IInv
<1>. QED BY <1>1, InitRefines, Invariant, PTL DEF Spec, Registry!RegistrySpec

===============================================================================
