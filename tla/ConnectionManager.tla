--------------------------- MODULE ConnectionManager ---------------------------
(***************************************************************************)
(* The connections to MCP services: internal/mcpclient/manager.go          *)
(* (Manager) and managed_client.go (managedClient), with the session rules *)
(* of session_mode.go.                                                     *)
(*                                                                         *)
(* A client is one managedClient; Connect makes a new one each time.  It   *)
(* has one transport, or two while it falls back from streamable HTTP to   *)
(* SSE.  Connect holds Manager.mu from its first to its last step, so      *)
(* there is one attempt at a time; calls, probes and the callbacks of the  *)
(* transports go on meanwhile and lock only the client they work on.  A    *)
(* user is a goroutine that makes one CallTool or ListTools after another, *)
(* or that checks a service (health_checker.go), with Ping, with ListTools *)
(* if that is not supported, and with applyHealthState in the end.         *)
(* Abstracted: what is called and answered, times, error texts, and the    *)
(* fields of the runtime status that are only displayed (capabilities,     *)
(* LastSeenAt, LastUsedAt, LastError, the listening state, which is all    *)
(* that OnNotification and markError change).                              *)
(***************************************************************************)
EXTENDS Naturals, FiniteSets

CONSTANTS
    Services,
    Clients,      \* the managedClients that can be made
    Users,        \* goroutines in CallTool, ListTools or a health check
    Configs,      \* configurations a service row may have when it is connected
    RowFailures,  \* failure counts it may have
    Threshold,    \* health_check.failure_threshold
    None

Transports == {"streamable_http", "sse", "stdio"}

ASSUME ManagerConstants ==
    /\ None \notin Services \cup Clients \cup {"primary", "fallback"}
    /\ IsFiniteSet(Users)
    /\ Configs \subseteq [transport : Transports,
                          legacy    : BOOLEAN,   \* compat_mode = allow_legacy_sse
                          session   : {"auto", "required", "disabled"}]
    /\ None \notin Configs
    /\ RowFailures \subseteq Nat
    /\ Threshold \in Nat \ {0}

VARIABLES
    items,     \* m.items
    step,      \* how far the Connect that holds m.mu has come; "idle" if none
    target,    \* its service
    fresh,     \* its client
    conf,      \* the service row a client was made from
    active,    \* mc.client, as one of Paths
    link,      \* the transports: not made, open, or closed (Close was called)
    session,   \* the transports with a session id
    once,      \* the clients whose closeOnce is spent
    status,    \* mc.runtime.Status
    failures,  \* mc.runtime.FailureCount
    inFlight,  \* mc.runtime.InFlight
    lost,      \* the transports that called OnConnectionLost (history only)
    expired,   \* the clients marked after a session error (history only)
    pc,        \* how far each user has come
    service,   \* the service it asked for
    subject,   \* the client it got
    kind,      \* "call" (CallTool, ListTools), or "ping" and "list" in a check
    fault,     \* how the request ended
    reply      \* the FailureCount of the RuntimeStatus it returns

registry   == <<items, once>>
attempt    == <<step, target, fresh, conf, active, session>>
runtime    == <<status, failures, inFlight>>
history    == <<lost, expired>>
userVars   == <<pc, service, subject, kind, fault, reply>>
vars       == <<registry, attempt, link, runtime, history, userVars>>

Paths == {"primary", "fallback"}

Statuses == {"CONNECTING", "CONNECTED", "ERROR"}

\* How a request may end: well, with an error, with one that says that the
\* method is not supported, or with one that says that the session is gone.
Faults == {"none", "plain", "unsupported", "session"}

(* The pieces of the actions below.  A definition that is called a slip is *)
(* not used by Spec: it is a wrong form of the one that follows, with      *)
(* which a property is shown to be able to fail.                           *)

SlipLockFree == TRUE

\* m.mu is free.
LockFree == step = "idle"

validateSessionMode(f, x, has) ==
    f.transport = "streamable_http" =>
        /\ f.session = "required" => x = "primary" /\ has
        /\ f.session = "disabled" => ~(x = "primary" /\ has)

\* The server may give out a session on this transport.
MayHaveSession(f, x) == f.transport = "streamable_http" /\ x = "primary"

MayFallBack(f) == f.transport = "streamable_http" /\ f.legacy

Shut(c, x) == [link EXCEPT ![c][x] = "closed"]

\* mc.close(): the active transport, if there is one, and only the first time.
AfterClose(c) == IF c \in once \/ active[c] = None THEN link ELSE Shut(c, active[c])

SlipIsCurrent(s, c) == items[s] # None
SlipStillConnected(s, c) == items[s] = c /\ status[c] = "CONNECTED"

\* handleClientError asks whether the client that failed is still the one.
IsCurrent(s, c) == items[s] = c

SlipHears(c, x) == TRUE

\* A callback of transport x counts only while x is the active one.
Hears(c, x) == active[c] = x

LostStatus == "ERROR"

\* Ping is no interaction.
Interactions == {"call", "list"}

SlipAfterRun(u, e) == IF kind[u] \in Interactions /\ e = "none" THEN "end" ELSE "mark"

\* A call ends its interaction whatever its error e.
AfterRun(u, e) == IF kind[u] \in Interactions THEN "end" ELSE "mark"

SlipGivenUp(c) == link

\* The fallback failed and is closed.
GivenUp(c) == Shut(c, "fallback")

SlipAfterFallback == "fallback"

\* Then the attempt is over.
AfterFallback == "abort"

Init ==
    /\ items = [s \in Services |-> None]
    /\ step = "idle"
    /\ target = None
    /\ fresh = None
    /\ conf = [c \in Clients |-> None]
    /\ active = [c \in Clients |-> None]
    /\ link = [c \in Clients |-> [x \in Paths |-> "none"]]
    /\ session = {} /\ once = {} /\ lost = {} /\ expired = {}
    /\ status = [c \in Clients |-> "CONNECTING"]
    /\ failures = [c \in Clients |-> 0]
    /\ inFlight = [c \in Clients |-> 0]
    /\ pc = [u \in Users |-> "idle"]
    /\ service = [u \in Users |-> None]
    /\ subject = [u \in Users |-> None]
    /\ kind = [u \in Users |-> "call"]
    /\ fault = [u \in Users |-> "none"]
    /\ reply = [u \in Users |-> 0]

-----------------------------------------------------------------------------
(* Connect                                                                 *)

\* It closes and removes the old client, whatever close says.
BeginConnect(s, c, f, n) ==
    /\ LockFree
    /\ conf[c] = None
    /\ items' = [items EXCEPT ![s] = None]
    /\ link' = IF items[s] = None THEN link ELSE AfterClose(items[s])
    /\ once' = IF items[s] = None THEN once ELSE once \cup {items[s]}
    /\ step' = "build" /\ target' = s /\ fresh' = c
    /\ conf' = [conf EXCEPT ![c] = f]
    /\ failures' = [failures EXCEPT ![c] = n]
    /\ UNCHANGED <<active, session, status, inFlight, history, userVars>>

Unlock == step' = "idle" /\ target' = None /\ fresh' = None

Unpublished == UNCHANGED <<registry, target, fresh, conf, history, userVars>>

Build ==
    /\ step = "build"
    /\ \/ /\ link' = [link EXCEPT ![fresh]["primary"] = "open"]
          /\ active' = [active EXCEPT ![fresh] = "primary"]
          /\ step' = "start"
          /\ UNCHANGED <<target, fresh>>
       \/ /\ Unlock
          /\ UNCHANGED <<link, active>>
    /\ UNCHANGED <<registry, conf, session, runtime, history, userVars>>

Start ==
    /\ step = "start"
    /\ step' \in {"initialize", "abort"}
    /\ Unpublished /\ UNCHANGED <<active, link, session, runtime>>

Initialize ==
    /\ step = "initialize"
    /\ \/ /\ step' = "settle"
          /\ \/ UNCHANGED session
             \/ /\ MayHaveSession(conf[fresh], "primary")
                /\ session' = session \cup {<<fresh, "primary">>}
       \/ /\ step' = IF MayFallBack(conf[fresh]) THEN "fallback" ELSE "abort"
          /\ UNCHANGED session
    /\ Unpublished /\ UNCHANGED <<active, link, runtime>>

BuildFallback ==
    /\ step = "fallback"
    /\ \/ /\ link' = [link EXCEPT ![fresh]["fallback"] = "open"]
          /\ step' = "startFallback"
       \/ /\ step' = "abort"
          /\ UNCHANGED link
    /\ Unpublished /\ UNCHANGED <<active, session, runtime>>

StartFallback ==
    /\ step = "startFallback"
    /\ \/ step' = "initializeFallback" /\ UNCHANGED link
       \/ step' = "abort" /\ link' = GivenUp(fresh)
    /\ Unpublished /\ UNCHANGED <<active, session, runtime>>

InitializeFallback ==
    /\ step = "initializeFallback"
    /\ \/ step' = "detach" /\ UNCHANGED link
       \/ step' = AfterFallback /\ link' = GivenUp(fresh)
    /\ Unpublished /\ UNCHANGED <<active, session, runtime>>

\* setActiveClient(nil): from here on nobody hears the primary transport.
Detach ==
    /\ step = "detach"
    /\ active' = [active EXCEPT ![fresh] = None]
    /\ step' = "closePrimary"
    /\ Unpublished /\ UNCHANGED <<link, session, runtime>>

\* If the close fails the primary transport becomes the active one again, and
\* the fallback is given up.
ClosePrimary ==
    /\ step = "closePrimary"
    /\ \/ /\ link' = Shut(fresh, "primary")
          /\ step' = "attach"
          /\ UNCHANGED active
       \/ /\ link' = [link EXCEPT ![fresh] = [x \in Paths |-> "closed"]]
          /\ active' = [active EXCEPT ![fresh] = "primary"]
          /\ step' = "abort"
    /\ Unpublished /\ UNCHANGED <<session, runtime>>

AttachFallback ==
    /\ step = "attach"
    /\ active' = [active EXCEPT ![fresh] = "fallback"]
    /\ step' = "settle"
    /\ Unpublished /\ UNCHANGED <<link, session, runtime>>

\* The status is CONNECTED now, whatever a callback has made of it.
Settle ==
    /\ step = "settle"
    /\ status' = [status EXCEPT ![fresh] = "CONNECTED"]
    /\ step' = "validate"
    /\ Unpublished /\ UNCHANGED <<active, link, session, failures, inFlight>>

Valid(c) == validateSessionMode(conf[c], active[c], <<c, active[c]>> \in session)

Install ==
    /\ step = "validate" /\ Valid(fresh)
    /\ items' = [items EXCEPT ![target] = fresh]
    /\ Unlock
    /\ UNCHANGED <<once, conf, active, link, session, runtime, history, userVars>>

\* markTerminalError
Reject ==
    /\ step = "validate" /\ ~Valid(fresh)
    /\ status' = [status EXCEPT ![fresh] = "ERROR"]
    /\ step' = "abort"
    /\ Unpublished /\ UNCHANGED <<active, link, session, failures, inFlight>>

\* newManagedClient closes the client that could not be initialized.
Abort ==
    /\ step = "abort"
    /\ link' = AfterClose(fresh)
    /\ once' = once \cup {fresh}
    /\ Unlock
    /\ UNCHANGED <<items, conf, active, session, runtime, history, userVars>>

-----------------------------------------------------------------------------
(* Disconnect, and the callbacks of the transports                         *)

\* A close that fails leaves the client in items; as closeOnce is spent then,
\* the next Disconnect removes it.
Disconnect(s) ==
    /\ LockFree /\ items[s] # None
    /\ link' = AfterClose(items[s])
    /\ once' = once \cup {items[s]}
    /\ \/ items' = [items EXCEPT ![s] = None]
       \/ items[s] \notin once /\ UNCHANGED items
    /\ UNCHANGED <<attempt, runtime, history, userVars>>

\* A transport may report its loss at any time, also after it was closed.
ConnectionLost(c, x) ==
    /\ link[c][x] # "none" /\ <<c, x>> \notin lost
    /\ lost' = lost \cup {<<c, x>>}
    /\ status' = IF Hears(c, x) THEN [status EXCEPT ![c] = LostStatus] ELSE status
    /\ UNCHANGED <<registry, attempt, link, failures, inFlight, expired,
                   userVars>>

-----------------------------------------------------------------------------
(* CallTool, ListTools and Ping                                            *)

request == <<service, subject, kind>>

\* Without a client the request comes back at once, with an empty status.
Get(u, s, k) ==
    /\ LockFree
    /\ service' = [service EXCEPT ![u] = s]
    /\ kind' = [kind EXCEPT ![u] = k]
    /\ subject' = [subject EXCEPT ![u] = items[s]]
    /\ fault' = [fault EXCEPT ![u] = IF items[s] = None THEN "absent" ELSE "none"]
    /\ pc' = [pc EXCEPT ![u] = CASE items[s] = None -> "returned"
                                 [] items[s] # None /\ k \in Interactions -> "begin"
                                 [] OTHER -> "run"]
    /\ reply' = [reply EXCEPT ![u] = 0]
    /\ UNCHANGED <<registry, attempt, link, runtime, history>>

Call(u, s) == pc[u] = "idle" /\ Get(u, s, "call")

\* beginInteraction
Begin(u) ==
    /\ pc[u] = "begin"
    /\ inFlight' = [inFlight EXCEPT ![subject[u]] = @ + 1]
    /\ pc' = [pc EXCEPT ![u] = "run"]
    /\ UNCHANGED <<registry, attempt, link, status, failures, history, request,
                   fault, reply>>

\* The request comes back.  Nothing ties its outcome to the transport: an
\* answer may have arrived before the transport was closed or lost.
Respond(u) ==
    /\ pc[u] = "run"
    /\ \E e \in Faults : /\ fault' = [fault EXCEPT ![u] = e]
                        /\ pc' = [pc EXCEPT ![u] = AfterRun(u, e)]
    /\ UNCHANGED <<registry, attempt, link, runtime, history, request, reply>>

\* endInteraction
End(u) ==
    /\ pc[u] = "end"
    /\ inFlight' = [inFlight EXCEPT ![subject[u]] = IF @ > 0 THEN @ - 1 ELSE @]
    /\ pc' = [pc EXCEPT ![u] = "mark"]
    /\ UNCHANGED <<registry, attempt, link, status, failures, history, request,
                   fault, reply>>

\* markSeen, on success
MarkSeen(u) ==
    /\ pc[u] = "mark" /\ fault[u] = "none"
    /\ status' = [status EXCEPT ![subject[u]] = "CONNECTED"]
    /\ failures' = [failures EXCEPT ![subject[u]] = 0]
    /\ pc' = [pc EXCEPT ![u] = "read"]
    /\ UNCHANGED <<registry, attempt, link, inFlight, history, request, fault,
                   reply>>

\* markError, on an error that leaves the session alone
MarkError(u) ==
    /\ pc[u] = "mark" /\ fault[u] \in {"plain", "unsupported"}
    /\ pc' = [pc EXCEPT ![u] = "read"]
    /\ UNCHANGED <<registry, attempt, link, runtime, history, request, fault,
                   reply>>

\* runtimeStatus
Read(u) ==
    /\ pc[u] = "read"
    /\ reply' = [reply EXCEPT ![u] = failures[subject[u]]]
    /\ pc' = [pc EXCEPT ![u] = "returned"]
    /\ UNCHANGED <<registry, attempt, link, runtime, history, request, fault>>

\* markTerminalError, on a session error; it returns the status as well.
MarkTerminal(u) ==
    /\ pc[u] = "mark" /\ fault[u] = "session"
    /\ status' = [status EXCEPT ![subject[u]] = "ERROR"]
    /\ expired' = expired \cup {subject[u]}
    /\ reply' = [reply EXCEPT ![u] = failures[subject[u]]]
    /\ pc' = [pc EXCEPT ![u] = "remove"]
    /\ UNCHANGED <<registry, attempt, link, failures, inFlight, lost, request,
                   fault>>

\* handleClientError removes the client if it is still the service's one.
Remove(u) ==
    /\ pc[u] = "remove" /\ LockFree
    /\ IF IsCurrent(service[u], subject[u])
       THEN /\ link' = AfterClose(items[service[u]])
            /\ once' = once \cup {items[service[u]]}
            /\ items' = [items EXCEPT ![service[u]] = None]
       ELSE UNCHANGED <<link, once, items>>
    /\ pc' = [pc EXCEPT ![u] = "returned"]
    /\ UNCHANGED <<attempt, runtime, history, request, fault, reply>>

Rest(u) ==
    /\ pc' = [pc EXCEPT ![u] = "idle"]
    /\ service' = [service EXCEPT ![u] = None]
    /\ subject' = [subject EXCEPT ![u] = None]
    /\ kind' = [kind EXCEPT ![u] = "call"]
    /\ fault' = [fault EXCEPT ![u] = "none"]
    /\ reply' = [reply EXCEPT ![u] = 0]

Leave(u) ==
    /\ pc[u] = "returned" /\ kind[u] = "call"
    /\ Rest(u)
    /\ UNCHANGED <<registry, attempt, link, runtime, history>>

-----------------------------------------------------------------------------
(* The health check of a service, by the same goroutine.                   *)

Checking(u) == kind[u] \in {"ping", "list"}

\* One goroutine for each service, and the round before has ended.
Ping(u, s) ==
    /\ pc[u] = "idle"
    /\ \A v \in Users : ~(Checking(v) /\ service[v] = s)
    /\ Get(u, s, "ping")

\* Where Ping is not supported, ListTools decides.
NotSupported(u) == kind[u] = "ping" /\ fault[u] = "unsupported"

ListInstead(u) ==
    /\ pc[u] = "returned" /\ NotSupported(u)
    /\ Get(u, service[u], "list")

\* markHealthy and markFailure.  Counts are not told apart above the threshold.
\* markFailure sees a lost session in the error of Ping; of the error of
\* ListTools it gets the text.
Counted(u) ==
    CASE fault[u] = "none" -> 0
      [] fault[u] = "session" /\ kind[u] = "ping" -> Threshold
      [] OTHER -> IF reply[u] < Threshold THEN reply[u] + 1 ELSE Threshold

Verdict(n) == IF n >= Threshold THEN "ERROR" ELSE "CONNECTED"

\* applyHealthState of the manager takes the client that the service has by
\* now, which may be another one than the check was about; or there is none.
Locate(u) ==
    /\ pc[u] = "returned" /\ Checking(u) /\ ~NotSupported(u)
    /\ LockFree /\ items[service[u]] # None
    /\ subject' = [subject EXCEPT ![u] = items[service[u]]]
    /\ reply' = [reply EXCEPT ![u] = Counted(u)]
    /\ pc' = [pc EXCEPT ![u] = "apply"]
    /\ UNCHANGED <<registry, attempt, link, runtime, history, service, kind, fault>>

Miss(u) ==
    /\ pc[u] = "returned" /\ Checking(u) /\ ~NotSupported(u)
    /\ LockFree /\ items[service[u]] = None
    /\ Rest(u)
    /\ UNCHANGED <<registry, attempt, link, runtime, history>>

\* applyHealthState of the client, which may have been replaced meanwhile.
Apply(u) ==
    /\ pc[u] = "apply"
    /\ status' = [status EXCEPT ![subject[u]] = Verdict(reply[u])]
    /\ failures' = [failures EXCEPT ![subject[u]] = reply[u]]
    /\ Rest(u)
    /\ UNCHANGED <<registry, attempt, link, inFlight, history>>

-----------------------------------------------------------------------------
Handshake == \/ Build \/ Start \/ Initialize \/ BuildFallback \/ StartFallback
             \/ InitializeFallback \/ Detach \/ ClosePrimary \/ AttachFallback
             \/ Settle \/ Install \/ Reject \/ Abort

Connect == \E s \in Services, c \in Clients, f \in Configs, n \in RowFailures :
               BeginConnect(s, c, f, n)

Serve(u) == \/ Begin(u) \/ Respond(u) \/ End(u) \/ MarkSeen(u) \/ MarkError(u)
            \/ Read(u) \/ MarkTerminal(u) \/ Remove(u)
            \/ ListInstead(u) \/ Locate(u) \/ Miss(u) \/ Apply(u)

Next == \/ Connect \/ Handshake
        \/ \E s \in Services : Disconnect(s)
        \/ \E c \in Clients, x \in Paths : ConnectionLost(c, x)
        \/ \E u \in Users :
             \/ \E s \in Services : Call(u, s) \/ Ping(u, s)
             \/ Serve(u) \/ Leave(u)

Spec == Init /\ [][Next]_vars

(***************************************************************************)
(* Fairness.  initialize works under a timeout, so the steps of Connect go *)
(* on; a goroutine that is ready runs; the request itself may not return.  *)
(***************************************************************************)
Proceed(u) == pc[u] # "run" /\ Serve(u)

Fairness == /\ WF_vars(Handshake)
            /\ \A u \in Users : WF_vars(Proceed(u))

FairSpec == Spec /\ Fairness

-----------------------------------------------------------------------------
(* Properties                                                              *)

Connected(c) == \E s \in Services : items[s] = c

\* The types of the manager's, the clients' and the users' state.
TypeOK ==
    /\ items \in [Services -> Clients \cup {None}]
    /\ step \in {"idle", "build", "start", "initialize", "fallback",
                 "startFallback", "initializeFallback", "detach",
                 "closePrimary", "attach", "settle", "validate", "abort"}
    /\ target \in Services \cup {None}
    /\ fresh \in Clients \cup {None}
    /\ conf \in [Clients -> Configs \cup {None}]
    /\ active \in [Clients -> Paths \cup {None}]
    /\ link \in [Clients -> [Paths -> {"none", "open", "closed"}]]
    /\ session \subseteq Clients \X Paths
    /\ once \subseteq Clients
    /\ status \in [Clients -> Statuses]
    /\ failures \in [Clients -> Nat]
    /\ inFlight \in [Clients -> Nat]
    /\ lost \subseteq Clients \X Paths
    /\ expired \subseteq Clients
    /\ pc \in [Users -> {"idle", "begin", "run", "end", "mark", "read",
                        "remove", "returned", "apply"}]
    /\ service \in [Users -> Services \cup {None}]
    /\ subject \in [Users -> Clients \cup {None}]
    /\ kind \in [Users -> {"call", "ping", "list"}]
    /\ fault \in [Users -> Faults \cup {"absent"}]
    /\ reply \in [Users -> Nat]

\* No transport is left open without an owner: on every path of Connect with
\* its fallback, of Disconnect and of a session error, an open transport is
\* the active one of a service's client, or belongs to the Connect under way.
TransportsAreOwned ==
    \A c \in Clients, x \in Paths : link[c][x] = "open" =>
        \/ fresh = c
        \/ Connected(c) /\ active[c] = x

\* InFlight is the number of calls that are between beginInteraction and
\* endInteraction on this client, also when they fail and when the client has
\* been replaced meanwhile.
InFlightCounts ==
    \A c \in Clients : inFlight[c] = Cardinality(
        {u \in Users : /\ subject[u] = c /\ kind[u] \in Interactions
                       /\ pc[u] \in {"run", "end"}})

\* A client whose session error has been handled no longer serves: the next
\* call cannot be given a session that is known to be gone.
ExpiredIsRemoved ==
    \A u \in Users : fault[u] = "session" /\ pc[u] = "returned"
        => ~Connected(subject[u])

\* A client that serves shows ERROR only if its active transport was lost, a
\* request on it met a session error, or failed checks have been counted up to
\* the threshold.  The loss of a transport it has left does not count, and
\* neither does any request on an earlier client of the service, except for the
\* count that a check carries over to it.
ErrorHasCause ==
    \A s \in Services : items[s] # None /\ status[items[s]] = "ERROR"
        => \/ <<items[s], active[items[s]]>> \in lost
           \/ items[s] \in expired
           \/ failures[items[s]] >= Threshold

\* A client that a session error has not hit is not taken away by anybody's
\* session error: it leaves only by Disconnect or Connect of its service.
LeavesForAReason ==
    \A s \in Services : items[s] # None /\ items'[s] # items[s]
        => \/ items[s] \in expired
           \/ step' = "build" /\ target' = s
           \/ Disconnect(s)
StrangersSurvive == [][LeavesForAReason]_vars

\* A session error is acted upon, although Connect may hold the lock.
ExpiryIsHandled == \A u \in Users : pc[u] = "remove" ~> pc[u] # "remove"

-----------------------------------------------------------------------------
(* The refinement of ConnectionRegistry                                    *)

Spent == {c \in Clients : conf[c] # None /\ fresh # c}

Registry == INSTANCE ConnectionRegistry WITH
                live <- items, spent <- Spent,
                busy <- target

\* The manager implements the registry, and every attempt to connect ends.
ImplementsFairRegistry == Registry!RegistryFairSpec
=============================================================================
