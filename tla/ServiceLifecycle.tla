--------------------------- MODULE ServiceLifecycle ---------------------------
(***************************************************************************)
(* The life of a service: its row in mcp_services, its connection in the   *)
(* manager, its tools, and the three parties that change them:             *)
(*   - requests (service/mcp_service.go, tool_service.go, the read and the *)
(*     error path of tool_invoke_service.go), each a sequence of database  *)
(*     statements and manager calls with nothing around them;              *)
(*   - the health checker (mcpclient/health_checker.go) with its update    *)
(*     callback (bootstrap/app.go), one goroutine for each connected       *)
(*     service in a round;                                                 *)
(*   - the start of the process, which resets what the last one left if it *)
(*     is configured to.                                                   *)
(* The process is one that serves requests and runs the runtime (role all);*)
(* RemoteRuntime has the two apart.                                        *)
(* Operations of the manager take effect at once, which ConnectionRegistry *)
(* promises and ConnectionManager shows.  Outputs (audit records, alerts)  *)
(* are not part of the state.                                              *)
(***************************************************************************)
EXTENDS Naturals, FiniteSets

CONSTANTS
    Services,
    Requests,    \* goroutines that serve HTTP requests
    Threshold,   \* health_check.failure_threshold
    MaxFailures, \* bound: failure counts are not told apart above it
    Reconcile    \* runtime.startup_reconcile, with a schema to reset

ASSUME LifecycleConstants ==
    /\ Threshold \in Nat \ {0}
    /\ MaxFailures \in Nat /\ Threshold <= MaxFailures
    /\ Reconcile \in BOOLEAN

VARIABLES
    row,        \* mcp_services
    tools,      \* the services with live rows in tools
    client,     \* the manager's item of each service
    net,        \* what each server does with requests (environment)
    req,        \* the request each goroutine serves
    check,      \* the health check of each service
    tried,      \* the services this process tried to connect (history only)
    abandoned,  \* those whose last attempt could not be recorded (history only)
    overlapped  \* those deleted beside another request (history only)

vars == <<row, tools, client, net, req, check, tried, abandoned, overlapped>>

Statuses == {"DISCONNECTED", "CONNECTING", "CONNECTED", "ERROR"}
Counts   == 0 .. MaxFailures
NoRow    == [state |-> "none", status |-> "DISCONNECTED", failures |-> 0]
NoClient == [there |-> FALSE, status |-> "DISCONNECTED", failures |-> 0, strikes |-> 0]
NoReq    == [op |-> "none", pc |-> "idle", svc |-> "none", failures |-> 0, gone |-> FALSE]
NoCheck  == [pc |-> "idle", status |-> "CONNECTED", failures |-> 0, strikes |-> 0]

Saturate(n) == IF n <= MaxFailures THEN n ELSE MaxFailures

Live(s) == row[s].state = "live"

\* UpdateStatus: no row, no effect, and no error either.
UpdateStatus(s, st, n) ==
    IF Live(s)
    THEN [row EXCEPT ![s] = [@ EXCEPT !.status = st, !.failures = Saturate(n)]]
    ELSE row

\* A statement of a request whose context has ended fails.
Recorded(r, st, n) ==
    IF req[r].gone THEN row ELSE UpdateStatus(req[r].svc, st, n)

Goto(r, pc) == req' = [req EXCEPT ![r].pc = pc]
Answer(r)   == req' = [req EXCEPT ![r] = NoReq]

Drop(s) == [client EXCEPT ![s] = NoClient]

SlipLeftover == {"CONNECTED"}

\* What ResetConnectionStatuses takes for a leftover.
Leftover == {"CONNECTED", "CONNECTING"}

SlipAfterDial(ok) == IF ok THEN "ok" ELSE "drop"

\* Where Connect goes on when the connector has answered.
AfterDial(ok) == IF ok THEN "ok" ELSE "fail"

SlipMayGoOn(closed) == TRUE

\* Delete goes on when the connection is closed or there was none.
MayGoOn(closed) == closed

SlipVerdict(n) == "CONNECTED"

\* A failed check takes the service down at the threshold only.
Verdict(n) == IF n >= Threshold THEN "ERROR" ELSE "CONNECTED"

SlipReported(s) == Live(s) /\ row[s].status # "ERROR"

\* The update callback does nothing for a row that GetByID does not find.
Reported(s) == Live(s)

Init ==
    /\ row = [s \in Services |-> NoRow]
    /\ tools = {}
    /\ client = [s \in Services |-> NoClient]
    /\ net = [s \in Services |-> "up"]
    /\ req = [r \in Requests |-> NoReq]
    /\ check = [s \in Services |-> NoCheck]
    /\ tried = {} /\ abandoned = {} /\ overlapped = {}

-----------------------------------------------------------------------------
(* Requests.                                                               *)

Beside(op, s) ==
    \E q \in Requests :
        /\ req[q].pc # "idle" /\ req[q].svc = s
        /\ op = "delete" \/ req[q].op = "delete"

\* A request that starts with GetByID, which finds the row.
Open(r, op, s, pc) ==
    /\ req[r].pc = "idle" /\ Live(s)
    /\ req' = [req EXCEPT ![r] = [op |-> op, pc |-> pc, svc |-> s,
                                  failures |-> row[s].failures, gone |-> FALSE]]
    /\ overlapped' = IF Beside(op, s) THEN overlapped \cup {s} ELSE overlapped
    /\ UNCHANGED <<row, tools, client, net, check, tried, abandoned>>

Create(r, s) ==
    /\ req[r].pc = "idle" /\ row[s].state = "none"
    /\ row' = [row EXCEPT ![s].state = "live"]
    /\ UNCHANGED <<tools, client, net, req, check, tried, abandoned, overlapped>>

Update(r, s)  == Open(r, "update", s, "save")

\* Save writes all columns of the rebuilt entity, whose status is the one of
\* a new row.  Where it finds no row to update it inserts one (gorm.DB.Save),
\* so that a row that was deleted since it was read is there again.
SaveUpdate(r) ==
    LET s == req[r].svc IN
    /\ req[r].pc = "save"
    /\ row' = IF req[r].gone THEN row
              ELSE [row EXCEPT ![s] = [NoRow EXCEPT !.state = "live"]]
    /\ Answer(r)
    /\ UNCHANGED <<tools, client, net, check, tried, abandoned, overlapped>>

Connect(r, s) == Open(r, "connect", s, "mark")

MarkConnecting(r) ==
    LET s == req[r].svc IN
    /\ req[r].pc = "mark"
    /\ row' = Recorded(r, "CONNECTING", req[r].failures)
    /\ tried' = tried \cup {s}
    /\ abandoned' = abandoned \ {s}
    /\ Goto(r, "dial")
    /\ UNCHANGED <<tools, client, net, check, overlapped>>

\* Manager.Connect closes the old client, and makes the new one with the
\* failure count of the row it was given.
Dial(r) ==
    LET s == req[r].svc  ok == net[s] # "down" IN
    /\ req[r].pc = "dial"
    /\ client' = IF ok
                 THEN [client EXCEPT ![s] = [there |-> TRUE, status |-> "CONNECTED",
                                             failures |-> req[r].failures, strikes |-> 0]]
                 ELSE Drop(s)
    /\ net' = IF ok THEN [net EXCEPT ![s] = "up"] ELSE net
    /\ Goto(r, AfterDial(ok))
    /\ UNCHANGED <<row, tools, check, tried, abandoned, overlapped>>

Unrecorded(r) ==
    IF req[r].gone THEN abandoned \cup {req[r].svc} ELSE abandoned

RecordConnected(r) ==
    /\ req[r].pc = "ok"
    /\ row' = Recorded(r, "CONNECTED", 0)
    /\ abandoned' = Unrecorded(r)
    /\ Answer(r)
    /\ UNCHANGED <<tools, client, net, check, tried, overlapped>>

RecordFailed(r) ==
    /\ req[r].pc = "fail"
    /\ row' = Recorded(r, "ERROR", req[r].failures + 1)
    /\ abandoned' = Unrecorded(r)
    /\ Goto(r, "drop")
    /\ UNCHANGED <<tools, client, net, check, tried, overlapped>>

\* recordServiceError disconnects again, whoever has connected since.
DropFailed(r) ==
    /\ req[r].pc = "drop"
    /\ client' = Drop(req[r].svc)
    /\ Answer(r)
    /\ UNCHANGED <<row, tools, net, check, tried, abandoned, overlapped>>

\* Disconnect does not read the row.  The connection is closed, or was not
\* there; or Close fails, and the request with it.
Disconnect(r, s) ==
    /\ req[r].pc = "idle"
    /\ client' = Drop(s)
    /\ req' = [req EXCEPT ![r] = [NoReq EXCEPT !.op = "disconnect", !.pc = "left", !.svc = s]]
    /\ UNCHANGED <<row, tools, net, check, tried, abandoned, overlapped>>

RecordDisconnected(r) ==
    /\ req[r].pc = "left"
    /\ row' = Recorded(r, "DISCONNECTED", 0)
    /\ Answer(r)
    /\ UNCHANGED <<tools, client, net, check, tried, abandoned, overlapped>>

Delete(r, s) == Open(r, "delete", s, "close")

CloseDeleted(r) ==
    \E closed \in BOOLEAN :
        /\ req[r].pc = "close"
        /\ closed \/ client[req[r].svc].there
        /\ client' = IF closed THEN Drop(req[r].svc) ELSE client
        /\ IF MayGoOn(closed) THEN Goto(r, "purge") ELSE Answer(r)
        /\ UNCHANGED <<row, tools, net, check, tried, abandoned, overlapped>>

DeleteTools(r) ==
    /\ req[r].pc = "purge"
    /\ IF req[r].gone THEN Answer(r) /\ UNCHANGED tools
       ELSE Goto(r, "remove") /\ tools' = tools \ {req[r].svc}
    /\ UNCHANGED <<row, client, net, check, tried, abandoned, overlapped>>

\* The row may have been deleted by another request: ErrNotFound.
DeleteRow(r) ==
    LET s == req[r].svc IN
    /\ req[r].pc = "remove"
    /\ row' = IF req[r].gone \/ ~Live(s) THEN row
              ELSE [row EXCEPT ![s].state = "deleted"]
    /\ Answer(r)
    /\ UNCHANGED <<tools, client, net, check, tried, abandoned, overlapped>>

\* Invoke and Sync read the row and refuse a service in ERROR.
Invoke(r, s) == row[s].status # "ERROR" /\ Open(r, "invoke", s, "call")
Sync(r, s)   == row[s].status # "ERROR" /\ Open(r, "sync", s, "call")

\* The manager's CallTool or ListTools: no client; an answer, which resets the
\* client's failures; an error, which does not; or the end of the session,
\* which removes the client and goes on to normalizeToolActionError.
Call(r) ==
    LET s == req[r].svc  there == client[s].there IN
    /\ req[r].pc = "call"
    /\ client' = IF ~there \/ net[s] = "down" THEN client
                 ELSE IF net[s] = "amnesic" THEN Drop(s)
                 ELSE [client EXCEPT ![s] = [NoClient EXCEPT !.there = TRUE,
                                                             !.status = "CONNECTED"]]
    /\ IF there /\ net[s] = "amnesic" THEN Goto(r, "normalize")
       ELSE IF there /\ net[s] = "up" /\ req[r].op = "sync" THEN Goto(r, "upsert")
       ELSE Answer(r)
    /\ UNCHANGED <<row, tools, net, check, tried, abandoned, overlapped>>

BatchUpsert(r) ==
    /\ req[r].pc = "upsert"
    /\ tools' = IF req[r].gone THEN tools ELSE tools \cup {req[r].svc}
    /\ Answer(r)
    /\ UNCHANGED <<row, client, net, check, tried, abandoned, overlapped>>

normalizeToolActionError(r) ==
    /\ req[r].pc = "normalize"
    /\ row' = Recorded(r, "ERROR", req[r].failures + 1)
    /\ Answer(r)
    /\ UNCHANGED <<tools, client, net, check, tried, abandoned, overlapped>>

\* The HTTP client goes away: the context of the request ends.
HangUp(r) ==
    /\ req[r].pc # "idle" /\ ~req[r].gone
    /\ req' = [req EXCEPT ![r].gone = TRUE]
    /\ UNCHANGED <<row, tools, client, net, check, tried, abandoned, overlapped>>

\* What the handlers of services, of connections and of tools begin.
Manage(r)  == \E s \in Services : Create(r, s) \/ Update(r, s) \/ Delete(r, s)
Operate(r) == \E s \in Services : Connect(r, s) \/ Disconnect(r, s)
Use(r)     == \E s \in Services : Invoke(r, s) \/ Sync(r, s)
Arrive(r)  == Manage(r) \/ Operate(r) \/ Use(r)

Serve(r) ==
    \/ SaveUpdate(r)
    \/ MarkConnecting(r) \/ Dial(r) \/ RecordConnected(r) \/ RecordFailed(r) \/ DropFailed(r)
    \/ RecordDisconnected(r)
    \/ CloseDeleted(r) \/ DeleteTools(r) \/ DeleteRow(r)
    \/ Call(r) \/ BatchUpsert(r) \/ normalizeToolActionError(r)

-----------------------------------------------------------------------------
(* The health checker.                                                     *)

\* checkOnce: one goroutine for each item; the round before has ended.
StartRound ==
    /\ \A s \in Services : check[s].pc = "idle"
    /\ \E s \in Services : client[s].there
    /\ check' = [s \in Services |->
                    IF client[s].there THEN [NoCheck EXCEPT !.pc = "ping"] ELSE NoCheck]
    /\ UNCHANGED <<row, tools, client, net, req, tried, abandoned, overlapped>>

Found(s, st, n, k) ==
    check' = [check EXCEPT ![s] = [pc |-> "apply", status |-> st,
                                   failures |-> Saturate(n), strikes |-> Saturate(k)]]

\* Ping, or ListTools where ping is not supported, goes well: markHealthy.
PingAnswered(s) ==
    /\ check[s].pc = "ping" /\ client[s].there /\ net[s] = "up"
    /\ client' = [client EXCEPT ![s] = [NoClient EXCEPT !.there = TRUE, !.status = "CONNECTED"]]
    /\ Found(s, "CONNECTED", 0, 0)
    /\ UNCHANGED <<row, tools, net, req, tried, abandoned, overlapped>>

\* It fails, and the client stays: markFailure.
PingFailed(s) ==
    LET c == client[s] IN
    /\ check[s].pc = "ping" /\ c.there /\ net[s] = "down"
    /\ client' = [client EXCEPT ![s].strikes = Saturate(c.strikes + 1)]
    /\ Found(s, Verdict(c.failures + 1), c.failures + 1, c.strikes + 1)
    /\ UNCHANGED <<row, tools, net, req, tried, abandoned, overlapped>>

\* The service was disconnected meanwhile; the status is the zero value.
PingMissed(s) ==
    /\ check[s].pc = "ping" /\ ~client[s].there
    /\ Found(s, Verdict(1), 1, 1)
    /\ UNCHANGED <<row, tools, client, net, req, tried, abandoned, overlapped>>

\* The session is gone, and the manager has removed the client.  markFailure
\* sees it in the error of Ping; of the error of ListTools it gets the text.
PingExpired(s) ==
    LET n == client[s].failures + 1 IN
    /\ check[s].pc = "ping" /\ client[s].there /\ net[s] = "amnesic"
    /\ client' = Drop(s)
    /\ \/ Found(s, "ERROR", Threshold, Threshold)
       \/ Found(s, Verdict(n), n, n)
    /\ UNCHANGED <<row, tools, net, req, tried, abandoned, overlapped>>

\* By id: the client may be another one by now, or none.
ApplyHealthState(s) ==
    LET v == check[s] IN
    /\ v.pc = "apply"
    /\ client' = IF client[s].there
                 THEN [client EXCEPT ![s] = [@ EXCEPT !.status = v.status, !.failures = v.failures]]
                 ELSE client
    /\ check' = [check EXCEPT ![s].pc = "report"]
    /\ UNCHANGED <<row, tools, net, req, tried, abandoned, overlapped>>

UpdateRow(s) ==
    LET v == check[s] IN
    /\ v.pc = "report"
    /\ row' = IF Reported(s) THEN UpdateStatus(s, v.status, v.failures) ELSE row
    /\ check' = [check EXCEPT ![s] = IF Reported(s) /\ v.status = "ERROR"
                                     THEN [v EXCEPT !.pc = "drop"] ELSE NoCheck]
    /\ UNCHANGED <<tools, client, net, req, tried, abandoned, overlapped>>

DropUnhealthy(s) ==
    /\ check[s].pc = "drop"
    /\ client' = Drop(s)
    /\ check' = [check EXCEPT ![s] = NoCheck]
    /\ UNCHANGED <<row, tools, net, req, tried, abandoned, overlapped>>

Ping(s)  == PingAnswered(s) \/ PingFailed(s) \/ PingMissed(s) \/ PingExpired(s)
Check(s) == Ping(s) \/ ApplyHealthState(s) \/ UpdateRow(s) \/ DropUnhealthy(s)

-----------------------------------------------------------------------------
(* The process and its environment.                                        *)

\* The row as a starting process leaves it before it serves: only if that is
\* configured is it reset (ResetConnectionStatuses), and an ERROR stays.
AtStart(s) ==
    IF Reconcile /\ Live(s) /\ row[s].status \in Leftover
    THEN [NoRow EXCEPT !.state = "live"] ELSE row[s]

\* A process ends, orderly or not, and the next one starts.
Restart ==
    /\ row' = [s \in Services |-> AtStart(s)]
    /\ client' = [s \in Services |-> NoClient]
    /\ req' = [r \in Requests |-> NoReq]
    /\ check' = [s \in Services |-> NoCheck]
    /\ tried' = {} /\ abandoned' = {}
    /\ UNCHANGED <<tools, net, overlapped>>

\* A server stops or comes back, or forgets its sessions.
NetChanges(s) ==
    /\ \/ net[s] # "down" /\ net' = [net EXCEPT ![s] = "down"]
       \/ net[s] = "down" /\ net' = [net EXCEPT ![s] = "up"]
       \/ net[s] # "amnesic" /\ net' = [net EXCEPT ![s] = "amnesic"]
    /\ UNCHANGED <<row, tools, client, req, check, tried, abandoned, overlapped>>

Next ==
    \/ \E r \in Requests : Arrive(r) \/ Serve(r) \/ HangUp(r)
    \/ StartRound
    \/ \E s \in Services : Check(s) \/ NetChanges(s)
    \/ Restart

Spec == Init /\ [][Next]_vars

\* Requests that were accepted go on, rounds are started by the ticker, and
\* every check ends because its context has a timeout.
FairSpec ==
    /\ Spec
    /\ \A r \in Requests : WF_vars(Serve(r))
    /\ WF_vars(StartRound)
    /\ \A s \in Services : WF_vars(Check(s))

-----------------------------------------------------------------------------
(* Properties.                                                             *)

Ops == {"none", "update", "connect", "disconnect", "delete", "invoke", "sync"}
Pcs == {"idle", "save", "mark", "dial", "ok", "fail", "drop", "left", "close",
        "purge", "remove", "call", "upsert", "normalize"}

TypeOK ==
    /\ row \in [Services -> [state : {"none", "live", "deleted"},
                             status : Statuses, failures : Counts]]
    /\ tools \subseteq Services
    /\ client \in [Services -> [there : BOOLEAN, status : Statuses,
                                failures : Counts, strikes : Counts]]
    /\ net \in [Services -> {"up", "down", "amnesic"}]
    /\ req \in [Requests -> [op : Ops, pc : Pcs, svc : Services \cup {"none"},
                             failures : Counts, gone : BOOLEAN]]
    /\ check \in [Services -> [pc : {"idle", "ping", "apply", "report", "drop"},
                               status : Statuses, failures : Counts, strikes : Counts]]
    /\ tried \cup abandoned \cup overlapped \subseteq Services

\* With startup_reconcile, a service that reads CONNECTED or CONNECTING was
\* connected, or is being connected, by the process that runs: no claim survives
\* a restart (app.go:211-218), in whatever step the last process ended.  Without
\* it every claim does, until somebody connects or disconnects the service.
ClaimsAreOfThisRun ==
    Reconcile => \A s \in Services :
        Live(s) /\ row[s].status \in {"CONNECTED", "CONNECTING"} => s \in tried

\* With startup_reconcile, a row reads CONNECTING only while a Connect has still
\* to write its result, however many of them overlap; or when the caller of the
\* last one hung up, so that its result could not be written (mcpService.Connect
\* ignores that error).  Without it a process that ends inside a Connect leaves
\* its row CONNECTING for good, with nobody to write the result.
ConnectingIsOwned ==
    Reconcile => \A s \in Services :
        Live(s) /\ row[s].status = "CONNECTING" =>
            \/ s \in abandoned
            \/ \E r \in Requests : req[r].svc = s /\ req[r].pc \in {"dial", "ok", "fail"}

\* A service whose deletion met no other request leaves no connection and no
\* tools behind, although Delete is four steps of which any may fail and a
\* health check may run beside them.
DeletedIsClean ==
    \A s \in Services :
        row[s].state = "deleted" /\ s \notin overlapped =>
            ~client[s].there /\ s \notin tools

Quiet == \A r \in Requests : req[r].pc = "idle"

\* Once requests have ceased, the connection of a server that stays down or has
\* lost its session is dropped by the health checker (which a deleted row would
\* prevent), wherever its checks and the last requests crossed.
DeadIsDropped ==
    \A s \in Services :
        <>[](Quiet /\ net[s] # "up" /\ Live(s)) => <>[](~client[s].there)

\* Once requests have ceased, the row of a connection whose server stays up says
\* CONNECTED in the end, whatever crossing writes left in it before.
AliveIsReported ==
    \A s \in Services :
        <>[](Quiet /\ net[s] = "up" /\ Live(s) /\ client[s].there) =>
            <>[](row[s].status = "CONNECTED" /\ client[s].failures = 0)

\* docs/MCP服务管理平台_编码任务序列_完整版.md:2558: a check takes a service down
\* when Threshold checks of the connection have failed in succession.
StrikesInSuccession ==
    \A s \in Services :
        check[s].pc = "apply" /\ check[s].status = "ERROR" =>
            check[s].strikes >= Threshold

=============================================================================
