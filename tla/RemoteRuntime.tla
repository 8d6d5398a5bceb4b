---------------------------- MODULE RemoteRuntime ----------------------------
(***************************************************************************)
(* One service in the split deployment: requests on the control plane, the *)
(* RPC between them and the executor (rpc/client.go, rpc/server.go), the   *)
(* executor with the connection, and the snapshots of its status that both *)
(* sides keep in Redis (remote_runtime_adapter.go, local_runtime_adapter.go,*)
(* runtime_store.go).                                                      *)
(*                                                                         *)
(* A caller may give up at any time and must at the RPC's timeout; what it *)
(* has asked for goes on at the executor.  Writes to Redis may fail, and   *)
(* take any time.  Abstracted: how a connection is made                    *)
(* (ConnectionManager), the status in the row, the steps of the health     *)
(* checks and the rows of tools (ServiceLifecycle), the fields of a        *)
(* runtime status, of which only its existence and its age are kept.       *)
(* Time passes in ticks; ages above Stale are not told apart.              *)
(***************************************************************************)
EXTENDS Naturals

CONSTANTS
    Requests,  \* goroutines of the control plane
    Late,      \* what an RPC whose caller has given up is called (one at most)
    TTL,       \* runtime.snapshot_ttl
    Timeout    \* rpc.request_timeout

ASSUME RemoteConstants ==
    /\ TTL \in Nat \ {0} /\ Timeout \in Nat \ {0}
    /\ Late \notin Requests

VARIABLES
    deleted,   \* the row in mcp_services is
    up,        \* the executor runs
    client,    \* the executor has a connection
    snap,      \* runtime:snapshot in Redis
    req,       \* the control plane's side of each request
    job,       \* the executor's side of it
    crossed,   \* a Connect was under way together with a Delete (history only)
    refused    \* an answer that there is no connection was an error (history only)

vars == <<deleted, up, client, snap, req, job, crossed, refused>>

Slots == Requests \cup {Late}
Stale == TTL + Timeout + 1
Age(n) == IF n = Stale THEN n ELSE n + 1
Ops == {"connect", "disconnect", "delete", "undo", "status", "use"}

\* A status of the connection, if there was one: the time since it was read,
\* and since its ObservedAt.
NoStatus == [is |-> FALSE, seen |-> 0, saved |-> 0]
Read(connected) == [NoStatus EXCEPT !.is = connected]
Observed(p) == [p EXCEPT !.saved = 0]
Older(p) == IF p.is THEN [p EXCEPT !.seen = Age(@), !.saved = Age(@)] ELSE p

NoSnap == [read |-> NoStatus, left |-> 0]
NoReq == [pc |-> "idle", op |-> "status", wait |-> 0, read |-> NoStatus]
NoJob == [pc |-> "none", op |-> "status", read |-> NoStatus, result |-> "ok"]

\* SET with the TTL.
Stored(p) == [read |-> p, left |-> TTL]

SlipFresh(s) == s.left > 0

\* Status takes a snapshot by its ObservedAt, while Redis counts from the SET.
Fresh(s) == s.left > 0 /\ s.read.saved <= TTL

\* An error travels as a text and is no error value of mcpclient any more.
EndpointError(result) == IF result = "gone" THEN "text" ELSE result

SlipMayGoOn(result) == TRUE

\* Disconnect and Delete go on after success and after ErrServiceNotConnected.
MayGoOn(result) == result \in {"ok", "gone"}

AtWork(op) == \/ \E r \in Requests : req[r].pc # "idle" /\ req[r].op = op
              \/ \E x \in Slots : job[x].pc # "none" /\ job[x].op = op

Init ==
    /\ deleted = FALSE /\ up = TRUE /\ client = FALSE /\ snap = NoSnap
    /\ req = [r \in Requests |-> NoReq] /\ job = [x \in Slots |-> NoJob]
    /\ crossed = FALSE /\ refused = FALSE

-----------------------------------------------------------------------------
(* The control plane.                                                      *)

Goto(r, pc) == req' = [req EXCEPT ![r].pc = pc]
Finish(r)   == req' = [req EXCEPT ![r] = NoReq]

\* The request reads the row first.
Begin(r, op) ==
    /\ req[r].pc = "idle" /\ ~deleted
    /\ req' = [req EXCEPT ![r] = [NoReq EXCEPT !.pc = "send", !.op = op]]
    /\ crossed' = \/ crossed
                  \/ op = "connect" /\ AtWork("delete")
                  \/ op = "delete" /\ AtWork("connect")
    /\ UNCHANGED <<deleted, up, client, snap, job, refused>>

\* doJSON: an executor that is down does not get the request.
Send(r) ==
    /\ req[r].pc = "send"
    /\ Goto(r, "wait")
    /\ job' = IF up THEN [job EXCEPT ![r] = [NoJob EXCEPT !.pc = "call", !.op = req[r].op]]
              ELSE job
    /\ UNCHANGED <<deleted, up, client, snap, crossed, refused>>

\* A status is saved with the time at which it arrived.  A Connect that failed
\* disconnects, whatever comes of it (recordServiceError); a Status that failed
\* or found nothing looks for a snapshot.
Resume(r, result, p) ==
    LET q == req[r] IN
    CASE p.is -> req' = [req EXCEPT ![r] = [NoReq EXCEPT !.pc = "save", !.op = q.op,
                                                         !.read = Observed(p)]]
      [] ~p.is /\ q.op = "connect" ->
            req' = [req EXCEPT ![r] = [NoReq EXCEPT !.pc = "send", !.op = "undo"]]
      [] ~p.is /\ q.op = "status" ->
            req' = [req EXCEPT ![r] = [NoReq EXCEPT !.pc = "fallback"]]
      [] q.op \in {"disconnect", "delete"} /\ result = "ok" ->
            req' = [req EXCEPT ![r] = [NoReq EXCEPT !.pc = "drop", !.op = q.op]]
      [] q.op = "delete" /\ result # "ok" /\ MayGoOn(result) ->
            req' = [req EXCEPT ![r] = [NoReq EXCEPT !.pc = "row", !.op = q.op]]
      [] OTHER -> Finish(r)

Receive(r) ==
    LET j == job[r]  q == req[r] IN
    /\ q.pc = "wait" /\ j.pc = "reply"
    /\ Resume(r, EndpointError(j.result), j.read)
    /\ job' = [job EXCEPT ![r] = NoJob]
    /\ refused' = (refused \/ ( /\ q.op \in {"disconnect", "delete"} /\ j.result = "gone"
                                /\ ~MayGoOn(EndpointError(j.result)) ))
    /\ UNCHANGED <<deleted, up, client, snap, crossed>>

\* The timeout, a broken connection, or a response that cannot be decoded: what
\* was asked for goes on at the executor.
Lose(r) ==
    /\ req[r].pc = "wait"
    /\ Resume(r, "lost", NoStatus)
    /\ IF job[r].pc \in {"none", "reply"} THEN job' = [job EXCEPT ![r] = NoJob]
       ELSE job[Late].pc = "none" /\ job' = [job EXCEPT ![Late] = job[r], ![r] = NoJob]
    /\ UNCHANGED <<deleted, up, client, snap, crossed, refused>>

\* persistSnapshot, and the DEL after Disconnect: errors are logged.
Save(r) ==
    /\ req[r].pc = "save"
    /\ snap' \in {snap, Stored(req[r].read)}
    /\ Finish(r)
    /\ UNCHANGED <<deleted, up, client, job, crossed, refused>>

DropSnapshot(r) ==
    /\ req[r].pc = "drop"
    /\ snap' \in {snap, NoSnap}
    /\ IF req[r].op = "delete" THEN Goto(r, "row") ELSE Finish(r)
    /\ UNCHANGED <<deleted, up, client, job, crossed, refused>>

DeleteRow(r) ==
    /\ req[r].pc = "row"
    /\ deleted' = TRUE
    /\ Finish(r)
    /\ UNCHANGED <<up, client, snap, job, crossed, refused>>

\* A fresh snapshot, or else the row.
Fallback(r) ==
    /\ req[r].pc = "fallback"
    /\ Finish(r)
    /\ UNCHANGED <<deleted, up, client, snap, job, crossed, refused>>

-----------------------------------------------------------------------------
(* The executor.                                                           *)

\* Nobody waits for the answer to a late request.
Answered(x, result, p) ==
    [job EXCEPT ![x] = IF x = Late THEN NoJob
                       ELSE [@ EXCEPT !.pc = "reply", !.result = result, !.read = p]]
Continued(x, pc, p) == [job EXCEPT ![x] = [@ EXCEPT !.pc = pc, !.read = p]]

\* The old connection is closed first (Manager.Connect).
HandleConnect(x) ==
    /\ job[x].pc = "call" /\ job[x].op = "connect"
    /\ client' \in BOOLEAN
    /\ job' = IF client' THEN Continued(x, "save", Read(TRUE))
              ELSE Answered(x, "failed", NoStatus)
    /\ UNCHANGED <<deleted, up, snap, req, crossed, refused>>

\* Without a connection ErrServiceNotConnected; close may fail.
HandleDisconnect(x) ==
    /\ job[x].pc = "call" /\ job[x].op \in {"disconnect", "delete", "undo"}
    /\ \/ ~client /\ client' = client /\ job' = Answered(x, "gone", NoStatus)
       \/ client /\ client' = client /\ job' = Answered(x, "failed", NoStatus)
       \/ client /\ client' = FALSE /\ job' = Continued(x, "drop", NoStatus)
    /\ UNCHANGED <<deleted, up, snap, req, crossed, refused>>

\* GetStatus finds nothing, which is no error; ListTools and CallTool fail.
HandleStatus(x) ==
    /\ job[x].pc = "call" /\ job[x].op = "status"
    /\ job' = IF client THEN Continued(x, "save", Read(client)) ELSE Answered(x, "ok", NoStatus)
    /\ UNCHANGED <<deleted, up, client, snap, req, crossed, refused>>

HandleUse(x) ==
    /\ job[x].pc = "call" /\ job[x].op = "use"
    /\ job' = IF client THEN Continued(x, "save", Read(client)) ELSE Answered(x, "gone", NoStatus)
    /\ UNCHANGED <<deleted, up, client, snap, req, crossed, refused>>

\* The executor keeps the snapshot as well, before it answers.
Persist(x) ==
    LET j == job[x] IN
    /\ \/ j.pc = "save" /\ snap' \in {snap, Stored(j.read)}
       \/ j.pc = "drop" /\ snap' \in {snap, NoSnap}
    /\ job' = Answered(x, "ok", j.read)
    /\ UNCHANGED <<deleted, up, client, req, crossed, refused>>

\* A health check that finds the row takes a connection down that has failed;
\* the snapshot stays.
DropUnhealthy ==
    /\ client /\ ~deleted
    /\ client' = FALSE
    /\ UNCHANGED <<deleted, up, snap, req, job, crossed, refused>>

Crash ==
    /\ up
    /\ up' = FALSE /\ client' = FALSE
    /\ job' = [x \in Slots |-> NoJob]
    /\ UNCHANGED <<deleted, snap, req, crossed, refused>>

Restart ==
    /\ ~up /\ up' = TRUE
    /\ UNCHANGED <<deleted, client, snap, req, job, crossed, refused>>

-----------------------------------------------------------------------------
\* No time passes for a caller whose timeout has come.
Tick ==
    /\ \A r \in Requests : req[r].wait < Timeout
    /\ snap' = IF snap.left <= 1 THEN NoSnap
               ELSE [read |-> Older(snap.read), left |-> snap.left - 1]
    /\ req' = [r \in Requests |-> [req[r] EXCEPT !.read = Older(@),
                                                 !.wait = IF req[r].pc = "wait" THEN @ + 1 ELSE 0]]
    /\ job' = [x \in Slots |-> [job[x] EXCEPT !.read = Older(@)]]
    /\ UNCHANGED <<deleted, up, client, crossed, refused>>

Control(r) ==
    \/ \E op \in Ops \ {"undo"} : Begin(r, op)
    \/ Send(r) \/ Receive(r) \/ Lose(r) \/ Save(r) \/ DropSnapshot(r)
    \/ DeleteRow(r) \/ Fallback(r)
Execute(x) == \/ HandleConnect(x) \/ HandleDisconnect(x) \/ HandleStatus(x)
              \/ HandleUse(x) \/ Persist(x)

Next == \/ Tick \/ DropUnhealthy \/ Crash \/ Restart
        \/ \E r \in Requests : Control(r)
        \/ \E x \in Slots : Execute(x)

Spec == Init /\ [][Next]_vars

-----------------------------------------------------------------------------
(* Properties.                                                             *)

Reads == [is : BOOLEAN, seen : 0 .. Stale, saved : 0 .. Stale]

TypeOK ==
    /\ deleted \in BOOLEAN /\ up \in BOOLEAN /\ client \in BOOLEAN
    /\ crossed \in BOOLEAN /\ refused \in BOOLEAN
    /\ snap \in [read : Reads, left : 0 .. TTL]
    /\ req \in [Requests -> [pc : {"idle", "send", "wait", "save", "drop", "row", "fallback"},
                             op : Ops, wait : 0 .. Timeout, read : Reads]]
    /\ job \in [Slots -> [pc : {"none", "call", "save", "drop", "reply"}, op : Ops,
                          read : Reads, result : {"ok", "gone", "failed"}]]

\* What Status takes for fresh was true at the executor not longer ago than a
\* snapshot lives and a call may last, however long the answer, the write to
\* Redis and the writes of others took in between.
FreshIsRecent == Fresh(snap) => snap.read.seen <= TTL + Timeout

\* A deleted service has no connection: a Delete that cannot know whether the
\* executor has disconnected does not go on.  Only a Connect that was under way
\* at the same time, perhaps for a caller that had given up, makes another.
DeletedIsCutOff == deleted /\ client => crossed

\* Disconnect and Delete of a service that is not connected are not errors, as
\* in a single process (the comparison with ErrServiceNotConnected).
NotConnectedIsNoError == ~refused
=============================================================================
