------------------------------- MODULE Server -------------------------------
(***************************************************************************)
(* One process from start to end: what bootstrap.Builder puts together for *)
(* its role, the invocations it serves, and the way down: the shutdown of  *)
(* its HTTP servers and the clean-up functions, last registered first      *)
(* (bootstrap/app.go, cmd/server/main.go, tool_invoke_service.go).         *)
(*                                                                         *)
(* A clean-up function stands for what it stops: a component is there as   *)
(* long as its name is in cleanupFns.  A queue that is being stopped is    *)
(* closed and drains.  Abstracted: tasks and queues in detail (AsyncTasks, *)
(* AsyncQueue), rate limits (Limits), Redis and the alert queue, which are *)
(* stopped between those that are here, and what a tool is asked.          *)
(***************************************************************************)
EXTENDS Naturals, Sequences, FiniteSets

CONSTANTS
    Invocations,  \* requests to call a tool, each made at most once
    Concurrency,  \* execution.executor_concurrency
    Workers,      \* execution.async_task_workers
    QueueSize     \* history.queue_size

ASSUME ServerConstants ==
    Concurrency \in Nat \ {0} /\ Workers \in Nat \ {0} /\ QueueSize \in Nat \ {0}

VARIABLES
    cfg,         \* the configuration
    schema,      \* the tables are in the database
    pc,          \* where main is
    failed,      \* what it is going to report is an error
    cleanupFns,  \* the functions registered and not yet run through
    closing,     \* the last of them has begun
    listening,   \* servers that accept connections
    servers,     \* servers that shutdownServers has not finished with
    expired,     \* the context of the shutdown has
    call,        \* the HTTP or RPC handler of an invocation
    task,        \* the asynchronous task of an invocation
    hist,        \* its row in request_histories
    health       \* the goroutine of the health checker

vars == <<cfg, schema, pc, failed, cleanupFns, closing, listening, servers, expired,
          call, task, hist, health>>
main == <<cfg, schema, pc, failed, cleanupFns, closing, listening, servers, expired>>

Gone == {"exited", "fatal", "crashed"}
Alive == pc \notin Gone
LoadedConfigs == [role : {"all", "control-plane", "executor"}, rpc : BOOLEAN,
                  tasks : BOOLEAN, history : BOOLEAN, audit : BOOLEAN]

\* validateRPC: split roles need the RPC.
Valid(c) == c.role \in {"control-plane", "executor"} => c.rpc

RunsControlPlane == cfg.role \in {"all", "control-plane"}
RunsLocalRuntime == cfg.role \in {"all", "executor"}

\* An executor serves the API over its second server only.
Names == IF cfg.role = "executor" THEN <<"http", "rpc">> ELSE <<"http">>
Serves(kind) == IF kind = "rpc" THEN cfg.role = "executor" /\ "rpc" \in listening
                ELSE RunsControlPlane /\ "http" \in listening

\* What Build registers, in its order, each if the configuration wants it.
Wanted(f) == \/ f \in {"db", "invoke"}
             \/ f = "audit" /\ cfg.audit
             \/ f = "history" /\ cfg.history
             \/ f = "health" /\ RunsLocalRuntime
             \/ f = "cleanup" /\ RunsControlPlane
IfWanted(f) == IF Wanted(f) THEN <<f>> ELSE <<>>
Registered == <<"db">> \o IfWanted("audit") \o IfWanted("history") \o <<"invoke">>
              \o IfWanted("health") \o IfWanted("cleanup")

There(f) == \E i \in DOMAIN cleanupFns : cleanupFns[i] = f

SlipPosition == 1

\* Cleanup runs the functions from the last to the first.
Position == Len(cleanupFns)
NextFn == cleanupFns[Position]
Open(f) == There(f) /\ ~(closing /\ NextFn = f)
Others == SubSeq(cleanupFns, 1, Position - 1)
          \o SubSeq(cleanupFns, Position + 1, Len(cleanupFns))

Init ==
    /\ cfg \in LoadedConfigs /\ schema \in BOOLEAN
    /\ pc = "load" /\ failed = FALSE /\ cleanupFns = <<>> /\ closing = FALSE
    /\ listening = {} /\ servers = <<>> /\ expired = FALSE
    /\ call = [i \in Invocations |-> "none"] /\ task = [i \in Invocations |-> "none"]
    /\ hist = [i \in Invocations |-> "none"] /\ health = "idle"

-----------------------------------------------------------------------------
(* Start-up.                                                               *)

\* An invalid configuration is a panic.
Load ==
    /\ pc = "load"
    /\ pc' = IF Valid(cfg) THEN "open" ELSE "fatal"
    /\ UNCHANGED <<cfg, schema, failed, cleanupFns, closing, listening, servers, expired,
                   call, task, hist, health>>

OpenDatabase ==
    /\ pc = "open"
    /\ \/ pc' = "fatal" /\ UNCHANGED cleanupFns
       \/ pc' = "migrate" /\ cleanupFns' = <<"db">>
    /\ UNCHANGED <<cfg, schema, failed, closing, listening, servers, expired,
                   call, task, hist, health>>

\* A step of the preparation that fails ends the start, after the clean-up.
Prepared(step, next) ==
    /\ pc = step
    /\ UNCHANGED <<cfg, cleanupFns, closing, listening, servers, expired,
                   call, task, hist, health>>
    /\ \/ pc' = next /\ UNCHANGED failed
       \/ pc' = "clean" /\ failed' = TRUE
Skipped(step, next) ==
    /\ pc = step /\ pc' = next
    /\ UNCHANGED <<cfg, failed, cleanupFns, closing, listening, servers, expired,
                   call, task, hist, health>>

\* Migrations that fail have changed the tables they had come to.
Migrate ==
    IF RunsControlPlane
    THEN /\ Prepared("migrate", "admin")
         /\ schema' \in {schema, TRUE} /\ (pc' = "admin" => schema')
    ELSE Skipped("migrate", "admin") /\ UNCHANGED schema

EnsureAdmin ==
    /\ IF RunsControlPlane THEN Prepared("admin", "reconcile") ELSE Skipped("admin", "reconcile")
    /\ UNCHANGED schema

\* Unless the configuration leaves it out; an executor may come up before the
\* tables are there.
Reconcile ==
    /\ \/ Skipped("reconcile", "assemble")
       \/ /\ RunsLocalRuntime /\ (RunsControlPlane \/ schema)
          /\ Prepared("reconcile", "assemble")
    /\ UNCHANGED schema

Assemble ==
    /\ pc = "assemble"
    /\ cleanupFns' = Registered
    /\ pc' = "serve" /\ servers' = Names
    /\ listening' = {Names[i] : i \in DOMAIN Names}
    /\ UNCHANGED <<cfg, schema, failed, closing, expired, call, task, hist, health>>

-----------------------------------------------------------------------------
(* The way down.                                                           *)

\* A signal, or a server that cannot listen any more.
Stop ==
    /\ pc = "serve"
    /\ pc' = "shutdown" /\ failed' \in BOOLEAN
    /\ UNCHANGED <<cfg, schema, cleanupFns, closing, listening, servers, expired,
                   call, task, hist, health>>

Handles(s, i) == call[i] \notin {"none", "ok", "error"} /\ (s = "rpc" <=> cfg.role = "executor")

SlipFinished(s) == ~\E i \in Invocations : Handles(s, i)

\* Shutdown waits for the handlers of the server or for its context.
Finished(s) == expired \/ ~\E i \in Invocations : Handles(s, i)

\* The servers one after the other, all under one deadline.
Shutdown ==
    /\ pc = "shutdown"
    /\ \/ /\ servers # <<>> /\ Head(servers) \in listening
          /\ listening' = listening \ {Head(servers)}
          /\ UNCHANGED <<pc, servers>>
       \/ /\ servers # <<>> /\ Head(servers) \notin listening /\ Finished(Head(servers))
          /\ servers' = Tail(servers)
          /\ UNCHANGED <<pc, listening>>
       \/ /\ servers = <<>>
          /\ pc' = IF failed THEN "fatal" ELSE "clean"
          /\ UNCHANGED <<servers, listening>>
    /\ UNCHANGED <<cfg, schema, failed, cleanupFns, closing, expired, call, task, hist, health>>

Expire ==
    /\ pc = "shutdown" /\ ~expired
    /\ expired' = TRUE
    /\ UNCHANGED <<cfg, schema, pc, failed, cleanupFns, closing, listening, servers,
                   call, task, hist, health>>

\* What the Stop of the component waits for; the health checker and the
\* deletion of old audit records are told to stop and not waited for.
Done(f) ==
    /\ f = "invoke" => \A i \in Invocations : task[i] \notin {"queued", "run", "record"}
    /\ f = "history" => \A i \in Invocations : hist[i] # "queued"

Cleanup ==
    /\ pc = "clean"
    /\ \/ /\ cleanupFns # <<>> /\ ~closing
          /\ closing' = TRUE /\ UNCHANGED <<pc, cleanupFns>>
       \/ /\ cleanupFns # <<>> /\ closing /\ Done(NextFn)
          /\ closing' = FALSE /\ cleanupFns' = Others /\ UNCHANGED pc
       \/ /\ cleanupFns = <<>>
          /\ pc' = IF failed THEN "fatal" ELSE "exited"
          /\ UNCHANGED <<closing, cleanupFns>>
    /\ UNCHANGED <<cfg, schema, failed, listening, servers, expired, call, task, hist, health>>

\* A kill that cannot be handled.
Kill ==
    /\ Alive /\ pc' = "fatal"
    /\ UNCHANGED <<cfg, schema, failed, cleanupFns, closing, listening, servers, expired,
                   call, task, hist, health>>

-----------------------------------------------------------------------------
(* Invocations.                                                            *)

\* Slots are held while a tool is called and the call is recorded.
SlotFree == Cardinality({i \in Invocations : call[i] \in {"call", "record"}})
            + Cardinality({i \in Invocations : task[i] \in {"run", "record"}}) < Concurrency
WorkerFree == Cardinality({i \in Invocations : task[i] \in {"run", "record"}}) < Workers

Receive(i, kind) ==
    /\ Alive /\ Serves(kind) /\ call[i] = "none"
    /\ call' = [call EXCEPT ![i] = kind]
    /\ UNCHANGED <<main, task, hist, health>>

\* The tool or its service is not there or in error, or a limit is reached.
Refuse(i) ==
    /\ Alive /\ call[i] \in {"invoke", "invoke-async", "rpc"}
    /\ call' = [call EXCEPT ![i] = "error"]
    /\ UNCHANGED <<main, task, hist, health>>

\* The executor answers what the manager answers: the control plane keeps the
\* history.
CallTool(i) ==
    /\ Alive /\ call[i] = "rpc"
    /\ call' = [call EXCEPT ![i] = "ok"]
    /\ UNCHANGED <<main, task, hist, health>>

Invoke(i) ==
    /\ Alive /\ call[i] = "invoke" /\ There("db") /\ SlotFree
    /\ call' = [call EXCEPT ![i] = "call"]
    /\ UNCHANGED <<main, task, hist, health>>

\* The task is accepted, the request is answered.
InvokeAsync(i) ==
    /\ Alive /\ call[i] = "invoke-async" /\ cfg.tasks /\ There("db") /\ Open("invoke")
    /\ call' = [call EXCEPT ![i] = "ok"] /\ task' = [task EXCEPT ![i] = "queued"]
    /\ UNCHANGED <<main, hist, health>>

\* Whatever the tool answers is recorded.  A synchronous call may wait for ever.
Return(i) ==
    /\ Alive /\ call[i] = "call"
    /\ call' = [call EXCEPT ![i] = "record"]
    /\ UNCHANGED <<main, task, hist, health>>

\* The background queue takes the record, or else it is written at once; a
\* record that cannot be kept makes the invocation an error.
Kept(i, ok) ==
    \/ /\ ok /\ cfg.history /\ Open("history")
       /\ Cardinality({j \in Invocations : hist[j] = "queued"}) < QueueSize
       /\ hist' = [hist EXCEPT ![i] = "queued"]
    \/ /\ ok /\ There("db")
       /\ ~cfg.history \/ ~Open("history")
          \/ Cardinality({j \in Invocations : hist[j] = "queued"}) >= QueueSize
       /\ hist' = [hist EXCEPT ![i] = "written"]
    \/ ~ok /\ UNCHANGED hist

\* An answer is "ok" if the tool's was; the record is kept for both.
Record(i) ==
    /\ Alive /\ call[i] = "record"
    /\ \E ok \in BOOLEAN :
          /\ Kept(i, ok)
          /\ \E answer \in IF ok THEN {"ok", "error"} ELSE {"error"} :
                call' = [call EXCEPT ![i] = answer]
    /\ UNCHANGED <<main, task, health>>

Start(i) ==
    /\ Alive /\ task[i] = "queued" /\ WorkerFree /\ SlotFree
    /\ task' = [task EXCEPT ![i] = "run"]
    /\ UNCHANGED <<main, call, hist, health>>

\* The deadline of the task, or a cancel, before it has a slot.
GiveUp(i) ==
    /\ Alive /\ task[i] = "queued" /\ WorkerFree
    /\ task' = [task EXCEPT ![i] = "failed"]
    /\ UNCHANGED <<main, call, hist, health>>

Run(i) ==
    /\ Alive /\ task[i] = "run"
    /\ task' = [task EXCEPT ![i] = "record"]
    /\ UNCHANGED <<main, call, hist, health>>

Finish(i) ==
    /\ Alive /\ task[i] = "record"
    /\ \E ok \in BOOLEAN :
          /\ Kept(i, ok)
          /\ \E answer \in IF ok THEN {"succeeded", "failed"} ELSE {"failed"} :
                task' = [task EXCEPT ![i] = answer]
    /\ UNCHANGED <<main, call, health>>

\* A worker of the queue.  The database refuses, or it is closed.
Write(i) ==
    /\ Alive /\ hist[i] = "queued"
    /\ \E h \in IF There("db") THEN {"written", "refused"} ELSE {"lost"} :
          hist' = [hist EXCEPT ![i] = h]
    /\ UNCHANGED <<main, call, task, health>>

-----------------------------------------------------------------------------
(* The health checker, whose last round may still run during the clean-up. *)

Check ==
    /\ Alive /\ health = "idle" /\ Open("health")
    /\ health' = "report"
    /\ UNCHANGED <<main, call, task, hist>>

\* The audit sink: the queue is open (Submit has tested closed), or it is not.
Report ==
    /\ Alive /\ health = "report"
    /\ health' = IF Open("audit") THEN "send" ELSE "idle"
    /\ UNCHANGED <<main, call, task, hist>>

\* A send on the closed channel panics, and nothing recovers.
Send ==
    /\ Alive /\ health = "send"
    /\ health' = "idle"
    /\ pc' = IF Open("audit") THEN pc ELSE "crashed"
    /\ UNCHANGED <<cfg, schema, failed, cleanupFns, closing, listening, servers, expired,
                   call, task, hist>>

-----------------------------------------------------------------------------
Main == \/ Load \/ OpenDatabase \/ Migrate \/ EnsureAdmin \/ Reconcile \/ Assemble
        \/ Shutdown \/ Expire \/ Cleanup
Handler(i) == \/ \E kind \in {"invoke", "invoke-async", "rpc"} : Receive(i, kind)
              \/ Refuse(i) \/ CallTool(i) \/ Invoke(i) \/ InvokeAsync(i) \/ Return(i) \/ Record(i)
Worker(i) == Start(i) \/ GiveUp(i) \/ Run(i) \/ Finish(i)
Background == Check \/ Report \/ Send

Next == \/ Main \/ Stop \/ Kill \/ Background
        \/ \E i \in Invocations : Handler(i) \/ Worker(i) \/ Write(i)

\* The program's own goroutines run and the database answers.  Two things are
\* assumed beyond the code: a task has a deadline (default_task_timeout may be 0),
\* and a mail returns, so that the stop of the alert queue, which is left out
\* here and waits without a deadline (app.go:255, pkg/email/sender.go:24), ends.
\* Nobody promises that a signal comes or that a synchronous call ends.
Fairness == /\ WF_vars(Main)
            /\ \A i \in Invocations : WF_vars(Worker(i)) /\ WF_vars(Write(i))

Spec == Init /\ [][Next]_vars /\ Fairness

-----------------------------------------------------------------------------
(* Properties.                                                             *)

Fns == {"db", "audit", "history", "invoke", "health", "cleanup"}

TypeOK ==
    /\ cfg \in LoadedConfigs /\ schema \in BOOLEAN
    /\ pc \in {"load", "open", "migrate", "admin", "reconcile", "assemble", "serve",
               "shutdown", "clean"} \cup Gone
    /\ failed \in BOOLEAN /\ closing \in BOOLEAN /\ expired \in BOOLEAN
    /\ cleanupFns \in Seq(Fns)
    /\ listening \subseteq {"http", "rpc"} /\ servers \in Seq({"http", "rpc"})
    /\ call \in [Invocations -> {"none", "invoke", "invoke-async", "rpc", "call", "record",
                                 "ok", "error"}]
    /\ task \in [Invocations -> {"none", "queued", "run", "record", "succeeded", "failed"}]
    /\ hist \in [Invocations -> {"none", "queued", "written", "refused", "lost"}]
    /\ health \in {"idle", "report", "send"}

\* An invocation that was answered, or a task that has succeeded, is in the
\* history when the process has ended by its clean-up, also if a last health
\* report makes it panic there, unless the open database refused the row.
HistoryIsKept ==
    pc \in {"exited", "crashed"} =>
        \A i \in Invocations :
            (call[i] = "ok" /\ task[i] = "none" /\ RunsControlPlane) \/ task[i] = "succeeded"
                => hist[i] \in {"written", "refused"}

\* Once the servers are being shut down the process ends, whatever hangs in the
\* handlers: the shutdown has a deadline, and every task and every mail is
\* assumed to end (see Fairness).
ShutdownEnds == (pc = "shutdown") ~> (pc \in Gone)
=============================================================================
