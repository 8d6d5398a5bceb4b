------------------------------ MODULE AsyncTasks ------------------------------
(***************************************************************************)
(* The asynchronous tool invocations of mcp-manager:                       *)
(* internal/service/async_task.go (asyncTaskManager) together with the     *)
(* execution slots of internal/service/invoke_control.go, which the tasks  *)
(* share with the synchronous invocations of tool_invoke_service.go.       *)
(*                                                                         *)
(* A task is named by its UUID, so every element of Tasks is submitted at  *)
(* most once.  One action is one critical section of the manager's mutex,  *)
(* one channel operation, or one return of the tool call; the steps of a   *)
(* submitting request and of a worker therefore interleave as goroutines   *)
(* do.  Abstracted: arguments, results, error texts, times, the statistics *)
(* copied into a task, and the access check of get and cancel.             *)
(***************************************************************************)
EXTENDS Naturals, Sequences, FiniteSets

CONSTANTS
    Tasks,      \* task identifiers
    Timed,      \* the tasks whose context has a deadline (timeout > 0)
    Workers,    \* the worker goroutines
    Callers,    \* concurrent synchronous invocations
    Capacity,   \* cap(m.queue)
    Limit,      \* executor_concurrency; 0 disables the slots (c.sem == nil)
    NoTask

ASSUME ConstantsAssumption ==
    /\ Timed \subseteq Tasks
    /\ NoTask \notin Tasks
    /\ Workers \cap Callers = {}
    /\ IsFiniteSet(Workers) /\ Workers # {}
    /\ IsFiniteSet(Callers)
    /\ Capacity \in Nat \ {0}
    /\ Limit \in Nat

VARIABLES
    status,           \* entry.task.Status; "absent" when m.tasks has no entry
    cancelRequested,  \* the tasks with CancelRequested set
    ctx,              \* entry.ctx.Err(): "none" (no context yet), "live", ...
    submitter,        \* how far the submitting request has come
    queue,            \* the buffered channel m.queue
    closed,           \* m.closed; the channel is closed with it
    pc,               \* how far each worker has come
    held,             \* the task whose id the worker took from the queue
    outcome,          \* the error the worker will hand to finish
    slots,            \* who holds a token of controller.sem
    stopper,          \* the goroutine that calls stop
    runs              \* how often entry.run was called (history only)

vars == <<status, cancelRequested, ctx, submitter, queue, closed, pc, held,
          outcome, slots, stopper, runs>>

Terminal == {"succeeded", "failed", "cancelled", "timed_out"}
Statuses == {"absent", "pending", "running"} \cup Terminal
Errors   == {"nil", "error", "canceled", "deadline"}

(* The pieces of the actions below.  A definition that is called a slip is *)
(* not used by Spec: it is a wrong form of the one that follows, with      *)
(* which a property is shown to be able to fail.                           *)

SlipIsTerminal(s) == s \in {"succeeded", "failed", "timed_out"}
SlipTerminalOrPending(s) == s # "running"

isTerminal(s) == s \in Terminal

SlipDone(t) == ctx[t] = "canceled"

\* The context of t has ended.
Done(t) == ctx[t] \in {"canceled", "deadline"}

\* context.CancelFunc: only the first end of a context counts.
Cancelled(t) == [ctx EXCEPT ![t] = IF @ = "live" THEN "canceled" ELSE @]

\* A send to m.queue would block.
Full == Len(queue) = Capacity

SlipQueueEnded == closed
SlipNeverEnded == FALSE

\* range over m.queue ends.
QueueEnded == closed /\ queue = <<>>

SlipSlotFree == Limit > 0 /\ Cardinality(slots) <= Limit

\* A send to sem would not block.
SlotFree == Limit > 0 /\ Cardinality(slots) < Limit

SlipAfterCancel(s) == "cancelled"

\* The status cancel leaves; it is asked only for what is not terminal.
AfterCancel(s) == IF s = "pending" THEN "cancelled" ELSE s

SlipFinalStatus(e) == IF e = "nil" THEN "succeeded" ELSE
                      IF e = "error" THEN "failed" ELSE "running"

\* The switch of finish.
FinalStatus(e) == CASE e = "deadline" -> "timed_out"
                    [] e = "canceled" -> "cancelled"
                    [] e = "error"    -> "failed"
                    [] e = "nil"      -> "succeeded"

SlipDeleted(t) == status

\* delete(m.tasks, t)
Deleted(t) == [status EXCEPT ![t] = "absent"]

workerVars  == <<pc, held, outcome, slots, runs>>
requestVars == <<cancelRequested, ctx, submitter, closed, stopper>>

Init ==
    /\ status = [t \in Tasks |-> "absent"]
    /\ cancelRequested = {}
    /\ ctx = [t \in Tasks |-> "none"]
    /\ submitter = [t \in Tasks |-> "idle"]
    /\ queue = <<>>
    /\ closed = FALSE
    /\ pc = [w \in Workers |-> "take"]
    /\ held = [w \in Workers |-> NoTask]
    /\ outcome = [w \in Workers |-> "nil"]
    /\ slots = {}
    /\ stopper = "idle"
    /\ runs = [t \in Tasks |-> 0]

-----------------------------------------------------------------------------
(* submit: the map entry is written under the lock, the id is sent after   *)
(* the lock is released.                                                   *)

\* stop came first: 503, the context is released.
Refuse(t) ==
    /\ submitter[t] = "idle" /\ closed
    /\ submitter' = [submitter EXCEPT ![t] = "refused"]
    /\ ctx' = [ctx EXCEPT ![t] = "canceled"]
    /\ UNCHANGED <<status, cancelRequested, queue, closed, stopper, workerVars>>

Register(t) ==
    /\ submitter[t] = "idle" /\ ~closed
    /\ submitter' = [submitter EXCEPT ![t] = "registered"]
    /\ ctx' = [ctx EXCEPT ![t] = "live"]
    /\ status' = [status EXCEPT ![t] = "pending"]
    /\ UNCHANGED <<cancelRequested, queue, closed, stopper, workerVars>>

\* Slip: the id is sent, and sent again.
EnqueueTwice(t) ==
    /\ submitter[t] \in {"registered", "accepted"} /\ ~closed /\ ~Full
    /\ queue' = Append(queue, t)
    /\ submitter' = [submitter EXCEPT ![t] = "accepted"]
    /\ UNCHANGED <<status, cancelRequested, ctx, closed, stopper, workerVars>>

Enqueue(t) ==
    /\ submitter[t] = "registered" /\ ~closed /\ ~Full
    /\ queue' = Append(queue, t)
    /\ submitter' = [submitter EXCEPT ![t] = "accepted"]
    /\ UNCHANGED <<status, cancelRequested, ctx, closed, stopper, workerVars>>

\* The default branch is chosen ...
FindFull(t) ==
    /\ submitter[t] = "registered" /\ ~closed /\ Full
    /\ submitter' = [submitter EXCEPT ![t] = "full"]
    /\ UNCHANGED <<status, cancelRequested, ctx, queue, closed, stopper,
                   workerVars>>

\* ... and removes the entry: 429.
Withdraw(t) ==
    /\ submitter[t] = "full"
    /\ submitter' = [submitter EXCEPT ![t] = "rejected"]
    /\ status' = Deleted(t)
    /\ ctx' = Cancelled(t)
    /\ UNCHANGED <<cancelRequested, queue, closed, stopper, workerVars>>

\* A send on the channel that stop closed meanwhile panics; gin.Recovery ends
\* the request, and nothing removes the entry.
SendOnClosed(t) ==
    /\ submitter[t] = "registered" /\ closed
    /\ submitter' = [submitter EXCEPT ![t] = "panicked"]
    /\ UNCHANGED <<status, cancelRequested, ctx, queue, closed, stopper,
                   workerVars>>

\* Slip: the deadline covers only the time in the queue.
ExpireInQueue(t) ==
    /\ t \in Timed /\ ctx[t] = "live" /\ status[t] = "pending"
    /\ ctx' = [ctx EXCEPT ![t] = "deadline"]
    /\ UNCHANGED <<status, cancelRequested, submitter, queue, closed, stopper,
                   workerVars>>

\* The deadline of context.WithTimeout, which runs from submit on.
Expire(t) ==
    /\ t \in Timed /\ ctx[t] = "live"
    /\ ctx' = [ctx EXCEPT ![t] = "deadline"]
    /\ UNCHANGED <<status, cancelRequested, submitter, queue, closed, stopper,
                   workerVars>>

\* cancel: only the answer of submit tells a client the id.  A task that is
\* already terminal is returned as it is.
Cancel(t) ==
    /\ submitter[t] = "accepted"
    /\ ~isTerminal(status[t])
    /\ cancelRequested' = cancelRequested \cup {t}
    /\ status' = [status EXCEPT ![t] = AfterCancel(@)]
    /\ ctx' = Cancelled(t)
    /\ UNCHANGED <<submitter, queue, closed, stopper, workerVars>>

-----------------------------------------------------------------------------
(* worker                                                                  *)

Take(w) ==
    /\ pc[w] = "take" /\ queue # <<>>
    /\ held' = [held EXCEPT ![w] = Head(queue)]
    /\ queue' = Tail(queue)
    /\ pc' = [pc EXCEPT ![w] = "check"]
    /\ UNCHANGED <<status, outcome, slots, runs, requestVars>>

Exit(w) ==
    /\ pc[w] = "take" /\ QueueEnded
    /\ pc' = [pc EXCEPT ![w] = "done"]
    /\ UNCHANGED <<status, queue, held, outcome, slots, runs, requestVars>>

\* getEntry, and isTerminal on a status that is read without the lock.  A
\* cancel may fall between the two and between isTerminal and update; a read
\* that races with it gives the old status, the new one, or a torn string that
\* is no terminal status: each is this step before or after the Cancel.
Check(w) ==
    /\ pc[w] = "check"
    /\ IF status[held[w]] = "absent" \/ isTerminal(status[held[w]])
       THEN /\ pc' = [pc EXCEPT ![w] = "take"]
            /\ held' = [held EXCEPT ![w] = NoTask]
       ELSE /\ pc' = [pc EXCEPT ![w] = "start"]
            /\ UNCHANGED held
    /\ UNCHANGED <<status, queue, outcome, slots, runs, requestVars>>

\* update(id, ...): Running, whatever the status has become since Check.
Start(w) ==
    /\ pc[w] = "start"
    /\ status' = [status EXCEPT ![held[w]] = "running"]
    /\ pc' = [pc EXCEPT ![w] = "acquire"]
    /\ UNCHANGED <<queue, held, outcome, slots, runs, requestVars>>

\* WaitAcquire returns a release function and entry.run is called.
Acquire(w) ==
    /\ pc[w] = "acquire"
    /\ Limit = 0 \/ SlotFree
    /\ slots' = IF Limit = 0 THEN slots ELSE slots \cup {w}
    /\ runs' = [runs EXCEPT ![held[w]] = @ + 1]
    /\ pc' = [pc EXCEPT ![w] = "run"]
    /\ UNCHANGED <<status, queue, held, outcome, requestVars>>

\* WaitAcquire returns ctx.Err(): its select picks either case when a slot is
\* free as well, and without slots it never looks at the context.
Abort(w) ==
    /\ pc[w] = "acquire" /\ Limit > 0 /\ Done(held[w])
    /\ outcome' = [outcome EXCEPT ![w] = ctx[held[w]]]
    /\ pc' = [pc EXCEPT ![w] = "finish"]
    /\ UNCHANGED <<status, queue, held, slots, runs, requestVars>>

\* entry.run returns.  Every outcome is possible whatever the context says: a
\* result may be ahead of a cancellation, and a timeout of the HTTP client or a
\* closed connection also unwraps to DeadlineExceeded or Canceled.
Return(w) ==
    /\ pc[w] = "run"
    /\ \E e \in Errors : outcome' = [outcome EXCEPT ![w] = e]
    /\ pc' = [pc EXCEPT ![w] = "release"]
    /\ UNCHANGED <<status, queue, held, slots, runs, requestVars>>

Release(w) ==
    /\ pc[w] = "release"
    /\ slots' = slots \ {w}
    /\ pc' = [pc EXCEPT ![w] = "finish"]
    /\ UNCHANGED <<status, queue, held, outcome, runs, requestVars>>

Finish(w) ==
    /\ pc[w] = "finish"
    /\ status' = [status EXCEPT ![held[w]] = FinalStatus(outcome[w])]
    /\ held' = [held EXCEPT ![w] = NoTask]
    /\ outcome' = [outcome EXCEPT ![w] = "nil"]
    /\ pc' = [pc EXCEPT ![w] = "take"]
    /\ UNCHANGED <<queue, slots, runs, requestVars>>

-----------------------------------------------------------------------------
(* Invoke takes a slot without waiting and gives it back when it returns.  *)

SyncAcquire(c) ==
    /\ c \notin slots /\ SlotFree
    /\ slots' = slots \cup {c}
    /\ UNCHANGED <<status, queue, pc, held, outcome, runs, requestVars>>

SyncRelease(c) ==
    /\ c \in slots
    /\ slots' = slots \ {c}
    /\ UNCHANGED <<status, queue, pc, held, outcome, runs, requestVars>>

-----------------------------------------------------------------------------
(* stop                                                                    *)

\* The first call; every later one returns at once and changes nothing.
Stop ==
    /\ stopper = "idle"
    /\ closed' = TRUE
    /\ stopper' = "waiting"
    /\ UNCHANGED <<status, cancelRequested, ctx, submitter, queue, workerVars>>

\* wg.Wait returned.
StopDrained ==
    /\ stopper = "waiting"
    /\ \A w \in Workers : pc[w] = "done"
    /\ stopper' = "drained"
    /\ UNCHANGED <<status, cancelRequested, ctx, submitter, queue, closed,
                   workerVars>>

\* The caller's context ended first.
StopExpired ==
    /\ stopper = "waiting"
    /\ stopper' = "expired"
    /\ UNCHANGED <<status, cancelRequested, ctx, submitter, queue, closed,
                   workerVars>>

-----------------------------------------------------------------------------
Submit(t) == \/ Refuse(t)   \/ Register(t) \/ Enqueue(t)
             \/ FindFull(t) \/ Withdraw(t) \/ SendOnClosed(t)

Work(w) == \/ Take(w)    \/ Exit(w)  \/ Check(w)  \/ Start(w)
           \/ Acquire(w) \/ Abort(w) \/ Return(w) \/ Release(w) \/ Finish(w)

Next == \/ \E t \in Tasks : Submit(t) \/ Expire(t) \/ Cancel(t)
        \/ \E w \in Workers : Work(w)
        \/ \E c \in Callers : SyncAcquire(c) \/ SyncRelease(c)
        \/ Stop \/ StopDrained \/ StopExpired

Spec == Init /\ [][Next]_vars

(***************************************************************************)
(* Fairness.  The Go scheduler runs every goroutine that can run, timers   *)
(* fire, and the tool call honours its context; it is not assumed to       *)
(* return while the context is live, nor a synchronous call to give its    *)
(* slot back.  A request that entered submit reaches its end.              *)
(***************************************************************************)
ReturnOnDone(w) == Return(w) /\ Done(held[w])

Fairness ==
    /\ \A t \in Tasks :
         /\ WF_vars(Enqueue(t) \/ FindFull(t) \/ Withdraw(t) \/ SendOnClosed(t))
         /\ WF_vars(Expire(t))
    /\ \A w \in Workers :
         /\ WF_vars(Take(w) \/ Exit(w) \/ Check(w) \/ Start(w) \/ Acquire(w)
                    \/ Abort(w) \/ Release(w) \/ Finish(w))
         /\ WF_vars(ReturnOnDone(w))
    /\ WF_vars(StopDrained)

FairSpec == Spec /\ Fairness

-----------------------------------------------------------------------------
(* Properties                                                              *)

Owned(t) == \E w \in Workers : held[w] = t

Working(t) == \E w \in Workers :
    held[w] = t /\ pc[w] \in {"start", "acquire", "run", "release", "finish"}

Occurs(t, q) == \E i \in 1..Len(q) : q[i] = t

Queued(t) == Occurs(t, queue)

\* The types of the manager's, the workers' and the requests' state.
TypeOK ==
    /\ status \in [Tasks -> Statuses]
    /\ cancelRequested \subseteq Tasks
    /\ ctx \in [Tasks -> {"none", "live", "canceled", "deadline"}]
    /\ submitter \in [Tasks -> {"idle", "refused", "registered", "accepted",
                               "full", "rejected", "panicked"}]
    /\ queue \in Seq(Tasks) /\ Len(queue) <= Capacity
    /\ closed \in BOOLEAN
    /\ pc \in [Workers -> {"take", "check", "start", "acquire", "run",
                          "release", "finish", "done"}]
    /\ held \in [Workers -> Tasks \cup {NoTask}]
    /\ outcome \in [Workers -> Errors]
    /\ slots \subseteq Workers \cup Callers
    /\ stopper \in {"idle", "waiting", "drained", "expired"}
    /\ runs \in [Tasks -> Nat]

\* No token of controller.sem leaks on any path of worker, and no tool call
\* runs without one: the workers that hold a token are those between
\* WaitAcquire and release(), and with the synchronous calls they are never
\* more than executor_concurrency.
SlotsFollowCalls ==
    /\ slots \cap Workers = {w \in Workers : Limit > 0 /\ pc[w] \in {"run", "release"}}
    /\ Cardinality(slots) <= Limit

\* However requests, workers and cancels interleave, the tool call of a task
\* is made at most once, and no two workers ever hold the same task: finish
\* writes the status without asking who else is at work on it.
RunsOnce ==
    /\ \A t \in Tasks : runs[t] <= 1
    /\ \A v, w \in Workers : held[v] = held[w] /\ held[v] # NoTask => v = w

\* A submission that was answered with an error (queue full, or stopped) has
\* left nothing behind: no map entry, no id in the queue, no work.
RejectedLeavesNoTrace ==
    \A t \in Tasks : submitter[t] \in {"refused", "rejected"}
        => status[t] = "absent" /\ ~Queued(t) /\ ~Owned(t) /\ runs[t] = 0

\* An accepted task that is not over is in the queue or in a worker's hands,
\* so no path of worker forgets a task it has taken.
NothingLost ==
    \A t \in Tasks : submitter[t] = "accepted" /\ status[t] \notin Terminal
        => Queued(t) \/ Owned(t)

\* A task reads "running" exactly while a worker is between its update and its
\* finish; in particular neither cancel nor stop takes a task out of running
\* while its call goes on.
RunningIsOwned ==
    \A t \in Tasks : status[t] = "running"
        <=> \E w \in Workers : held[w] = t
                /\ pc[w] \in {"acquire", "run", "release", "finish"}

\* When stop returns without an error, every accepted task is over, the
\* queue is empty and the workers hold no slot.
DrainedMeansFinished ==
    stopper = "drained" =>
        /\ queue = <<>>
        /\ slots \cap Workers = {}
        /\ \A t \in Tasks : submitter[t] = "accepted" => status[t] \in Terminal

FinalStaysFinal ==
    \A t \in Tasks :
        /\ status[t] \in Terminal
        /\ ~\E w \in Workers : held[w] = t /\ pc[w] = "start"
        => status'[t] = status[t]

\* A terminal status never changes, but in the one window the code leaves
\* open: a worker has seen the task not terminal and is about to write
\* Running.
TerminalIsFinal == [][FinalStaysFinal]_vars

\* A task that is cancelled while it still waits in the queue is never run,
\* although its id stays in the queue and a worker takes it later.
CancelledInQueueNeverRuns ==
    \A t \in Tasks : [](Queued(t) /\ status[t] = "cancelled" => [](runs[t] = 0))

\* Every accepted task is over in the end, once and for all, even if its tool
\* never answers and synchronous calls never give their slots back: the
\* deadline ends both waits.
AcceptedResolves ==
    \A t \in Tasks : submitter[t] = "accepted" ~> [](status[t] \in Terminal)

\* stop does not wait forever.
StopReturns == stopper = "waiting" ~> stopper # "waiting"

\* async_task.go:28 describes the status cancelled as "the task has been
\* cancelled"; this is what a client that was told so relies on.
CancelledStaysCancelled ==
    [][\A t \in Tasks : status[t] = "cancelled" => status'[t] = "cancelled"]_vars

-----------------------------------------------------------------------------
(* The refinement of TaskLifecycle.  A submission counts as accepted when  *)
(* its id is in the queue; a worker that has passed Check works on its     *)
(* task whatever a cancel does to the status meanwhile.                    *)

Stage(t) ==
    CASE submitter[t] \in {"idle", "registered", "full"} -> "new"
      [] submitter[t] \in {"refused", "rejected", "panicked"} -> "dropped"
      [] submitter[t] = "accepted" /\ Working(t) -> "working"
      [] OTHER -> IF status[t] \in Terminal THEN "ended" ELSE "accepted"

Service == CASE stopper = "idle"    -> "up"
             [] stopper = "waiting" -> "stopping"
             [] stopper = "drained" -> "drained"
             [] stopper = "expired" -> "abandoned"

Lifecycle == INSTANCE TaskLifecycle WITH
                 stage <- [t \in Tasks |-> Stage(t)], service <- Service

\* The manager implements the life cycle, with its liveness when every task
\* has a deadline.
ImplementsFairLifecycle == Lifecycle!LifecycleFairSpec

-----------------------------------------------------------------------------
(* The inductive invariant behind the safety properties: where a task can  *)
(* be, and what its status, its workers and the slots are there.           *)

NoRepeat(q) == \A i, j \in 1..Len(q) : q[i] = q[j] => i = j

HeldFits == \A w \in Workers : pc[w] \in {"take", "done"} <=> held[w] = NoTask

\* An accepted task is in the queue once, or with one worker, or with neither.
Placed ==
    /\ NoRepeat(queue)
    /\ \A v, w \in Workers : held[v] = held[w] /\ held[v] # NoTask => v = w
    /\ \A t \in Tasks : Queued(t) => ~Owned(t)
    /\ \A t \in Tasks : Queued(t) \/ Owned(t) => submitter[t] = "accepted"

RequestFits ==
    \A t \in Tasks :
        /\ submitter[t] \in {"idle", "refused", "rejected"}
               => status[t] = "absent" /\ runs[t] = 0
        /\ submitter[t] \in {"registered", "full", "panicked"}
               => status[t] = "pending" /\ runs[t] = 0
        /\ Queued(t) => status[t] \in {"pending", "cancelled"} /\ runs[t] = 0
        /\ submitter[t] = "accepted" /\ ~Queued(t) /\ ~Owned(t)
               => isTerminal(status[t]) /\ runs[t] <= 1

WorkFits ==
    \A w \in Workers : held[w] # NoTask =>
        /\ pc[w] \in {"check", "start"}
               => status[held[w]] \in {"pending", "cancelled"} /\ runs[held[w]] = 0
        /\ pc[w] = "acquire" => status[held[w]] = "running" /\ runs[held[w]] = 0
        /\ pc[w] \in {"run", "release", "finish"}
               => status[held[w]] = "running" /\ runs[held[w]] <= 1

StopFits ==
    /\ closed <=> stopper # "idle"
    /\ \A w \in Workers : pc[w] = "done" => QueueEnded
    /\ stopper = "drained" => \A w \in Workers : pc[w] = "done"

IInv == /\ TypeOK /\ HeldFits /\ Placed /\ RequestFits /\ WorkFits
        /\ SlotsFollowCalls /\ StopFits
=============================================================================
