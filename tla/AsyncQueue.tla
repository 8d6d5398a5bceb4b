------------------------------ MODULE AsyncQueue ------------------------------
(***************************************************************************)
(* The background queue of internal/service/async_queue.go and the sinks   *)
(* that write through it: AsyncAuditSink and AsyncAlertService             *)
(* (async_sinks.go) and AsyncHistorySink (history_sink.go).  The three     *)
(* sinks are the same code around the same queue, so one module stands for *)
(* each of them.                                                           *)
(*                                                                         *)
(* A record is one call of Record (or NotifyServiceError).  The atomics    *)
(* closed, pending and errors, the channel jobs and the write itself are   *)
(* separate steps, because nothing in the code holds them together.        *)
(* Abstracted: what a record says, and the contexts the writes get.        *)
(***************************************************************************)
EXTENDS Integers, Sequences, FiniteSets

CONSTANTS
    Records,    \* calls of Record
    Workers,    \* goroutines in run
    Stoppers,   \* calls of Stop
    Capacity,   \* cap(q.jobs)
    None

ASSUME QueueConstants ==
    /\ None \notin Records
    /\ IsFiniteSet(Records)
    /\ IsFiniteSet(Workers) /\ Workers # {}
    /\ Capacity \in Nat \ {0}

VARIABLES
    caller,      \* how far each Record call has come
    jobs,        \* the buffered channel
    jobsClosed,  \* close(q.jobs) has happened
    closed,      \* the atomic flag
    pending,     \* the atomic counter
    errors,      \* the atomic counter
    pc,          \* how far each worker has come
    job,         \* the record a worker is writing
    store,       \* what became of the write of each record
    writes,      \* how often next.Record was called for it (history only)
    stopper      \* how far each Stop call has come

vars == <<caller, jobs, jobsClosed, closed, pending, errors, pc, job, store,
          writes, stopper>>

(* The pieces of the actions below.  A definition that is called a slip is *)
(* not used by Spec: it is a wrong form of the one that follows, with      *)
(* which a property is shown to be able to fail.                           *)

\* What the database or the mail server makes of a write.
Results == {"stored", "failed"}

\* A send to q.jobs would block.
Full == Len(jobs) = Capacity

SlipEnded == jobsClosed
SlipNeverEnded == FALSE

\* range over q.jobs ends.
Ended == jobsClosed /\ jobs = <<>>

SlipOnFull == "queued"

\* What Record does on ErrAsyncQueueFull or ErrAsyncQueueStopped: it writes
\* the record itself.
OnFull == "write"

SlipAfterSend == "write"

\* After the send Submit still has to count the job.
AfterSend == "sent"

\* A failed job is counted as an error, and then like every job.
AfterFailure == "fail"

-----------------------------------------------------------------------------
Init ==
    /\ caller = [r \in Records |-> "idle"]
    /\ jobs = <<>>
    /\ jobsClosed = FALSE
    /\ closed = FALSE
    /\ pending = 0
    /\ errors = 0
    /\ pc = [w \in Workers |-> "take"]
    /\ job = [w \in Workers |-> None]
    /\ store = [r \in Records |-> "none"]
    /\ writes = [r \in Records |-> 0]
    /\ stopper = [s \in Stoppers |-> "idle"]

-----------------------------------------------------------------------------
(* Record and Submit                                                       *)

callerFrame == <<jobsClosed, closed, errors, pc, job, stopper>>

\* q.closed.Load()
Load(r) ==
    /\ caller[r] = "idle"
    /\ caller' = [caller EXCEPT ![r] = IF closed THEN OnFull ELSE "send"]
    /\ UNCHANGED <<jobs, pending, store, writes, callerFrame>>

Send(r) ==
    /\ caller[r] = "send" /\ ~jobsClosed /\ ~Full
    /\ jobs' = Append(jobs, r)
    /\ caller' = [caller EXCEPT ![r] = AfterSend]
    /\ UNCHANGED <<pending, store, writes, callerFrame>>

\* pending.Add(1); Record returns nil.
Count(r) ==
    /\ caller[r] = "sent"
    /\ pending' = pending + 1
    /\ caller' = [caller EXCEPT ![r] = "queued"]
    /\ UNCHANGED <<jobs, store, writes, callerFrame>>

SendFull(r) ==
    /\ caller[r] = "send" /\ ~jobsClosed /\ Full
    /\ caller' = [caller EXCEPT ![r] = OnFull]
    /\ UNCHANGED <<jobs, pending, store, writes, callerFrame>>

\* Stop closed the channel after Load: the send panics, the record is gone.
SendOnClosed(r) ==
    /\ caller[r] = "send" /\ jobsClosed
    /\ caller' = [caller EXCEPT ![r] = "panicked"]
    /\ UNCHANGED <<jobs, pending, store, writes, callerFrame>>

\* next.Record in the caller's goroutine; its error is the caller's.
WriteDirect(r) ==
    /\ caller[r] = "write"
    /\ \E x \in Results :
         /\ store' = [store EXCEPT ![r] = x]
         /\ caller' = [caller EXCEPT ![r] = IF x = "stored" THEN "written"
                                                            ELSE "error"]
    /\ writes' = [writes EXCEPT ![r] = @ + 1]
    /\ UNCHANGED <<jobs, pending, callerFrame>>

-----------------------------------------------------------------------------
(* run                                                                     *)

workerFrame == <<caller, jobsClosed, closed, stopper>>

Take(w) ==
    /\ pc[w] = "take" /\ jobs # <<>>
    /\ job' = [job EXCEPT ![w] = Head(jobs)]
    /\ jobs' = Tail(jobs)
    /\ pc' = [pc EXCEPT ![w] = "write"]
    /\ UNCHANGED <<pending, errors, store, writes, workerFrame>>

Exit(w) ==
    /\ pc[w] = "take" /\ Ended
    /\ pc' = [pc EXCEPT ![w] = "done"]
    /\ UNCHANGED <<jobs, pending, errors, job, store, writes, workerFrame>>

\* job(q.ctx)
Write(w) ==
    /\ pc[w] = "write"
    /\ \E x \in Results :
         /\ store' = [store EXCEPT ![job[w]] = x]
         /\ pc' = [pc EXCEPT ![w] = IF x = "failed" THEN AfterFailure
                                                     ELSE "finish"]
    /\ writes' = [writes EXCEPT ![job[w]] = @ + 1]
    /\ UNCHANGED <<jobs, pending, errors, job, workerFrame>>

\* errors.Add(1)
Fail(w) ==
    /\ pc[w] = "fail"
    /\ errors' = errors + 1
    /\ pc' = [pc EXCEPT ![w] = "finish"]
    /\ UNCHANGED <<jobs, pending, job, store, writes, workerFrame>>

\* The job is not counted down when it failed.
SlipFinish(w) ==
    /\ pc[w] = "finish"
    /\ pending' = IF store[job[w]] = "failed" THEN pending ELSE pending - 1
    /\ job' = [job EXCEPT ![w] = None]
    /\ pc' = [pc EXCEPT ![w] = "take"]
    /\ UNCHANGED <<jobs, errors, store, writes, workerFrame>>

\* pending.Add(-1)
Finish(w) ==
    /\ pc[w] = "finish"
    /\ pending' = pending - 1
    /\ job' = [job EXCEPT ![w] = None]
    /\ pc' = [pc EXCEPT ![w] = "take"]
    /\ UNCHANGED <<jobs, errors, store, writes, workerFrame>>

-----------------------------------------------------------------------------
(* Stop                                                                    *)

stopFrame == <<caller, jobs, pending, errors, pc, job, store, writes>>

\* CompareAndSwap(false, true): the first call goes on ...
Swap(s) ==
    /\ stopper[s] = "idle" /\ ~closed
    /\ closed' = TRUE
    /\ stopper' = [stopper EXCEPT ![s] = "close"]
    /\ UNCHANGED <<jobsClosed, stopFrame>>

\* ... and every later one returns at once.
SwapFails(s) ==
    /\ stopper[s] = "idle" /\ closed
    /\ stopper' = [stopper EXCEPT ![s] = "returned"]
    /\ UNCHANGED <<closed, jobsClosed, stopFrame>>

Close(s) ==
    /\ stopper[s] = "close"
    /\ jobsClosed' = TRUE
    /\ stopper' = [stopper EXCEPT ![s] = "wait"]
    /\ UNCHANGED <<closed, stopFrame>>

\* wg.Wait() returned.
Drained(s) ==
    /\ stopper[s] = "wait"
    /\ \A w \in Workers : pc[w] = "done"
    /\ stopper' = [stopper EXCEPT ![s] = "drained"]
    /\ UNCHANGED <<closed, jobsClosed, stopFrame>>

-----------------------------------------------------------------------------
Record(r) == \/ Load(r) \/ Send(r) \/ Count(r) \/ SendFull(r)
             \/ SendOnClosed(r) \/ WriteDirect(r)
Run(w) == Take(w) \/ Exit(w) \/ Write(w) \/ Fail(w) \/ Finish(w)
Stop(s) == Swap(s) \/ SwapFails(s) \/ Close(s) \/ Drained(s)

Next == \/ \E r \in Records : Record(r)
        \/ \E w \in Workers : Run(w)
        \/ \E s \in Stoppers : Stop(s)

Spec == Init /\ [][Next]_vars

(***************************************************************************)
(* Fairness: goroutines that can run do run, and a write returns; that a   *)
(* mail does is assumed, as pkg/email/sender.go sets no deadline for it.   *)
(* Whether anybody calls Record or Stop is open.                           *)
(***************************************************************************)
Fairness == /\ \A r \in Records : WF_vars(caller[r] # "idle" /\ Record(r))
            /\ \A w \in Workers : WF_vars(Run(w))
            /\ \A s \in Stoppers : WF_vars(stopper[s] # "idle" /\ Stop(s))

FairSpec == Spec /\ Fairness

-----------------------------------------------------------------------------
(* Properties                                                              *)

Queued(r) == \E i \in 1..Len(jobs) : jobs[i] = r
Held(r) == \E w \in Workers : job[w] = r

\* The types of the queue's, the callers' and the workers' state.
TypeOK ==
    /\ caller \in [Records -> {"idle", "send", "sent", "queued", "write",
                               "written", "error", "panicked"}]
    /\ jobs \in Seq(Records) /\ Len(jobs) <= Capacity
    /\ jobsClosed \in BOOLEAN /\ closed \in BOOLEAN
    /\ pending \in Int /\ errors \in Nat
    /\ pc \in [Workers -> {"take", "write", "fail", "finish", "done"}]
    /\ job \in [Workers -> Records \cup {None}]
    /\ store \in [Records -> Results \cup {"none"}]
    /\ writes \in [Records -> Nat]
    /\ stopper \in [Stoppers -> {"idle", "close", "wait", "drained", "returned"}]

\* A record is written by the caller or by a worker, never by both and never
\* twice: the fallback of the sinks must not repeat what was queued.
WrittenOnce == \A r \in Records : writes[r] <= 1

\* A Record call that returned nil has written its record or left it where a
\* worker will: in the channel or in a worker's hands.
AcknowledgedIsKept ==
    \A r \in Records : caller[r] \in {"queued", "written"}
        => store[r] # "none" \/ Queued(r) \/ Held(r)

\* The two counters of Stats() tell the truth.  Pending is what is queued or
\* being written, less the jobs whose submitter has not come to count them; it
\* may be negative meanwhile.  Errors counts the failed writes that no Record
\* call has returned, and that no worker is about to count.
StatsAgree ==
    /\ pending + Cardinality({r \in Records : caller[r] = "sent"})
           = Len(jobs) + Cardinality({w \in Workers : job[w] # None})
    /\ Cardinality({r \in Records : store[r] = "failed"})
           = errors + Cardinality({r \in Records : caller[r] = "error"})
                    + Cardinality({w \in Workers : pc[w] = "fail"})

\* When the Stop call that closed the queue returns, no acknowledged record is
\* unwritten, whatever Record calls it raced with.
StopDrains ==
    \A s \in Stoppers : stopper[s] = "drained" =>
        /\ jobs = <<>>
        /\ \A r \in Records : caller[r] \in {"queued", "written"} => store[r] # "none"

\* Every Record call comes back, and what it queued is written.
RecordsSettle ==
    \A r \in Records : caller[r] = "send"
        ~> caller[r] = "panicked" \/ store[r] # "none"

\* The Stop call that closes the queue returns.
StopReturns == \A s \in Stoppers : stopper[s] = "close" ~> stopper[s] = "drained"
=============================================================================
