--------------------------- MODULE AsyncQueueProofs ---------------------------
(***************************************************************************)
(* The safety of AsyncQueue for any number of records, workers and calls   *)
(* of Stop, and any capacity: where a record is decides what has become of *)
(* it, and the counters of Stats are counted against the places.           *)
(***************************************************************************)
EXTENDS AsyncQueue, FiniteSetTheorems, TLAPS

USE QueueConstants

-----------------------------------------------------------------------------
(* The inductive invariant.                                                *)

\* A record is in the channel once at most, or in the hands of one worker, and
\* only after its submitter has sent it.
PlacesFit ==
    /\ \A i, j \in 1 .. Len(jobs) : jobs[i] = jobs[j] => i = j
    /\ \A v, w \in Workers : job[v] = job[w] /\ job[v] # None => v = w
    /\ \A w \in Workers, r \in Records : job[w] = r => ~Queued(r)
    /\ \A r \in Records : Queued(r) \/ Held(r) => caller[r] \in {"sent", "queued"}

\* What has become of a record, by how far its submitter or its worker has come.
Unwritten(r) == writes[r] = 0 /\ store[r] = "none"
Wrote(r) == writes[r] = 1 /\ store[r] # "none"
CallersFit ==
    \A r \in Records :
        /\ caller[r] \in {"idle", "send", "write", "panicked"} => Unwritten(r)
        /\ caller[r] \in {"written", "error"} => Wrote(r)
        /\ Queued(r) => Unwritten(r)
        /\ caller[r] \in {"sent", "queued"} /\ ~Queued(r) /\ ~Held(r) => Wrote(r)

WorkersFit ==
    \A w \in Workers :
        /\ job[w] = None <=> pc[w] \in {"take", "done"}
        /\ pc[w] = "write" => Unwritten(job[w])
        /\ pc[w] \in {"fail", "finish"} => Wrote(job[w])
        /\ pc[w] = "done" => jobsClosed /\ jobs = <<>>

\* The Stop call that closed the channel waits for the workers.
StoppersFit ==
    \A s \in Stoppers :
        /\ stopper[s] \in {"wait", "drained"} => jobsClosed
        /\ stopper[s] = "drained" => \A w \in Workers : pc[w] = "done"

IInv == TypeOK /\ PlacesFit /\ CallersFit /\ WorkersFit /\ StoppersFit /\ StatsAgree

-----------------------------------------------------------------------------
(* What the operations on the channel make of it.                          *)

\* A send appends one record and keeps the places of the others.
LEMMA SendQueues ==
    ASSUME TypeOK, NEW r \in Records, Send(r)
    PROVE  /\ jobs' \in Seq(Records) /\ Len(jobs') <= Capacity /\ Len(jobs') = Len(jobs) + 1
           /\ jobs'[Len(jobs) + 1] = r
           /\ \A i \in 1 .. Len(jobs) : jobs'[i] = jobs[i]
           /\ \A q \in Records : Queued(q)' <=> Queued(q) \/ q = r
<1>1. /\ jobs \in Seq(Records) /\ Len(jobs) \in Nat
      /\ Len(jobs) <= Capacity /\ Len(jobs) # Capacity
  BY DEF TypeOK, Send, Full
<1>2. jobs' = Append(jobs, r) BY DEF Send
<1>3. /\ jobs' \in Seq(Records) /\ Len(jobs') = Len(jobs) + 1
      /\ jobs'[Len(jobs) + 1] = r
      /\ \A i \in 1 .. Len(jobs) : jobs'[i] = jobs[i]
  BY <1>1, <1>2
<1>4. ASSUME NEW q \in Records PROVE Queued(q)' <=> Queued(q) \/ q = r
  BY <1>1, <1>3 DEF Queued
<1>. QED BY <1>1, <1>3, <1>4

\* A receive removes the first record; as no record is queued twice, it is gone.
LEMMA TakeDequeues ==
    ASSUME TypeOK, PlacesFit, NEW w \in Workers, Take(w)
    PROVE  /\ jobs' \in Seq(Records) /\ Len(jobs') = Len(jobs) - 1 /\ Len(jobs') <= Capacity
           /\ \A i \in 1 .. Len(jobs') : jobs'[i] = jobs[i + 1]
           /\ Head(jobs) \in Records /\ Queued(Head(jobs))
           /\ \A q \in Records : Queued(q)' <=> Queued(q) /\ q # Head(jobs)
<1>1. jobs \in Seq(Records) /\ Len(jobs) \in Nat /\ Len(jobs) <= Capacity /\ jobs # <<>>
  BY DEF TypeOK, Take
<1>2. jobs' = Tail(jobs) BY DEF Take
<1>3. /\ jobs' \in Seq(Records) /\ Len(jobs') = Len(jobs) - 1
      /\ \A i \in 1 .. Len(jobs') : jobs'[i] = jobs[i + 1]
      /\ Len(jobs) > 0 /\ Head(jobs) = jobs[1]
  BY <1>1, <1>2
<1>4. Head(jobs) \in Records /\ Queued(Head(jobs)) BY <1>1, <1>3 DEF Queued
<1>5. \A i, j \in 1 .. Len(jobs) : jobs[i] = jobs[j] => i = j
  BY DEF PlacesFit
<1>6. ASSUME NEW q \in Records PROVE Queued(q)' => Queued(q) /\ q # Head(jobs)
  BY <1>1, <1>3, <1>5 DEF Queued
<1>7. ASSUME NEW q \in Records, Queued(q), q # Head(jobs) PROVE Queued(q)'
  <2>1. PICK i \in 1 .. Len(jobs) : jobs[i] = q BY <1>7 DEF Queued
  <2>2. i # 1 BY <1>3, <1>7, <2>1
  <2>3. i - 1 \in 1 .. Len(jobs') /\ jobs'[i - 1] = q BY <1>1, <1>3, <2>1, <2>2
  <2>. QED BY <2>3 DEF Queued
<1>. QED BY <1>1, <1>3, <1>4, <1>6, <1>7

\* What is queued depends on the channel alone.
LEMMA JobsStay == jobs' = jobs => \A q \in Records : Queued(q)' <=> Queued(q)
BY DEF Queued

\* Every step keeps the types.
LEMMA TypeStep ==
    TypeOK /\ PlacesFit /\ WorkersFit /\ [Next]_vars => TypeOK'
<1>. SUFFICES ASSUME TypeOK, PlacesFit, WorkersFit, [Next]_vars PROVE TypeOK'
  OBVIOUS
<1>. USE DEF TypeOK, Results, callerFrame, workerFrame, stopFrame, OnFull,
            AfterSend, AfterFailure
<1>1. ASSUME NEW r \in Records, Record(r)
      PROVE  TypeOK'
  <2>1. CASE Load(r) BY <2>1 DEF Load
  <2>2. CASE Send(r)
    <3>1. jobs' \in Seq(Records) /\ Len(jobs') <= Capacity
      BY <2>2, SendQueues
    <3>. QED BY <2>2, <3>1 DEF Send
  <2>3. CASE Count(r) BY <2>3 DEF Count
  <2>4. CASE SendFull(r) BY <2>4 DEF SendFull
  <2>5. CASE SendOnClosed(r) BY <2>5 DEF SendOnClosed
  <2>6. CASE WriteDirect(r) BY <2>6 DEF WriteDirect
  <2>. QED BY <1>1, <2>1, <2>2, <2>3, <2>4, <2>5, <2>6 DEF Record
<1>2. ASSUME NEW w \in Workers, Run(w)
      PROVE  TypeOK'
  <2>1. CASE Take(w)
    <3>1. jobs' \in Seq(Records) /\ Len(jobs') <= Capacity /\ Head(jobs) \in Records
      BY <2>1, TakeDequeues
    <3>. QED BY <2>1, <3>1 DEF Take
  <2>2. CASE Exit(w) BY <2>2 DEF Exit
  <2>3. CASE Write(w)
    <3>1. PICK x \in Results :
             /\ store' = [store EXCEPT ![job[w]] = x]
             /\ pc' = [pc EXCEPT ![w] = IF x = "failed" THEN "fail" ELSE "finish"]
      BY <2>3 DEF Write, AfterFailure
    <3>2. /\ pc[w] = "write" /\ writes' = [writes EXCEPT ![job[w]] = @ + 1]
          /\ UNCHANGED <<jobs, pending, errors, job, caller, jobsClosed, closed, stopper>>
      BY <2>3 DEF Write, workerFrame
    <3>3. job[w] \in Records BY <3>2 DEF WorkersFit
    <3>4. writes' \in [Records -> Nat] BY <3>2, <3>3
    <3>5. store' \in [Records -> Results \cup {"none"}] BY <3>1, <3>3
    <3>6. pc' \in [Workers -> {"take", "write", "fail", "finish", "done"}] BY <3>1
    <3>. QED BY <3>2, <3>4, <3>5, <3>6
  <2>4. CASE Fail(w) BY <2>4 DEF Fail
  <2>5. CASE Finish(w) BY <2>5 DEF Finish
  <2>. QED BY <1>2, <2>1, <2>2, <2>3, <2>4, <2>5 DEF Run
<1>3. ASSUME NEW s \in Stoppers, Stop(s)
      PROVE  TypeOK'
  <2>1. CASE Swap(s) BY <2>1 DEF Swap
  <2>2. CASE SwapFails(s) BY <2>2 DEF SwapFails
  <2>3. CASE Close(s) BY <2>3 DEF Close
  <2>4. CASE Drained(s) BY <2>4 DEF Drained
  <2>. QED BY <1>3, <2>1, <2>2, <2>3, <2>4 DEF Stop
<1>4. CASE UNCHANGED vars BY <1>4 DEF vars
<1>. QED BY <1>1, <1>2, <1>3, <1>4 DEF Next

\* Every step keeps the places of the records.
LEMMA PlacesStep ==
    TypeOK /\ PlacesFit /\ WorkersFit /\ [Next]_vars => PlacesFit'
<1>. SUFFICES ASSUME TypeOK, PlacesFit, WorkersFit, [Next]_vars
            PROVE PlacesFit'
  OBVIOUS
<1>. USE DEF Held, callerFrame, workerFrame, stopFrame, OnFull, AfterSend,
            AfterFailure
<1>t. /\ jobs \in Seq(Records) /\ job \in [Workers -> Records \cup {None}]
      /\ caller \in [Records -> {"idle", "send", "sent", "queued", "write", "written",
                                 "error", "panicked"}]
      /\ pc \in [Workers -> {"take", "write", "fail", "finish", "done"}]
      /\ stopper \in [Stoppers -> {"idle", "close", "wait", "drained", "returned"}]
      /\ writes \in [Records -> Nat] /\ store \in [Records -> {"none", "stored", "failed"}]
  BY DEF TypeOK, Results
<1>. USE <1>t
<1>1. ASSUME NEW r \in Records, Record(r)
      PROVE  PlacesFit'
  <2>1. CASE Load(r)
    <3>. USE DEF PlacesFit
    <3>1. UNCHANGED jobs
      BY <2>1 DEF Load
    <3>2. \A q \in Records : Queued(q)' <=> Queued(q)
      BY <3>1, JobsStay
    <3>. QED BY <2>1, <3>1, <3>2 DEF Load
  <2>2. CASE Send(r)
    <3>1. /\ jobs' \in Seq(Records) /\ Len(jobs') = Len(jobs) + 1
          /\ jobs'[Len(jobs) + 1] = r
          /\ \A i \in 1 .. Len(jobs) : jobs'[i] = jobs[i]
          /\ \A q \in Records : Queued(q)' <=> Queued(q) \/ q = r
      BY <2>2, SendQueues
    <3>2. /\ caller[r] = "send" /\ caller' = [caller EXCEPT ![r] = "sent"]
          /\ UNCHANGED job
      BY <2>2 DEF Send
    <3>3. ~Queued(r) /\ ~Held(r) BY <3>2 DEF PlacesFit
    <3>4. \A i \in 1 .. Len(jobs) : jobs[i] # r BY <3>3 DEF Queued
    <3>5. \A i, j \in 1 .. Len(jobs') : jobs'[i] = jobs'[j] => i = j
      <4>1. \A i, j \in 1 .. Len(jobs) : jobs[i] = jobs[j] => i = j BY DEF PlacesFit
      <4>2. \A i \in 1 .. Len(jobs') : i \in 1 .. Len(jobs) \/ i = Len(jobs) + 1 BY <3>1
      <4>. QED BY <3>1, <3>4, <4>1, <4>2
    <3>6. \A v \in Workers, q \in Records : job'[v] = q => ~Queued(q)'
      BY <3>1, <3>2, <3>3 DEF PlacesFit, Held
    <3>7. \A q \in Records : Queued(q)' \/ Held(q)' => caller'[q] \in {"sent", "queued"}
      BY <3>1, <3>2 DEF PlacesFit, Held
    <3>. QED BY <3>2, <3>5, <3>6, <3>7 DEF PlacesFit
  <2>3. CASE Count(r)
    <3>. USE DEF PlacesFit
    <3>1. UNCHANGED jobs
      BY <2>3 DEF Count
    <3>2. \A q \in Records : Queued(q)' <=> Queued(q)
      BY <3>1, JobsStay
    <3>. QED BY <2>3, <3>1, <3>2 DEF Count
  <2>4. CASE SendFull(r)
    <3>. USE DEF PlacesFit
    <3>1. UNCHANGED jobs
      BY <2>4 DEF SendFull
    <3>2. \A q \in Records : Queued(q)' <=> Queued(q)
      BY <3>1, JobsStay
    <3>. QED BY <2>4, <3>1, <3>2 DEF SendFull
  <2>5. CASE SendOnClosed(r)
    <3>. USE DEF PlacesFit
    <3>1. UNCHANGED jobs
      BY <2>5 DEF SendOnClosed
    <3>2. \A q \in Records : Queued(q)' <=> Queued(q)
      BY <3>1, JobsStay
    <3>. QED BY <2>5, <3>1, <3>2 DEF SendOnClosed
  <2>6. CASE WriteDirect(r)
    <3>. USE DEF PlacesFit
    <3>1. UNCHANGED jobs
      BY <2>6 DEF WriteDirect
    <3>2. \A q \in Records : Queued(q)' <=> Queued(q)
      BY <3>1, JobsStay
    <3>. QED BY <2>6, <3>1, <3>2 DEF WriteDirect
  <2>. QED BY <1>1, <2>1, <2>2, <2>3, <2>4, <2>5, <2>6 DEF Record
<1>2. ASSUME NEW w \in Workers, Run(w)
      PROVE  PlacesFit'
  <2>1. CASE Take(w)
    <3>1. /\ jobs' \in Seq(Records) /\ Len(jobs') = Len(jobs) - 1
          /\ \A i \in 1 .. Len(jobs') : jobs'[i] = jobs[i + 1]
          /\ Head(jobs) \in Records /\ Queued(Head(jobs))
          /\ \A q \in Records : Queued(q)' <=> Queued(q) /\ q # Head(jobs)
      BY <2>1, TakeDequeues
    <3>2. /\ job' = [job EXCEPT ![w] = Head(jobs)] /\ UNCHANGED caller
      BY <2>1 DEF Take
    <3>3. \A v \in Workers : job[v] # Head(jobs) BY <3>1 DEF PlacesFit
    <3>4. \A i, j \in 1 .. Len(jobs') : jobs'[i] = jobs'[j] => i = j
      <4>1. \A i, j \in 1 .. Len(jobs) : jobs[i] = jobs[j] => i = j BY DEF PlacesFit
      <4>2. ASSUME NEW i \in 1 .. Len(jobs'), NEW j \in 1 .. Len(jobs'), jobs'[i] = jobs'[j]
            PROVE  i = j
        <5>1. /\ i \in Int /\ j \in Int /\ Len(jobs) \in Nat
              /\ i + 1 \in 1 .. Len(jobs) /\ j + 1 \in 1 .. Len(jobs)
          BY <3>1
        <5>2. jobs[i + 1] = jobs[j + 1] BY <3>1, <4>2
        <5>3. i + 1 = j + 1 BY <4>1, <5>1, <5>2
        <5>. QED BY <5>1, <5>3
      <4>. QED BY <4>2
    <3>5. \A u, v \in Workers : job'[u] = job'[v] /\ job'[u] # None => u = v
      BY <3>2, <3>3 DEF PlacesFit
    <3>6. \A v \in Workers, q \in Records : job'[v] = q => ~Queued(q)'
      BY <3>1, <3>2 DEF PlacesFit
    <3>7. \A q \in Records : Queued(q)' \/ Held(q)' => caller'[q] \in {"sent", "queued"}
      BY <3>1, <3>2 DEF PlacesFit, Held
    <3>. QED BY <3>4, <3>5, <3>6, <3>7 DEF PlacesFit
  <2>2. CASE Exit(w)
    <3>. USE DEF PlacesFit
    <3>1. UNCHANGED jobs
      BY <2>2 DEF Exit
    <3>2. \A q \in Records : Queued(q)' <=> Queued(q)
      BY <3>1, JobsStay
    <3>. QED BY <2>2, <3>1, <3>2 DEF Exit
  <2>3. CASE Write(w)
    <3>. USE DEF PlacesFit
    <3>1. PICK x \in Results :
             /\ store' = [store EXCEPT ![job[w]] = x]
             /\ pc' = [pc EXCEPT ![w] = IF x = "failed" THEN "fail" ELSE "finish"]
      BY <2>3 DEF Write, AfterFailure
    <3>2. /\ pc[w] = "write" /\ writes' = [writes EXCEPT ![job[w]] = @ + 1]
          /\ UNCHANGED <<jobs, pending, errors, job, caller, jobsClosed, closed, stopper>>
      BY <2>3 DEF Write, workerFrame
    <3>3. job[w] \in Records BY <3>2 DEF WorkersFit
    <3>4. \A q \in Records : Queued(q)' <=> Queued(q)
      BY <3>2, JobsStay
    <3>. QED BY <3>2, <3>4
  <2>4. CASE Fail(w)
    <3>. USE DEF PlacesFit
    <3>1. UNCHANGED jobs
      BY <2>4 DEF Fail
    <3>2. \A q \in Records : Queued(q)' <=> Queued(q)
      BY <3>1, JobsStay
    <3>. QED BY <2>4, <3>1, <3>2 DEF Fail
  <2>5. CASE Finish(w)
    <3>. USE DEF PlacesFit
    <3>1. UNCHANGED jobs
      BY <2>5 DEF Finish
    <3>2. \A q \in Records : Queued(q)' <=> Queued(q)
      BY <3>1, JobsStay
    <3>. QED BY <2>5, <3>1, <3>2 DEF Finish
  <2>. QED BY <1>2, <2>1, <2>2, <2>3, <2>4, <2>5 DEF Run
<1>3. ASSUME NEW s \in Stoppers, Stop(s)
      PROVE  PlacesFit'
  <2>1. CASE Swap(s)
    <3>. USE DEF PlacesFit
    <3>1. UNCHANGED jobs
      BY <2>1 DEF Swap
    <3>2. \A q \in Records : Queued(q)' <=> Queued(q)
      BY <3>1, JobsStay
    <3>. QED BY <2>1, <3>1, <3>2 DEF Swap
  <2>2. CASE SwapFails(s)
    <3>. USE DEF PlacesFit
    <3>1. UNCHANGED jobs
      BY <2>2 DEF SwapFails
    <3>2. \A q \in Records : Queued(q)' <=> Queued(q)
      BY <3>1, JobsStay
    <3>. QED BY <2>2, <3>1, <3>2 DEF SwapFails
  <2>3. CASE Close(s)
    <3>. USE DEF PlacesFit
    <3>1. UNCHANGED jobs
      BY <2>3 DEF Close
    <3>2. \A q \in Records : Queued(q)' <=> Queued(q)
      BY <3>1, JobsStay
    <3>. QED BY <2>3, <3>1, <3>2 DEF Close
  <2>4. CASE Drained(s)
    <3>. USE DEF PlacesFit
    <3>1. UNCHANGED jobs
      BY <2>4 DEF Drained
    <3>2. \A q \in Records : Queued(q)' <=> Queued(q)
      BY <3>1, JobsStay
    <3>. QED BY <2>4, <3>1, <3>2 DEF Drained
  <2>. QED BY <1>3, <2>1, <2>2, <2>3, <2>4 DEF Stop
<1>4. CASE UNCHANGED vars
  <2>. USE DEF PlacesFit
  <2>1. UNCHANGED jobs
    BY <1>4 DEF vars
  <2>2. \A q \in Records : Queued(q)' <=> Queued(q)
    BY <2>1, JobsStay
  <2>. QED BY <1>4, <2>1, <2>2 DEF vars
<1>. QED BY <1>1, <1>2, <1>3, <1>4 DEF Next

\* Every step keeps what has become of the records.
LEMMA CallersStep ==
    TypeOK /\ PlacesFit /\ CallersFit /\ WorkersFit /\ [Next]_vars => CallersFit'
<1>. SUFFICES ASSUME TypeOK, PlacesFit, CallersFit, WorkersFit, [Next]_vars
            PROVE CallersFit'
  OBVIOUS
<1>t. /\ jobs \in Seq(Records) /\ job \in [Workers -> Records \cup {None}]
      /\ caller \in [Records -> {"idle", "send", "sent", "queued", "write", "written",
                                 "error", "panicked"}]
      /\ pc \in [Workers -> {"take", "write", "fail", "finish", "done"}]
      /\ stopper \in [Stoppers -> {"idle", "close", "wait", "drained", "returned"}]
      /\ writes \in [Records -> Nat] /\ store \in [Records -> {"none", "stored", "failed"}]
  BY DEF TypeOK, Results
<1>. USE <1>t
<1>1. ASSUME NEW r \in Records, Record(r)
      PROVE  CallersFit'
  <2>1. CASE Load(r)
    <3>1. /\ caller[r] = "idle" /\ UNCHANGED <<jobs, job, store, writes>>
          /\ \/ caller' = [caller EXCEPT ![r] = "write"]
             \/ caller' = [caller EXCEPT ![r] = "send"]
      BY <2>1 DEF Load, callerFrame, OnFull
    <3>2. \A q \in Records : Queued(q)' <=> Queued(q)
      BY <3>1, JobsStay
    <3>. QED BY <3>1, <3>2 DEF CallersFit, Unwritten, Wrote, Held
  <2>2. CASE Send(r)
    <3>1. \A q \in Records : Queued(q)' <=> Queued(q) \/ q = r
      BY <2>2, SendQueues
    <3>2. /\ caller[r] = "send" /\ caller' = [caller EXCEPT ![r] = "sent"]
          /\ UNCHANGED <<job, store, writes>>
      BY <2>2 DEF Send, callerFrame, AfterSend
    <3>. QED BY <3>1, <3>2 DEF CallersFit, Unwritten, Wrote, Held
  <2>3. CASE Count(r)
    <3>1. /\ caller[r] = "sent" /\ UNCHANGED <<jobs, job, store, writes>>
          /\ caller' = [caller EXCEPT ![r] = "queued"]
      BY <2>3 DEF Count, callerFrame
    <3>2. \A q \in Records : Queued(q)' <=> Queued(q)
      BY <3>1, JobsStay
    <3>. QED BY <3>1, <3>2 DEF CallersFit, Unwritten, Wrote, Held
  <2>4. CASE SendFull(r)
    <3>1. /\ caller[r] = "send" /\ UNCHANGED <<jobs, job, store, writes>>
          /\ caller' = [caller EXCEPT ![r] = "write"]
      BY <2>4 DEF SendFull, callerFrame, OnFull
    <3>2. \A q \in Records : Queued(q)' <=> Queued(q)
      BY <3>1, JobsStay
    <3>. QED BY <3>1, <3>2 DEF CallersFit, Unwritten, Wrote, Held
  <2>5. CASE SendOnClosed(r)
    <3>1. /\ caller[r] = "send" /\ UNCHANGED <<jobs, job, store, writes>>
          /\ caller' = [caller EXCEPT ![r] = "panicked"]
      BY <2>5 DEF SendOnClosed, callerFrame
    <3>2. \A q \in Records : Queued(q)' <=> Queued(q)
      BY <3>1, JobsStay
    <3>. QED BY <3>1, <3>2 DEF CallersFit, Unwritten, Wrote, Held
  <2>6. CASE WriteDirect(r)
    <3>1. PICK x \in Results :
             /\ store' = [store EXCEPT ![r] = x]
             /\ caller' = [caller EXCEPT ![r] = IF x = "stored" THEN "written" ELSE "error"]
      BY <2>6 DEF WriteDirect
    <3>2. /\ caller[r] = "write" /\ writes' = [writes EXCEPT ![r] = @ + 1]
          /\ UNCHANGED <<jobs, job>>
      BY <2>6 DEF WriteDirect, callerFrame
    <3>3. \A q \in Records : Queued(q)' <=> Queued(q)
      BY <3>2, JobsStay
    <3>4. x # "none" /\ writes[r] = 0 /\ ~Queued(r) /\ ~Held(r)
      BY <3>2 DEF Results, CallersFit, Unwritten, PlacesFit
    <3>5. caller'[r] \in {"written", "error"} /\ writes'[r] = 1 /\ store'[r] # "none"
      BY <3>1, <3>2, <3>4
    <3>6. \A q \in Records \ {r} : /\ caller'[q] = caller[q] /\ writes'[q] = writes[q]
                                 /\ store'[q] = store[q]
      BY <3>1, <3>2
    <3>. QED BY <3>2, <3>3, <3>4, <3>5, <3>6 DEF CallersFit, Unwritten, Wrote, Held
  <2>. QED BY <1>1, <2>1, <2>2, <2>3, <2>4, <2>5, <2>6 DEF Record
<1>2. ASSUME NEW w \in Workers, Run(w)
      PROVE  CallersFit'
  <2>1. CASE Take(w)
    <3>1. /\ Head(jobs) \in Records /\ Queued(Head(jobs))
          /\ \A q \in Records : Queued(q)' <=> Queued(q) /\ q # Head(jobs)
      BY <2>1, TakeDequeues
    <3>2. /\ pc[w] = "take" /\ job' = [job EXCEPT ![w] = Head(jobs)]
          /\ UNCHANGED <<caller, store, writes>>
      BY <2>1 DEF Take, workerFrame
    <3>3. job[w] = None BY <3>2 DEF WorkersFit
    <3>4. \A q \in Records : Held(q)' <=> Held(q) \/ q = Head(jobs)
      BY <3>1, <3>2, <3>3 DEF Held
    <3>. QED BY <3>1, <3>2, <3>4 DEF CallersFit, Unwritten, Wrote
  <2>2. CASE Exit(w)
    <3>1. UNCHANGED <<caller, jobs, job, store, writes>>
      BY <2>2 DEF Exit, workerFrame, stopFrame
    <3>2. \A q \in Records : Queued(q)' <=> Queued(q)
      BY <3>1, JobsStay
    <3>. QED BY <3>1, <3>2 DEF CallersFit, Unwritten, Wrote, Held
  <2>3. CASE Write(w)
    <3>1. PICK x \in Results :
             /\ store' = [store EXCEPT ![job[w]] = x]
             /\ pc' = [pc EXCEPT ![w] = IF x = "failed" THEN "fail" ELSE "finish"]
      BY <2>3 DEF Write, AfterFailure
    <3>2. /\ pc[w] = "write" /\ writes' = [writes EXCEPT ![job[w]] = @ + 1]
          /\ UNCHANGED <<jobs, pending, errors, job, caller, jobsClosed, closed, stopper>>
      BY <2>3 DEF Write, workerFrame
    <3>3. job[w] \in Records BY <3>2 DEF WorkersFit
    <3>4. \A q \in Records : Queued(q)' <=> Queued(q)
      BY <3>2, JobsStay
    <3>5. x # "none" /\ writes[job[w]] = 0
      BY <3>2 DEF Results, WorkersFit, Unwritten
    <3>6. Held(job[w]) /\ caller[job[w]] \in {"sent", "queued"} /\ ~Queued(job[w])
      BY <3>3 DEF Held, PlacesFit
    <3>7. writes'[job[w]] = 1 /\ store'[job[w]] # "none"
      BY <3>1, <3>2, <3>3, <3>5
    <3>8. \A q \in Records \ {job[w]} : writes'[q] = writes[q] /\ store'[q] = store[q]
      BY <3>1, <3>2
    <3>. QED BY <3>2, <3>4, <3>6, <3>7, <3>8 DEF CallersFit, Unwritten, Wrote, Held
  <2>4. CASE Fail(w)
    <3>1. UNCHANGED <<caller, jobs, job, store, writes>>
      BY <2>4 DEF Fail, workerFrame, stopFrame
    <3>2. \A q \in Records : Queued(q)' <=> Queued(q)
      BY <3>1, JobsStay
    <3>. QED BY <3>1, <3>2 DEF CallersFit, Unwritten, Wrote, Held
  <2>5. CASE Finish(w)
    <3>1. /\ pc[w] = "finish" /\ job' = [job EXCEPT ![w] = None]
          /\ UNCHANGED <<jobs, caller, store, writes>>
      BY <2>5 DEF Finish, workerFrame
    <3>2. \A q \in Records : Queued(q)' <=> Queued(q)
      BY <3>1, JobsStay
    <3>3. job[w] \in Records /\ Wrote(job[w]) BY <3>1 DEF WorkersFit
    <3>4. \A q \in Records : Held(q) => Held(q)' \/ q = job[w]
      BY <3>1 DEF Held
    <3>. QED BY <3>1, <3>2, <3>3, <3>4 DEF CallersFit, Unwritten, Wrote
  <2>. QED BY <1>2, <2>1, <2>2, <2>3, <2>4, <2>5 DEF Run
<1>3. ASSUME NEW s \in Stoppers, Stop(s)
      PROVE  CallersFit'
  <2>1. CASE Swap(s)
    <3>1. UNCHANGED <<caller, jobs, job, store, writes>>
      BY <2>1 DEF Swap, workerFrame, stopFrame
    <3>2. \A q \in Records : Queued(q)' <=> Queued(q)
      BY <3>1, JobsStay
    <3>. QED BY <3>1, <3>2 DEF CallersFit, Unwritten, Wrote, Held
  <2>2. CASE SwapFails(s)
    <3>1. UNCHANGED <<caller, jobs, job, store, writes>>
      BY <2>2 DEF SwapFails, workerFrame, stopFrame
    <3>2. \A q \in Records : Queued(q)' <=> Queued(q)
      BY <3>1, JobsStay
    <3>. QED BY <3>1, <3>2 DEF CallersFit, Unwritten, Wrote, Held
  <2>3. CASE Close(s)
    <3>1. UNCHANGED <<caller, jobs, job, store, writes>>
      BY <2>3 DEF Close, workerFrame, stopFrame
    <3>2. \A q \in Records : Queued(q)' <=> Queued(q)
      BY <3>1, JobsStay
    <3>. QED BY <3>1, <3>2 DEF CallersFit, Unwritten, Wrote, Held
  <2>4. CASE Drained(s)
    <3>1. UNCHANGED <<caller, jobs, job, store, writes>>
      BY <2>4 DEF Drained, workerFrame, stopFrame
    <3>2. \A q \in Records : Queued(q)' <=> Queued(q)
      BY <3>1, JobsStay
    <3>. QED BY <3>1, <3>2 DEF CallersFit, Unwritten, Wrote, Held
  <2>. QED BY <1>3, <2>1, <2>2, <2>3, <2>4 DEF Stop
<1>4. CASE UNCHANGED vars
  <2>1. UNCHANGED <<caller, jobs, job, store, writes>>
    BY <1>4 DEF vars
  <2>2. \A q \in Records : Queued(q)' <=> Queued(q)
    BY <2>1, JobsStay
  <2>. QED BY <2>1, <2>2 DEF CallersFit, Unwritten, Wrote, Held
<1>. QED BY <1>1, <1>2, <1>3, <1>4 DEF Next

\* Every step keeps the workers with their jobs.
LEMMA WorkersStep ==
    TypeOK /\ PlacesFit /\ CallersFit /\ WorkersFit /\ [Next]_vars => WorkersFit'
<1>. SUFFICES ASSUME TypeOK, PlacesFit, CallersFit, WorkersFit, [Next]_vars
            PROVE WorkersFit'
  OBVIOUS
<1>t. /\ jobs \in Seq(Records) /\ job \in [Workers -> Records \cup {None}]
      /\ caller \in [Records -> {"idle", "send", "sent", "queued", "write", "written",
                                 "error", "panicked"}]
      /\ pc \in [Workers -> {"take", "write", "fail", "finish", "done"}]
      /\ stopper \in [Stoppers -> {"idle", "close", "wait", "drained", "returned"}]
      /\ writes \in [Records -> Nat] /\ store \in [Records -> {"none", "stored", "failed"}]
  BY DEF TypeOK, Results
<1>. USE <1>t
<1>1. ASSUME NEW r \in Records, Record(r)
      PROVE  WorkersFit'
  <2>1. CASE Load(r)
    <3>1. UNCHANGED <<pc, job, store, writes, jobs, jobsClosed>>
      BY <2>1 DEF Load, callerFrame, stopFrame
    <3>. QED BY <3>1 DEF WorkersFit, Unwritten, Wrote
  <2>2. CASE Send(r)
    <3>1. UNCHANGED <<pc, job, store, writes, jobsClosed>> /\ ~jobsClosed
      BY <2>2 DEF Send, callerFrame
    <3>. QED BY <3>1 DEF WorkersFit, Unwritten, Wrote
  <2>3. CASE Count(r)
    <3>1. UNCHANGED <<pc, job, store, writes, jobs, jobsClosed>>
      BY <2>3 DEF Count, callerFrame, stopFrame
    <3>. QED BY <3>1 DEF WorkersFit, Unwritten, Wrote
  <2>4. CASE SendFull(r)
    <3>1. UNCHANGED <<pc, job, store, writes, jobs, jobsClosed>>
      BY <2>4 DEF SendFull, callerFrame, stopFrame
    <3>. QED BY <3>1 DEF WorkersFit, Unwritten, Wrote
  <2>5. CASE SendOnClosed(r)
    <3>1. UNCHANGED <<pc, job, store, writes, jobs, jobsClosed>>
      BY <2>5 DEF SendOnClosed, callerFrame, stopFrame
    <3>. QED BY <3>1 DEF WorkersFit, Unwritten, Wrote
  <2>6. CASE WriteDirect(r)
    <3>1. /\ caller[r] = "write" /\ writes' = [writes EXCEPT ![r] = @ + 1]
          /\ UNCHANGED <<pc, job, jobs, jobsClosed>>
          /\ \E x \in Results : store' = [store EXCEPT ![r] = x]
      BY <2>6 DEF WriteDirect, callerFrame
    <3>2. \A u \in Workers : job[u] # r
      BY <3>1 DEF PlacesFit, Held
    <3>. QED BY <3>1, <3>2 DEF WorkersFit, Unwritten, Wrote
  <2>. QED BY <1>1, <2>1, <2>2, <2>3, <2>4, <2>5, <2>6 DEF Record
<1>2. ASSUME NEW w \in Workers, Run(w)
      PROVE  WorkersFit'
  <2>1. CASE Take(w)
    <3>1. Head(jobs) \in Records /\ Queued(Head(jobs))
      BY <2>1, TakeDequeues
    <3>2. /\ pc[w] = "take" /\ job' = [job EXCEPT ![w] = Head(jobs)]
          /\ pc' = [pc EXCEPT ![w] = "write"] /\ jobs # <<>>
          /\ UNCHANGED <<store, writes, jobsClosed>>
      BY <2>1 DEF Take, workerFrame
    <3>3. Unwritten(Head(jobs)) BY <3>1 DEF CallersFit
    <3>4. \A u \in Workers : pc[u] # "done" BY <3>2 DEF WorkersFit
    <3>. QED BY <3>1, <3>2, <3>3, <3>4 DEF WorkersFit, Unwritten, Wrote
  <2>2. CASE Exit(w)
    <3>1. /\ pc[w] = "take" /\ jobsClosed /\ jobs = <<>>
          /\ pc' = [pc EXCEPT ![w] = "done"]
          /\ UNCHANGED <<job, store, writes, jobs, jobsClosed>>
      BY <2>2 DEF Exit, workerFrame, Ended
    <3>. QED BY <3>1 DEF WorkersFit, Unwritten, Wrote
  <2>3. CASE Write(w)
    <3>1. PICK x \in Results :
             /\ store' = [store EXCEPT ![job[w]] = x]
             /\ pc' = [pc EXCEPT ![w] = IF x = "failed" THEN "fail" ELSE "finish"]
      BY <2>3 DEF Write, AfterFailure
    <3>2. /\ pc[w] = "write" /\ writes' = [writes EXCEPT ![job[w]] = @ + 1]
          /\ UNCHANGED <<jobs, pending, errors, job, caller, jobsClosed, closed, stopper>>
      BY <2>3 DEF Write, workerFrame
    <3>3. job[w] \in Records BY <3>2 DEF WorkersFit
    <3>4. x # "none" /\ writes[job[w]] = 0
      BY <3>2 DEF Results, WorkersFit, Unwritten
    <3>5. writes'[job[w]] = 1 /\ store'[job[w]] # "none" /\ pc'[w] \in {"fail", "finish"}
      BY <3>1, <3>2, <3>3, <3>4
    <3>6. \A u \in Workers \ {w} : job[u] # job[w] /\ pc'[u] = pc[u]
      BY <3>1, <3>3 DEF PlacesFit
    <3>7. \A q \in Records \ {job[w]} : writes'[q] = writes[q] /\ store'[q] = store[q]
      BY <3>1, <3>2
    <3>8. ASSUME NEW u \in Workers
          PROVE  /\ job'[u] = None <=> pc'[u] \in {"take", "done"}
                 /\ pc'[u] = "write" => Unwritten(job[u])'
                 /\ pc'[u] \in {"fail", "finish"} => Wrote(job[u])'
                 /\ pc'[u] = "done" => jobsClosed' /\ jobs' = <<>>
      <4>1. CASE u = w BY <3>2, <3>3, <3>5, <4>1 DEF Wrote
      <4>2. CASE u # w
        <5>1. job[u] \in Records => job[u] \in Records \ {job[w]} BY <3>6, <4>2
        <5>2. pc[u] \in {"write", "fail", "finish"} => job[u] \in Records BY DEF WorkersFit
        <5>. QED BY <3>2, <3>6, <3>7, <4>2, <5>1, <5>2 DEF WorkersFit, Unwritten, Wrote
      <4>. QED BY <4>1, <4>2
    <3>. QED BY <3>8 DEF WorkersFit
  <2>4. CASE Fail(w)
    <3>1. /\ pc[w] = "fail" /\ pc' = [pc EXCEPT ![w] = "finish"]
          /\ UNCHANGED <<job, store, writes, jobs, jobsClosed>>
      BY <2>4 DEF Fail, workerFrame
    <3>. QED BY <3>1 DEF WorkersFit, Unwritten, Wrote
  <2>5. CASE Finish(w)
    <3>1. /\ pc[w] = "finish" /\ pc' = [pc EXCEPT ![w] = "take"]
          /\ job' = [job EXCEPT ![w] = None]
          /\ UNCHANGED <<store, writes, jobs, jobsClosed>>
      BY <2>5 DEF Finish, workerFrame
    <3>. QED BY <3>1 DEF WorkersFit, Unwritten, Wrote
  <2>. QED BY <1>2, <2>1, <2>2, <2>3, <2>4, <2>5 DEF Run
<1>3. ASSUME NEW s \in Stoppers, Stop(s)
      PROVE  WorkersFit'
  <2>1. CASE Swap(s)
    <3>1. UNCHANGED <<pc, job, store, writes, jobs, jobsClosed>>
      BY <2>1 DEF Swap, callerFrame, stopFrame
    <3>. QED BY <3>1 DEF WorkersFit, Unwritten, Wrote
  <2>2. CASE SwapFails(s)
    <3>1. UNCHANGED <<pc, job, store, writes, jobs, jobsClosed>>
      BY <2>2 DEF SwapFails, callerFrame, stopFrame
    <3>. QED BY <3>1 DEF WorkersFit, Unwritten, Wrote
  <2>3. CASE Close(s)
    <3>1. UNCHANGED <<pc, job, store, writes, jobs>> /\ jobsClosed' = TRUE
      BY <2>3 DEF Close, stopFrame
    <3>. QED BY <3>1 DEF WorkersFit, Unwritten, Wrote
  <2>4. CASE Drained(s)
    <3>1. UNCHANGED <<pc, job, store, writes, jobs, jobsClosed>>
      BY <2>4 DEF Drained, callerFrame, stopFrame
    <3>. QED BY <3>1 DEF WorkersFit, Unwritten, Wrote
  <2>. QED BY <1>3, <2>1, <2>2, <2>3, <2>4 DEF Stop
<1>4. CASE UNCHANGED vars
  <2>1. UNCHANGED <<pc, job, store, writes, jobs, jobsClosed>>
    BY <1>4 DEF vars
  <2>. QED BY <2>1 DEF WorkersFit, Unwritten, Wrote
<1>. QED BY <1>1, <1>2, <1>3, <1>4 DEF Next

\* Every step keeps what a Stop call waits for.
LEMMA StoppersStep ==
    TypeOK /\ StoppersFit /\ [Next]_vars => StoppersFit'
<1>. SUFFICES ASSUME TypeOK, StoppersFit, [Next]_vars PROVE StoppersFit'
  OBVIOUS
<1>t. /\ jobs \in Seq(Records) /\ job \in [Workers -> Records \cup {None}]
      /\ caller \in [Records -> {"idle", "send", "sent", "queued", "write", "written",
                                 "error", "panicked"}]
      /\ pc \in [Workers -> {"take", "write", "fail", "finish", "done"}]
      /\ stopper \in [Stoppers -> {"idle", "close", "wait", "drained", "returned"}]
      /\ writes \in [Records -> Nat] /\ store \in [Records -> {"none", "stored", "failed"}]
  BY DEF TypeOK, Results
<1>. USE <1>t
<1>1. ASSUME NEW r \in Records, Record(r)
      PROVE  StoppersFit'
  <2>1. CASE Load(r)
    <3>1. UNCHANGED <<pc, jobsClosed, stopper>>
      BY <2>1 DEF Load, callerFrame
    <3>. QED BY <3>1 DEF StoppersFit
  <2>2. CASE Send(r)
    <3>1. UNCHANGED <<pc, jobsClosed, stopper>>
      BY <2>2 DEF Send, callerFrame
    <3>. QED BY <3>1 DEF StoppersFit
  <2>3. CASE Count(r)
    <3>1. UNCHANGED <<pc, jobsClosed, stopper>>
      BY <2>3 DEF Count, callerFrame
    <3>. QED BY <3>1 DEF StoppersFit
  <2>4. CASE SendFull(r)
    <3>1. UNCHANGED <<pc, jobsClosed, stopper>>
      BY <2>4 DEF SendFull, callerFrame
    <3>. QED BY <3>1 DEF StoppersFit
  <2>5. CASE SendOnClosed(r)
    <3>1. UNCHANGED <<pc, jobsClosed, stopper>>
      BY <2>5 DEF SendOnClosed, callerFrame
    <3>. QED BY <3>1 DEF StoppersFit
  <2>6. CASE WriteDirect(r)
    <3>1. UNCHANGED <<pc, jobsClosed, stopper>>
      BY <2>6 DEF WriteDirect, callerFrame
    <3>. QED BY <3>1 DEF StoppersFit
  <2>. QED BY <1>1, <2>1, <2>2, <2>3, <2>4, <2>5, <2>6 DEF Record
<1>2. ASSUME NEW w \in Workers, Run(w)
      PROVE  StoppersFit'
  <2>1. CASE Take(w)
    <3>1. /\ pc[w] = "take" /\ UNCHANGED <<jobsClosed, stopper>>
          /\ \A u \in Workers \ {w} : pc'[u] = pc[u]
      BY <2>1 DEF Take, workerFrame
    <3>. QED BY <3>1 DEF StoppersFit
  <2>2. CASE Exit(w)
    <3>1. /\ pc[w] = "take" /\ UNCHANGED <<jobsClosed, stopper>>
          /\ \A u \in Workers \ {w} : pc'[u] = pc[u]
      BY <2>2 DEF Exit, workerFrame
    <3>. QED BY <3>1 DEF StoppersFit
  <2>3. CASE Write(w)
    <3>1. /\ pc[w] = "write" /\ UNCHANGED <<jobsClosed, stopper>>
          /\ \A u \in Workers \ {w} : pc'[u] = pc[u]
      BY <2>3 DEF Write, workerFrame
    <3>. QED BY <3>1 DEF StoppersFit
  <2>4. CASE Fail(w)
    <3>1. /\ pc[w] = "fail" /\ UNCHANGED <<jobsClosed, stopper>>
          /\ \A u \in Workers \ {w} : pc'[u] = pc[u]
      BY <2>4 DEF Fail, workerFrame
    <3>. QED BY <3>1 DEF StoppersFit
  <2>5. CASE Finish(w)
    <3>1. /\ pc[w] = "finish" /\ UNCHANGED <<jobsClosed, stopper>>
          /\ \A u \in Workers \ {w} : pc'[u] = pc[u]
      BY <2>5 DEF Finish, workerFrame
    <3>. QED BY <3>1 DEF StoppersFit
  <2>. QED BY <1>2, <2>1, <2>2, <2>3, <2>4, <2>5 DEF Run
<1>3. ASSUME NEW s \in Stoppers, Stop(s)
      PROVE  StoppersFit'
  <2>1. CASE Swap(s)
    <3>1. /\ stopper' = [stopper EXCEPT ![s] = "close"]
          /\ UNCHANGED <<pc, jobsClosed>>
      BY <2>1 DEF Swap, stopFrame
    <3>. QED BY <3>1 DEF StoppersFit
  <2>2. CASE SwapFails(s)
    <3>1. /\ stopper' = [stopper EXCEPT ![s] = "returned"]
          /\ UNCHANGED <<pc, jobsClosed>>
      BY <2>2 DEF SwapFails, stopFrame
    <3>. QED BY <3>1 DEF StoppersFit
  <2>3. CASE Close(s)
    <3>1. /\ stopper' = [stopper EXCEPT ![s] = "wait"]
          /\ jobsClosed' = TRUE /\ UNCHANGED pc
      BY <2>3 DEF Close, stopFrame
    <3>. QED BY <3>1 DEF StoppersFit
  <2>4. CASE Drained(s)
    <3>1. /\ stopper' = [stopper EXCEPT ![s] = "drained"]
          /\ stopper[s] = "wait" /\ (\A u \in Workers : pc[u] = "done")
          /\ UNCHANGED <<pc, jobsClosed>>
      BY <2>4 DEF Drained, stopFrame
    <3>. QED BY <3>1 DEF StoppersFit
  <2>. QED BY <1>3, <2>1, <2>2, <2>3, <2>4 DEF Stop
<1>4. CASE UNCHANGED vars
  <2>1. UNCHANGED <<pc, jobsClosed, stopper>>
    BY <1>4 DEF vars
  <2>. QED BY <2>1 DEF StoppersFit
<1>. QED BY <1>1, <1>2, <1>3, <1>4 DEF Next

-----------------------------------------------------------------------------
(* The counters of Stats.                                                  *)

Sent == {r \in Records : caller[r] = "sent"}
Busy == {w \in Workers : job[w] # None}
Failed == {r \in Records : store[r] = "failed"}
Errors == {r \in Records : caller[r] = "error"}
Failing == {w \in Workers : pc[w] = "fail"}

\* One more or one less in a finite set.
LEMMA OneMore ==
    ASSUME NEW D, IsFiniteSet(D), NEW S \in SUBSET D, NEW x \in D
    PROVE  /\ Cardinality(S) \in Nat
           /\ x \notin S => Cardinality(S \cup {x}) = Cardinality(S) + 1
           /\ x \in S => Cardinality(S \ {x}) = Cardinality(S) - 1
<1>1. IsFiniteSet(S) BY FS_Subset
<1>2. Cardinality(S) \in Nat BY <1>1, FS_CardinalityType
<1>3. x \notin S => Cardinality(S \cup {x}) = Cardinality(S) + 1
  BY <1>1, FS_AddElement
<1>4. x \in S => Cardinality(S \ {x}) = Cardinality(S) - 1
  BY <1>1, FS_RemoveElement
<1>. QED BY <1>2, <1>3, <1>4

\* The sets whose sizes the counters are compared with are parts of the constants.
LEMMA Subsets ==
    /\ Sent \in SUBSET Records /\ Busy \in SUBSET Workers
    /\ Failed \in SUBSET Records /\ Errors \in SUBSET Records
    /\ Failing \in SUBSET Workers
BY DEF Sent, Busy, Failed, Errors, Failing

\* These sets are finite, so that their sizes are numbers.
LEMMA Counts ==
    /\ Cardinality(Sent) \in Nat /\ Cardinality(Busy) \in Nat
    /\ Cardinality(Failed) \in Nat /\ Cardinality(Errors) \in Nat
    /\ Cardinality(Failing) \in Nat
<1>1. /\ IsFiniteSet(Sent) /\ IsFiniteSet(Busy) /\ IsFiniteSet(Failed)
      /\ IsFiniteSet(Errors) /\ IsFiniteSet(Failing)
  BY Subsets, FS_Subset
<1>. QED BY <1>1, FS_CardinalityType

\* StatsAgree in terms of these sets.
LEMMA StatsAsSets ==
    StatsAgree <=> /\ pending + Cardinality(Sent) = Len(jobs) + Cardinality(Busy)
                   /\ Cardinality(Failed) = errors + Cardinality(Errors) + Cardinality(Failing)
BY DEF StatsAgree, Sent, Busy, Failed, Errors, Failing

\* Every step keeps the count of what is pending.
LEMMA PendingStep ==
    TypeOK /\ PlacesFit /\ WorkersFit /\ StatsAgree /\ [Next]_vars
        => pending' + Cardinality(Sent') = Len(jobs') + Cardinality(Busy')
<1>. SUFFICES ASSUME TypeOK, PlacesFit, WorkersFit, StatsAgree, [Next]_vars
            PROVE pending' + Cardinality(Sent') = Len(jobs') + Cardinality(Busy')
  OBVIOUS
<1>t. /\ jobs \in Seq(Records) /\ job \in [Workers -> Records \cup {None}]
      /\ caller \in [Records -> {"idle", "send", "sent", "queued", "write", "written",
                                 "error", "panicked"}]
      /\ pc \in [Workers -> {"take", "write", "fail", "finish", "done"}]
      /\ store \in [Records -> {"none", "stored", "failed"}]
      /\ pending \in Int /\ errors \in Nat
  BY DEF TypeOK, Results
<1>c. /\ Cardinality(Sent) \in Nat /\ Cardinality(Busy) \in Nat /\ Len(jobs) \in Nat
  BY Counts
<1>e. pending + Cardinality(Sent) = Len(jobs) + Cardinality(Busy)
  BY StatsAsSets
<1>s. Sent \in SUBSET Records /\ Busy \in SUBSET Workers
  BY Subsets
<1>. USE <1>s, <1>t, <1>c, <1>e
<1>1. ASSUME NEW r \in Records, Record(r)
      PROVE  pending' + Cardinality(Sent') = Len(jobs') + Cardinality(Busy')
  <2>1. CASE Load(r)
    <3>1. UNCHANGED <<jobs, pending, job>> /\ Sent' = Sent
      BY <2>1 DEF Load, Sent, callerFrame, OnFull, Results
    <3>2. Busy' = Busy
      BY <3>1 DEF Busy
    <3>. QED BY <3>1, <3>2
  <2>2. CASE Send(r)
    <3>1. Len(jobs') = Len(jobs) + 1 BY <2>2, SendQueues
    <3>2. /\ caller[r] = "send" /\ caller' = [caller EXCEPT ![r] = "sent"]
          /\ UNCHANGED <<pending, job>>
      BY <2>2 DEF Send, callerFrame, AfterSend
    <3>3. r \notin Sent /\ Sent' = Sent \cup {r} BY <3>2 DEF Sent
    <3>4. Cardinality(Sent') = Cardinality(Sent) + 1
      BY <3>3, OneMore
    <3>5. Busy' = Busy BY <3>2 DEF Busy
    <3>. QED BY <3>1, <3>2, <3>4, <3>5
  <2>3. CASE Count(r)
    <3>1. /\ caller[r] = "sent" /\ caller' = [caller EXCEPT ![r] = "queued"]
          /\ pending' = pending + 1 /\ UNCHANGED <<jobs, job>>
      BY <2>3 DEF Count, callerFrame
    <3>2. r \in Sent /\ Sent' = Sent \ {r} BY <3>1 DEF Sent
    <3>3. Cardinality(Sent') = Cardinality(Sent) - 1
      BY <3>2, OneMore
    <3>4. Busy' = Busy BY <3>1 DEF Busy
    <3>. QED BY <3>1, <3>3, <3>4
  <2>4. CASE SendFull(r)
    <3>1. UNCHANGED <<jobs, pending, job>> /\ Sent' = Sent
      BY <2>4 DEF SendFull, Sent, callerFrame, OnFull, Results
    <3>2. Busy' = Busy
      BY <3>1 DEF Busy
    <3>. QED BY <3>1, <3>2
  <2>5. CASE SendOnClosed(r)
    <3>1. UNCHANGED <<jobs, pending, job>> /\ Sent' = Sent
      BY <2>5 DEF SendOnClosed, Sent, callerFrame, OnFull, Results
    <3>2. Busy' = Busy
      BY <3>1 DEF Busy
    <3>. QED BY <3>1, <3>2
  <2>6. CASE WriteDirect(r)
    <3>1. UNCHANGED <<jobs, pending, job>> /\ Sent' = Sent
      BY <2>6 DEF WriteDirect, Sent, callerFrame, OnFull, Results
    <3>2. Busy' = Busy
      BY <3>1 DEF Busy
    <3>. QED BY <3>1, <3>2
  <2>. QED BY <1>1, <2>1, <2>2, <2>3, <2>4, <2>5, <2>6 DEF Record
<1>2. ASSUME NEW w \in Workers, Run(w)
      PROVE  pending' + Cardinality(Sent') = Len(jobs') + Cardinality(Busy')
  <2>1. CASE Take(w)
    <3>1. Len(jobs') = Len(jobs) - 1 /\ Head(jobs) \in Records BY <2>1, TakeDequeues
    <3>2. /\ pc[w] = "take" /\ job' = [job EXCEPT ![w] = Head(jobs)]
          /\ UNCHANGED <<pending, caller>>
      BY <2>1 DEF Take, workerFrame
    <3>3. job[w] = None BY <3>2 DEF WorkersFit
    <3>4. w \notin Busy /\ Busy' = Busy \cup {w} BY <3>1, <3>2, <3>3 DEF Busy
    <3>5. Cardinality(Busy') = Cardinality(Busy) + 1
      BY <3>4, OneMore
    <3>6. Sent' = Sent BY <3>2 DEF Sent
    <3>. QED BY <3>1, <3>2, <3>5, <3>6
  <2>2. CASE Exit(w)
    <3>1. UNCHANGED <<jobs, pending, job>> /\ Sent' = Sent
      BY <2>2 DEF Exit, Sent, workerFrame, stopFrame
    <3>2. Busy' = Busy
      BY <3>1 DEF Busy
    <3>. QED BY <3>1, <3>2
  <2>3. CASE Write(w)
    <3>1. UNCHANGED <<jobs, pending, job>> /\ Sent' = Sent
      BY <2>3 DEF Write, Sent, workerFrame, stopFrame
    <3>2. Busy' = Busy
      BY <3>1 DEF Busy
    <3>. QED BY <3>1, <3>2
  <2>4. CASE Fail(w)
    <3>1. UNCHANGED <<jobs, pending, job>> /\ Sent' = Sent
      BY <2>4 DEF Fail, Sent, workerFrame, stopFrame
    <3>2. Busy' = Busy
      BY <3>1 DEF Busy
    <3>. QED BY <3>1, <3>2
  <2>5. CASE Finish(w)
    <3>1. /\ pc[w] = "finish" /\ job' = [job EXCEPT ![w] = None]
          /\ pending' = pending - 1 /\ UNCHANGED <<jobs, caller>>
      BY <2>5 DEF Finish, workerFrame
    <3>2. job[w] # None BY <3>1 DEF WorkersFit
    <3>3. w \in Busy /\ Busy' = Busy \ {w} BY <3>1, <3>2 DEF Busy
    <3>4. Cardinality(Busy') = Cardinality(Busy) - 1
      BY <3>3, OneMore
    <3>5. Sent' = Sent BY <3>1 DEF Sent
    <3>. QED BY <3>1, <3>4, <3>5
  <2>. QED BY <1>2, <2>1, <2>2, <2>3, <2>4, <2>5 DEF Run
<1>3. ASSUME NEW s \in Stoppers, Stop(s)
      PROVE  pending' + Cardinality(Sent') = Len(jobs') + Cardinality(Busy')
  <2>1. CASE Swap(s)
    <3>1. UNCHANGED <<jobs, pending, job>> /\ Sent' = Sent
      BY <2>1 DEF Swap, Sent, workerFrame, stopFrame
    <3>2. Busy' = Busy
      BY <3>1 DEF Busy
    <3>. QED BY <3>1, <3>2
  <2>2. CASE SwapFails(s)
    <3>1. UNCHANGED <<jobs, pending, job>> /\ Sent' = Sent
      BY <2>2 DEF SwapFails, Sent, workerFrame, stopFrame
    <3>2. Busy' = Busy
      BY <3>1 DEF Busy
    <3>. QED BY <3>1, <3>2
  <2>3. CASE Close(s)
    <3>1. UNCHANGED <<jobs, pending, job>> /\ Sent' = Sent
      BY <2>3 DEF Close, Sent, workerFrame, stopFrame
    <3>2. Busy' = Busy
      BY <3>1 DEF Busy
    <3>. QED BY <3>1, <3>2
  <2>4. CASE Drained(s)
    <3>1. UNCHANGED <<jobs, pending, job>> /\ Sent' = Sent
      BY <2>4 DEF Drained, Sent, workerFrame, stopFrame
    <3>2. Busy' = Busy
      BY <3>1 DEF Busy
    <3>. QED BY <3>1, <3>2
  <2>. QED BY <1>3, <2>1, <2>2, <2>3, <2>4 DEF Stop
<1>4. CASE UNCHANGED vars
  <2>1. UNCHANGED <<jobs, pending, job>> /\ Sent' = Sent
    BY <1>4 DEF vars, Sent
  <2>2. Busy' = Busy
    BY <2>1 DEF Busy
  <2>. QED BY <2>1, <2>2
<1>. QED BY <1>1, <1>2, <1>3, <1>4 DEF Next

\* Every step keeps the count of the failures.
LEMMA ErrorsStep ==
    TypeOK /\ CallersFit /\ WorkersFit /\ StatsAgree /\ [Next]_vars
        => Cardinality(Failed') = errors' + Cardinality(Errors') + Cardinality(Failing')
<1>. SUFFICES ASSUME TypeOK, CallersFit, WorkersFit, StatsAgree, [Next]_vars
            PROVE Cardinality(Failed') = errors' + Cardinality(Errors') + Cardinality(Failing')
  OBVIOUS
<1>t. /\ jobs \in Seq(Records) /\ job \in [Workers -> Records \cup {None}]
      /\ caller \in [Records -> {"idle", "send", "sent", "queued", "write", "written",
                                 "error", "panicked"}]
      /\ pc \in [Workers -> {"take", "write", "fail", "finish", "done"}]
      /\ store \in [Records -> {"none", "stored", "failed"}] /\ errors \in Nat
  BY DEF TypeOK, Results
<1>c. /\ Cardinality(Failed) \in Nat /\ Cardinality(Errors) \in Nat
      /\ Cardinality(Failing) \in Nat
  BY Counts
<1>e. Cardinality(Failed) = errors + Cardinality(Errors) + Cardinality(Failing)
  BY StatsAsSets
<1>s. /\ Failed \in SUBSET Records /\ Errors \in SUBSET Records
      /\ Failing \in SUBSET Workers
  BY Subsets
<1>. USE <1>t, <1>c, <1>e, <1>s
<1>1. ASSUME NEW r \in Records, Record(r)
      PROVE  Cardinality(Failed') = errors' + Cardinality(Errors') + Cardinality(Failing')
  <2>1. CASE Load(r)
    <3>1. UNCHANGED <<store, errors>> /\ Errors' = Errors /\ Failing' = Failing
      BY <2>1 DEF Load, Errors, Failing, callerFrame, OnFull, AfterSend
    <3>2. Failed' = Failed
      BY <3>1 DEF Failed
    <3>. QED BY <3>1, <3>2
  <2>2. CASE Send(r)
    <3>1. UNCHANGED <<store, errors>> /\ Errors' = Errors /\ Failing' = Failing
      BY <2>2 DEF Send, Errors, Failing, callerFrame, OnFull, AfterSend
    <3>2. Failed' = Failed
      BY <3>1 DEF Failed
    <3>. QED BY <3>1, <3>2
  <2>3. CASE Count(r)
    <3>1. UNCHANGED <<store, errors>> /\ Errors' = Errors /\ Failing' = Failing
      BY <2>3 DEF Count, Errors, Failing, callerFrame, OnFull, AfterSend
    <3>2. Failed' = Failed
      BY <3>1 DEF Failed
    <3>. QED BY <3>1, <3>2
  <2>4. CASE SendFull(r)
    <3>1. UNCHANGED <<store, errors>> /\ Errors' = Errors /\ Failing' = Failing
      BY <2>4 DEF SendFull, Errors, Failing, callerFrame, OnFull, AfterSend
    <3>2. Failed' = Failed
      BY <3>1 DEF Failed
    <3>. QED BY <3>1, <3>2
  <2>5. CASE SendOnClosed(r)
    <3>1. UNCHANGED <<store, errors>> /\ Errors' = Errors /\ Failing' = Failing
      BY <2>5 DEF SendOnClosed, Errors, Failing, callerFrame, OnFull, AfterSend
    <3>2. Failed' = Failed
      BY <3>1 DEF Failed
    <3>. QED BY <3>1, <3>2
  <2>6. CASE WriteDirect(r)
    <3>1. PICK x \in Results :
             /\ store' = [store EXCEPT ![r] = x]
             /\ caller' = [caller EXCEPT ![r] = IF x = "stored" THEN "written" ELSE "error"]
      BY <2>6 DEF WriteDirect
    <3>2. caller[r] = "write" /\ UNCHANGED <<errors, pc>>
      BY <2>6 DEF WriteDirect, callerFrame
    <3>3. store[r] = "none" BY <3>2 DEF CallersFit, Unwritten
    <3>4. Failing' = Failing BY <3>2 DEF Failing
    <3>5. CASE x = "failed"
      <4>1. r \notin Failed /\ Failed' = Failed \cup {r} BY <3>1, <3>3, <3>5 DEF Failed
      <4>2. r \notin Errors /\ Errors' = Errors \cup {r} BY <3>1, <3>2, <3>5 DEF Errors
      <4>3. Cardinality(Failed') = Cardinality(Failed) + 1
        BY <4>1, OneMore
      <4>4. Cardinality(Errors') = Cardinality(Errors) + 1
        BY <4>2, OneMore
      <4>. QED BY <3>2, <3>4, <4>3, <4>4
    <3>6. CASE x # "failed"
      <4>1. x = "stored" BY <3>6 DEF Results
      <4>2. Failed' = Failed BY <3>1, <3>3, <4>1 DEF Failed
      <4>3. Errors' = Errors BY <3>1, <3>2, <4>1 DEF Errors
      <4>. QED BY <3>2, <3>4, <4>2, <4>3
    <3>. QED BY <3>5, <3>6
  <2>. QED BY <1>1, <2>1, <2>2, <2>3, <2>4, <2>5, <2>6 DEF Record
<1>2. ASSUME NEW w \in Workers, Run(w)
      PROVE  Cardinality(Failed') = errors' + Cardinality(Errors') + Cardinality(Failing')
  <2>1. CASE Take(w)
    <3>1. UNCHANGED <<store, errors>> /\ Errors' = Errors /\ Failing' = Failing
      BY <2>1 DEF Take, Errors, Failing, workerFrame, stopFrame
    <3>2. Failed' = Failed
      BY <3>1 DEF Failed
    <3>. QED BY <3>1, <3>2
  <2>2. CASE Exit(w)
    <3>1. UNCHANGED <<store, errors>> /\ Errors' = Errors /\ Failing' = Failing
      BY <2>2 DEF Exit, Errors, Failing, workerFrame, stopFrame
    <3>2. Failed' = Failed
      BY <3>1 DEF Failed
    <3>. QED BY <3>1, <3>2
  <2>3. CASE Write(w)
    <3>1. PICK x \in Results :
             /\ store' = [store EXCEPT ![job[w]] = x]
             /\ pc' = [pc EXCEPT ![w] = IF x = "failed" THEN "fail" ELSE "finish"]
      BY <2>3 DEF Write, AfterFailure
    <3>2. /\ pc[w] = "write" /\ writes' = [writes EXCEPT ![job[w]] = @ + 1]
          /\ UNCHANGED <<jobs, pending, errors, job, caller, jobsClosed, closed, stopper>>
      BY <2>3 DEF Write, workerFrame
    <3>3. job[w] \in Records BY <3>2 DEF WorkersFit
    <3>4. store[job[w]] = "none" BY <3>2 DEF WorkersFit, Unwritten
    <3>5. Errors' = Errors /\ errors' = errors BY <3>2 DEF Errors
    <3>6. CASE x = "failed"
      <4>1. job[w] \notin Failed /\ Failed' = Failed \cup {job[w]}
        BY <3>1, <3>3, <3>4, <3>6 DEF Failed
      <4>2. w \notin Failing /\ Failing' = Failing \cup {w}
        BY <3>1, <3>2, <3>6 DEF Failing
      <4>3. Cardinality(Failed') = Cardinality(Failed) + 1
        BY <3>3, <4>1, OneMore
      <4>4. Cardinality(Failing') = Cardinality(Failing) + 1
        BY <4>2, OneMore
      <4>. QED BY <3>5, <4>3, <4>4
    <3>7. CASE x # "failed"
      <4>1. Failed' = Failed BY <3>1, <3>3, <3>4, <3>7 DEF Failed
      <4>2. Failing' = Failing BY <3>1, <3>2, <3>7 DEF Failing
      <4>. QED BY <3>5, <4>1, <4>2
    <3>. QED BY <3>6, <3>7
  <2>4. CASE Fail(w)
    <3>1. /\ pc[w] = "fail" /\ pc' = [pc EXCEPT ![w] = "finish"]
          /\ errors' = errors + 1 /\ UNCHANGED <<store, caller>>
      BY <2>4 DEF Fail, workerFrame
    <3>2. w \in Failing /\ Failing' = Failing \ {w} BY <3>1 DEF Failing
    <3>3. Cardinality(Failing') = Cardinality(Failing) - 1
      BY <3>2, OneMore
    <3>4. Failed' = Failed /\ Errors' = Errors BY <3>1 DEF Failed, Errors
    <3>. QED BY <3>1, <3>3, <3>4
  <2>5. CASE Finish(w)
    <3>1. UNCHANGED <<store, errors>> /\ Errors' = Errors /\ Failing' = Failing
      BY <2>5 DEF Finish, Errors, Failing, workerFrame, stopFrame
    <3>2. Failed' = Failed
      BY <3>1 DEF Failed
    <3>. QED BY <3>1, <3>2
  <2>. QED BY <1>2, <2>1, <2>2, <2>3, <2>4, <2>5 DEF Run
<1>3. ASSUME NEW s \in Stoppers, Stop(s)
      PROVE  Cardinality(Failed') = errors' + Cardinality(Errors') + Cardinality(Failing')
  <2>1. CASE Swap(s)
    <3>1. UNCHANGED <<store, errors>> /\ Errors' = Errors /\ Failing' = Failing
      BY <2>1 DEF Swap, Errors, Failing, workerFrame, stopFrame
    <3>2. Failed' = Failed
      BY <3>1 DEF Failed
    <3>. QED BY <3>1, <3>2
  <2>2. CASE SwapFails(s)
    <3>1. UNCHANGED <<store, errors>> /\ Errors' = Errors /\ Failing' = Failing
      BY <2>2 DEF SwapFails, Errors, Failing, workerFrame, stopFrame
    <3>2. Failed' = Failed
      BY <3>1 DEF Failed
    <3>. QED BY <3>1, <3>2
  <2>3. CASE Close(s)
    <3>1. UNCHANGED <<store, errors>> /\ Errors' = Errors /\ Failing' = Failing
      BY <2>3 DEF Close, Errors, Failing, workerFrame, stopFrame
    <3>2. Failed' = Failed
      BY <3>1 DEF Failed
    <3>. QED BY <3>1, <3>2
  <2>4. CASE Drained(s)
    <3>1. UNCHANGED <<store, errors>> /\ Errors' = Errors /\ Failing' = Failing
      BY <2>4 DEF Drained, Errors, Failing, workerFrame, stopFrame
    <3>2. Failed' = Failed
      BY <3>1 DEF Failed
    <3>. QED BY <3>1, <3>2
  <2>. QED BY <1>3, <2>1, <2>2, <2>3, <2>4 DEF Stop
<1>4. CASE UNCHANGED vars
  <2>1. UNCHANGED <<store, errors>> /\ Errors' = Errors /\ Failing' = Failing
    BY <1>4 DEF vars, Errors, Failing
  <2>2. Failed' = Failed
    BY <2>1 DEF Failed
  <2>. QED BY <2>1, <2>2
<1>. QED BY <1>1, <1>2, <1>3, <1>4 DEF Next

-----------------------------------------------------------------------------
(* The theorems.                                                           *)

\* An empty queue fits the invariant.
LEMMA InitFits == Init => IInv
<1>. SUFFICES ASSUME Init PROVE IInv
  OBVIOUS
<1>1. TypeOK
  <2>1. <<>> \in Seq(Records) /\ Len(<<>>) = 0
    OBVIOUS
  <2>2. jobs \in Seq(Records) /\ Len(jobs) <= Capacity
    BY <2>1 DEF Init
  <2>3. /\ caller \in [Records -> {"idle", "send", "sent", "queued", "write",
                                   "written", "error", "panicked"}]
        /\ pc \in [Workers -> {"take", "write", "fail", "finish", "done"}]
        /\ job \in [Workers -> Records \cup {None}]
        /\ store \in [Records -> Results \cup {"none"}]
        /\ writes \in [Records -> Nat]
        /\ stopper \in [Stoppers -> {"idle", "close", "wait", "drained", "returned"}]
    BY DEF Init
  <2>4. jobsClosed = FALSE /\ closed = FALSE /\ pending = 0 /\ errors = 0
    BY DEF Init
  <2>5. pending \in Int /\ errors \in Nat BY <2>4
  <2>6. jobsClosed \in BOOLEAN /\ closed \in BOOLEAN BY <2>4
  <2>. QED BY <2>2, <2>3, <2>5, <2>6 DEF TypeOK
<1>2. \A r \in Records : ~Queued(r) /\ ~Held(r) BY DEF Init, Queued, Held
<1>3. PlacesFit BY <1>2 DEF Init, PlacesFit
<1>4. CallersFit BY <1>2 DEF Init, CallersFit, Unwritten
<1>5. WorkersFit /\ StoppersFit BY DEF Init, WorkersFit, StoppersFit
<1>6. Sent = {} /\ Busy = {} /\ Failed = {} /\ Errors = {} /\ Failing = {}
  BY DEF Init, Sent, Busy, Failed, Errors, Failing
<1>7. StatsAgree BY <1>6, FS_EmptySet, StatsAsSets DEF Init
<1>. QED BY <1>1, <1>3, <1>4, <1>5, <1>7 DEF IInv

\* Every step keeps the invariant.
LEMMA StepKeepsIInv == IInv /\ [Next]_vars => IInv'
<1>. SUFFICES ASSUME TypeOK, PlacesFit, CallersFit, WorkersFit, StoppersFit, StatsAgree,
                     [Next]_vars
     PROVE  IInv'
  BY DEF IInv
<1>1. TypeOK' /\ PlacesFit' BY TypeStep, PlacesStep
<1>2. CallersFit' /\ WorkersFit' /\ StoppersFit'
  BY CallersStep, WorkersStep, StoppersStep
<1>3. StatsAgree'
  <2>1. /\ pending' + Cardinality(Sent') = Len(jobs') + Cardinality(Busy')
        /\ Cardinality(Failed') = errors' + Cardinality(Errors') + Cardinality(Failing')
    BY PendingStep, ErrorsStep
  <2>. QED BY <2>1 DEF StatsAgree, Sent, Busy, Failed, Errors, Failing
<1>. QED BY <1>1, <1>2, <1>3 DEF IInv

\* In every reachable state the place of a record decides what has become of it,
\* and the counters are right (asyncTaskQueue.Submit, run and Stop).
THEOREM Invariant == Spec => []IInv
BY InitFits, StepKeepsIInv, PTL DEF Spec

\* The queue's, the callers' and the workers' state keeps its types.
THEOREM TypeCorrect == Spec => []TypeOK
<1>1. IInv => TypeOK
  BY DEF IInv
<1>. QED BY Invariant, <1>1, PTL

\* No record is written twice, by a caller that falls back and a worker or by
\* two workers, with any number of them.
THEOREM NoDuplicates == Spec => []WrittenOnce
<1>1. IInv => WrittenOnce
  BY DEF IInv, WrittenOnce, CallersFit, WorkersFit, TypeOK, Unwritten, Wrote, Held
<1>. QED BY Invariant, <1>1, PTL

\* What Record has acknowledged is written, in the channel or in a worker's hands.
THEOREM NothingIsDropped == Spec => []AcknowledgedIsKept
<1>1. IInv => AcknowledgedIsKept
  BY DEF IInv, AcknowledgedIsKept, CallersFit, Wrote
<1>. QED BY Invariant, <1>1, PTL

\* Pending and Errors of Stats agree with the places of the records, whatever
\* the order of the atomics.
THEOREM CountersAgree == Spec => []StatsAgree
<1>1. IInv => StatsAgree
  BY DEF IInv
<1>. QED BY Invariant, <1>1, PTL

\* When Stop returns nothing acknowledged is unwritten.
THEOREM StopIsComplete == Spec => []StopDrains
<1>1. IInv => StopDrains
  <2>. SUFFICES ASSUME IInv, NEW s \in Stoppers, stopper[s] = "drained"
       PROVE  /\ jobs = <<>>
              /\ \A r \in Records : caller[r] \in {"queued", "written"} => store[r] # "none"
    BY DEF StopDrains
  <2>1. \A w \in Workers : pc[w] = "done" BY DEF IInv, StoppersFit
  <2>2. jobs = <<>> BY <2>1 DEF IInv, WorkersFit
  <2>3. \A r \in Records : ~Queued(r) BY <2>2 DEF Queued
  <2>4. \A r \in Records : ~Held(r) BY <2>1 DEF IInv, WorkersFit, Held
  <2>. QED BY <2>2, <2>3, <2>4 DEF IInv, CallersFit, Wrote
<1>. QED BY Invariant, <1>1, PTL

===============================================================================
