--------------------------- MODULE AsyncTasksProofs ---------------------------
(***************************************************************************)
(* The safety of AsyncTasks for every number of tasks, workers, callers,   *)
(* every queue capacity and every slot limit.  IInv says where a task can  *)
(* be and what holds there; each lemma Keeps... shows that a step keeps    *)
(* one part of it, with one proof step for every action.                   *)
(***************************************************************************)
EXTENDS AsyncTasks, SequenceTheorems, FiniteSetTheorems, TLAPS

USE ConstantsAssumption

(* What Append and Tail do to the members of a queue.                      *)

\* What occurs in a sequence to which an element was appended.
LEMMA OccursAppend ==
    ASSUME NEW S, NEW q \in Seq(S), NEW a \in S
    PROVE  /\ Append(q, a) \in Seq(S) /\ Len(Append(q, a)) = Len(q) + 1
           /\ \A t : Occurs(t, Append(q, a)) <=> Occurs(t, q) \/ t = a
BY DEF Occurs

\* What occurs in a sequence without repetitions once its head was taken.
LEMMA OccursTail ==
    ASSUME NEW S, NEW q \in Seq(S), q # <<>>, NoRepeat(q)
    PROVE  /\ Tail(q) \in Seq(S) /\ Len(Tail(q)) = Len(q) - 1
           /\ Head(q) \in S /\ Occurs(Head(q), q)
           /\ NoRepeat(Tail(q))
           /\ \A t : Occurs(t, Tail(q)) <=> Occurs(t, q) /\ t # Head(q)
BY DEF Occurs, NoRepeat

\* Appending what did not occur repeats nothing.
LEMMA NoRepeatAppend ==
    ASSUME NEW S, NEW q \in Seq(S), NEW a \in S, NoRepeat(q), ~Occurs(a, q)
    PROVE  NoRepeat(Append(q, a))
BY DEF Occurs, NoRepeat

-----------------------------------------------------------------------------
(* Type correctness.                                                       *)

\* The manager starts with the right types.
LEMMA InitTyped == Init => TypeOK
<1>. SUFFICES ASSUME Init PROVE TypeOK
  OBVIOUS
<1>1. queue \in Seq(Tasks) /\ Len(queue) <= Capacity
  BY DEF Init
<1>2. runs \in [Tasks -> Nat]
  BY DEF Init
<1>. QED BY <1>1, <1>2 DEF Init, TypeOK, Statuses, Errors

\* Every step keeps the types.
LEMMA NextTyped == TypeOK /\ [Next]_vars => TypeOK'
<1>. SUFFICES ASSUME TypeOK, [Next]_vars PROVE TypeOK'
  OBVIOUS
<1>. USE DEF TypeOK, Statuses, Terminal, Errors, workerVars, requestVars
<1>1. ASSUME NEW t \in Tasks, Submit(t) \/ Expire(t) \/ Cancel(t) PROVE TypeOK'
  <2>1. CASE Refuse(t) BY <2>1 DEF Refuse
  <2>2. CASE Register(t) BY <2>2 DEF Register
  <2>3. CASE Enqueue(t)
    BY <2>3, OccursAppend DEF Enqueue, Full
  <2>4. CASE FindFull(t) BY <2>4 DEF FindFull
  <2>5. CASE Withdraw(t) BY <2>5 DEF Withdraw, Deleted, Cancelled
  <2>6. CASE SendOnClosed(t) BY <2>6 DEF SendOnClosed
  <2>7. CASE Expire(t) BY <2>7 DEF Expire
  <2>8. CASE Cancel(t) BY <2>8 DEF Cancel, Cancelled, AfterCancel
  <2>. QED BY <1>1, <2>1, <2>2, <2>3, <2>4, <2>5, <2>6, <2>7, <2>8 DEF Submit
<1>2. ASSUME NEW w \in Workers, Work(w) PROVE TypeOK'
  <2>1. CASE Take(w) BY <2>1 DEF Take
  <2>2. CASE Exit(w) BY <2>2 DEF Exit
  <2>3. CASE Check(w) BY <2>3 DEF Check
  <2>4. CASE Start(w) BY <2>4 DEF Start
  <2>5. CASE Acquire(w)
    <3>1. runs' \in [Tasks -> Nat]
      <4>1. \A t \in Tasks : runs[t] + 1 \in Nat
        OBVIOUS
      <4>. QED BY <2>5, <4>1 DEF Acquire
    <3>. QED BY <2>5, <3>1 DEF Acquire
  <2>6. CASE Abort(w) BY <2>6 DEF Abort, Done
  <2>7. CASE Return(w) BY <2>7 DEF Return
  <2>8. CASE Release(w) BY <2>8 DEF Release
  <2>9. CASE Finish(w) BY <2>9 DEF Finish, FinalStatus
  <2>. QED BY <1>2, <2>1, <2>2, <2>3, <2>4, <2>5, <2>6, <2>7, <2>8, <2>9 DEF Work
<1>3. ASSUME NEW c \in Callers, SyncAcquire(c) \/ SyncRelease(c) PROVE TypeOK'
  BY <1>3 DEF SyncAcquire, SyncRelease
<1>4. CASE Stop \/ StopDrained \/ StopExpired
  BY <1>4 DEF Stop, StopDrained, StopExpired
<1>5. CASE UNCHANGED vars BY <1>5 DEF vars
<1>. QED BY <1>1, <1>2, <1>3, <1>4, <1>5 DEF Next

\* The variables of the manager keep their types.
THEOREM TypeCorrect == Spec => []TypeOK
BY InitTyped, NextTyped, PTL DEF Spec

-----------------------------------------------------------------------------
(* The parts of IInv, one lemma each.  What a family of actions leaves     *)
(* alone is collected first.                                               *)

RequestStep == \E t \in Tasks : Submit(t) \/ Expire(t) \/ Cancel(t)
SyncStep    == \E c \in Callers : SyncAcquire(c) \/ SyncRelease(c)
StopStep    == Stop \/ StopDrained \/ StopExpired

\* What the steps of requests, of synchronous calls and of stop leave alone.
LEMMA Frames ==
    /\ RequestStep => UNCHANGED <<workerVars, closed, stopper>>
    /\ SyncStep    => UNCHANGED <<status, queue, pc, held, outcome, runs, requestVars>>
    /\ StopStep    => UNCHANGED <<status, cancelRequested, ctx, submitter, queue, workerVars>>
<1>1. RequestStep => UNCHANGED <<workerVars, closed, stopper>>
  BY DEF RequestStep, Submit, Refuse, Register, Enqueue, FindFull, Withdraw,
         SendOnClosed, Expire, Cancel
<1>2. SyncStep => UNCHANGED <<status, queue, pc, held, outcome, runs, requestVars>>
  BY DEF SyncStep, SyncAcquire, SyncRelease
<1>3. StopStep => UNCHANGED <<status, cancelRequested, ctx, submitter, queue, workerVars>>
  BY DEF StopStep, Stop, StopDrained, StopExpired
<1>. QED BY <1>1, <1>2, <1>3

\* The actors that a step can be of.
LEMMA Steps == [Next]_vars => \/ RequestStep \/ SyncStep \/ StopStep
                              \/ \E w \in Workers : Work(w)
                              \/ UNCHANGED vars
BY DEF Next, RequestStep, SyncStep, StopStep

\* A worker holds a task exactly while it is busy with one.
LEMMA KeepsHeldFits == TypeOK /\ HeldFits /\ [Next]_vars => HeldFits'
<1>. SUFFICES ASSUME TypeOK, HeldFits, [Next]_vars PROVE HeldFits'
  OBVIOUS
<1>1. CASE UNCHANGED <<pc, held>> BY <1>1 DEF HeldFits
<1>2. ASSUME NEW w \in Workers, Work(w) PROVE HeldFits'
  <2>. USE DEF TypeOK, HeldFits
  <2>1. CASE Take(w)
    <3>1. Head(queue) \in Tasks
      BY <2>1 DEF Take
    <3>. QED BY <2>1, <3>1 DEF Take
  <2>2. CASE Exit(w) BY <2>2 DEF Exit
  <2>3. CASE Check(w) BY <2>3 DEF Check
  <2>4. CASE Start(w) BY <2>4 DEF Start
  <2>5. CASE Acquire(w) BY <2>5 DEF Acquire
  <2>6. CASE Abort(w) BY <2>6 DEF Abort
  <2>7. CASE Return(w) BY <2>7 DEF Return
  <2>8. CASE Release(w) BY <2>8 DEF Release
  <2>9. CASE Finish(w) BY <2>9 DEF Finish
  <2>. QED BY <1>2, <2>1, <2>2, <2>3, <2>4, <2>5, <2>6, <2>7, <2>8, <2>9 DEF Work
<1>. QED BY <1>1, <1>2, Steps, Frames DEF vars, workerVars

\* Stop closes the queue once, and a worker exits only when it is closed and empty.
LEMMA KeepsStopFits == TypeOK /\ StopFits /\ [Next]_vars => StopFits'
<1>. SUFFICES ASSUME TypeOK, StopFits, [Next]_vars PROVE StopFits'
  OBVIOUS
<1>1. CASE UNCHANGED <<pc, queue, closed, stopper>>
  BY <1>1 DEF StopFits, QueueEnded
<1>2. CASE RequestStep
  <2>1. closed => queue' = queue
    BY <1>2 DEF RequestStep, Submit, Refuse, Register, Enqueue, FindFull,
                Withdraw, SendOnClosed, Expire, Cancel
  <2>. QED BY <1>2, <2>1, Frames DEF StopFits, QueueEnded, workerVars
<1>3. CASE StopStep
  BY <1>3, Frames DEF StopFits, QueueEnded, StopStep, Stop, StopDrained,
                      StopExpired, TypeOK, workerVars
<1>4. ASSUME NEW w \in Workers, Work(w) PROVE StopFits'
  <2>1. CASE Take(w) BY <2>1 DEF Take, StopFits, QueueEnded, TypeOK, requestVars
  <2>2. CASE Exit(w) BY <2>2 DEF Exit, StopFits, QueueEnded, TypeOK, requestVars
  <2>3. CASE Check(w) \/ Start(w) \/ Acquire(w) \/ Abort(w) \/ Return(w)
             \/ Release(w) \/ Finish(w)
    <3>1. /\ UNCHANGED <<queue, closed, stopper>>
          /\ pc[w] # "done"
          /\ \A v \in Workers : pc'[v] = "done" => pc[v] = "done"
          /\ \A v \in Workers : pc[v] = "done" => pc'[v] = "done"
      BY <2>3 DEF Check, Start, Acquire, Abort, Return, Release, Finish, TypeOK,
                  requestVars
    <3>. QED BY <3>1 DEF StopFits, QueueEnded
  <2>. QED BY <1>4, <2>1, <2>2, <2>3 DEF Work
<1>. QED BY <1>1, <1>2, <1>3, <1>4, Steps, Frames DEF vars, requestVars

\* Taking or returning one token changes the number of tokens by at most one.
LEMMA SlotCount ==
    ASSUME TypeOK, NEW x
    PROVE  /\ Cardinality(slots) \in Nat
           /\ Cardinality(slots \cup {x}) \in Nat /\ Cardinality(slots \ {x}) \in Nat
           /\ Cardinality(slots \cup {x}) <= Cardinality(slots) + 1
           /\ Cardinality(slots \ {x}) <= Cardinality(slots)
<1>1. IsFiniteSet(Workers \cup Callers)
  BY FS_Union
<1>2. IsFiniteSet(slots) /\ Cardinality(slots) \in Nat
  <2>1. slots \in SUBSET (Workers \cup Callers)
    BY DEF TypeOK
  <2>2. IsFiniteSet(slots)
    BY <1>1, <2>1, FS_Subset
  <2>. QED BY <2>2, FS_CardinalityType
<1>3. Cardinality(slots \cup {x}) <= Cardinality(slots) + 1
  <2>1. Cardinality(slots \cup {x})
          = IF x \in slots THEN Cardinality(slots) ELSE Cardinality(slots) + 1
    BY <1>2, FS_AddElement
  <2>. QED BY <1>2, <2>1
<1>4. Cardinality(slots \ {x}) <= Cardinality(slots)
  <2>1. Cardinality(slots \ {x})
          = IF x \in slots THEN Cardinality(slots) - 1 ELSE Cardinality(slots)
    BY <1>2, FS_RemoveElement
  <2>. QED BY <1>2, <2>1
<1>5. Cardinality(slots \cup {x}) \in Nat /\ Cardinality(slots \ {x}) \in Nat
  BY <1>2, FS_AddElement, FS_RemoveElement, FS_CardinalityType
<1>. QED BY <1>2, <1>3, <1>4, <1>5

\* The limit of the channel of tokens holds after an acquire and after a release.
LEMMA SlotGrowth ==
    ASSUME TypeOK, Cardinality(slots) <= Limit, NEW x
    PROVE  /\ SlotFree => Cardinality(slots \cup {x}) <= Limit
           /\ Cardinality(slots \ {x}) <= Limit
<1>. DEFINE n == Cardinality(slots)
            m == Cardinality(slots \cup {x})
            k == Cardinality(slots \ {x})
<1>1. n \in Nat /\ m \in Nat /\ k \in Nat /\ m <= n + 1 /\ k <= n
  BY SlotCount
<1>2. SlotFree => n < Limit
  BY DEF SlotFree
<1>. HIDE DEF n, m, k
<1>3. (SlotFree => m <= Limit) /\ k <= Limit
  <2>1. n <= Limit
    BY DEF n
  <2>. QED BY <1>1, <1>2, <2>1
<1>. QED BY <1>3 DEF m, k

\* Tokens follow the calls of the workers, within the limit.
LEMMA KeepsSlots == TypeOK /\ SlotsFollowCalls /\ [Next]_vars => SlotsFollowCalls'
<1>. SUFFICES ASSUME TypeOK, SlotsFollowCalls, [Next]_vars PROVE SlotsFollowCalls'
  OBVIOUS
<1>. USE DEF SlotsFollowCalls
<1>1. CASE UNCHANGED <<pc, slots>> BY <1>1
<1>2. ASSUME NEW c \in Callers, SyncAcquire(c) PROVE SlotsFollowCalls'
  <2>1. slots' \cap Workers = slots \cap Workers
    BY <1>2 DEF SyncAcquire
  <2>2. Cardinality(slots \cup {c}) <= Limit
    BY <1>2, SlotGrowth DEF SyncAcquire
  <2>. QED BY <1>2, <2>1, <2>2 DEF SyncAcquire
<1>3. ASSUME NEW c \in Callers, SyncRelease(c) PROVE SlotsFollowCalls'
  <2>1. slots' \cap Workers = slots \cap Workers
    BY <1>3 DEF SyncRelease
  <2>. QED BY <1>3, <2>1, SlotGrowth DEF SyncRelease
<1>4. ASSUME NEW w \in Workers, Work(w) PROVE SlotsFollowCalls'
  <2>1. CASE Take(w) \/ Exit(w) \/ Check(w) \/ Start(w) \/ Abort(w) \/ Finish(w)
    <3>1. /\ UNCHANGED slots
          /\ \A v \in Workers : pc'[v] \in {"run", "release"}
                                    <=> pc[v] \in {"run", "release"}
      BY <2>1 DEF Take, Exit, Check, Start, Abort, Finish, TypeOK
    <3>. QED BY <3>1
  <2>2. CASE Acquire(w)
    <3>1. slots' \cap Workers = {v \in Workers : Limit > 0 /\ pc'[v] \in {"run", "release"}}
      BY <2>2 DEF Acquire, SlotFree, TypeOK
    <3>2. Cardinality(slots') <= Limit
      BY <2>2, SlotGrowth DEF Acquire
    <3>. QED BY <3>1, <3>2
  <2>3. CASE Return(w)
    BY <2>3 DEF Return, TypeOK
  <2>4. CASE Release(w)
    <3>1. slots' \cap Workers = {v \in Workers : Limit > 0 /\ pc'[v] \in {"run", "release"}}
      BY <2>4 DEF Release, TypeOK
    <3>2. Cardinality(slots') <= Limit
      BY <2>4, SlotGrowth DEF Release
    <3>. QED BY <3>1, <3>2
  <2>. QED BY <1>4, <2>1, <2>2, <2>3, <2>4 DEF Work
<1>. QED BY <1>1, <1>2, <1>3, <1>4, Steps, Frames DEF vars, workerVars, SyncStep

\* A task is in one place: once in the queue, or with one worker.
LEMMA KeepsPlaced ==
    TypeOK /\ HeldFits /\ Placed /\ RequestFits /\ [Next]_vars => Placed'
<1>. SUFFICES ASSUME TypeOK, HeldFits, Placed, RequestFits, [Next]_vars PROVE Placed'
  OBVIOUS
<1>1. CASE UNCHANGED <<queue, held, submitter>>
  BY <1>1 DEF Placed, Queued, Owned
<1>2. ASSUME NEW t \in Tasks, Enqueue(t) PROVE Placed'
  <2>1. ~Queued(t) /\ ~Owned(t)
    BY <1>2 DEF Enqueue, Placed
  <2>2. \A u \in Tasks : Queued(u)' <=> Queued(u) \/ u = t
    BY <1>2, OccursAppend DEF Enqueue, Queued, TypeOK
  <2>3. NoRepeat(queue')
    BY <1>2, <2>1, NoRepeatAppend DEF Enqueue, Queued, TypeOK, Placed
  <2>4. \A u \in Tasks : Owned(u)' <=> Owned(u)
    BY <1>2 DEF Enqueue, Owned, workerVars
  <2>. QED BY <1>2, <2>1, <2>2, <2>3, <2>4 DEF Placed, Enqueue, TypeOK, workerVars
<1>3. ASSUME NEW t \in Tasks,
             \/ Refuse(t) \/ Register(t) \/ FindFull(t) \/ Withdraw(t)
             \/ SendOnClosed(t) \/ Expire(t) \/ Cancel(t)
      PROVE  Placed'
  <2>1. /\ UNCHANGED <<queue, held>>
        /\ \A u \in Tasks : submitter[u] = "accepted" => submitter'[u] = "accepted"
    BY <1>3 DEF Refuse, Register, FindFull, Withdraw, SendOnClosed, Expire, Cancel,
                workerVars, TypeOK
  <2>. QED BY <2>1 DEF Placed, Queued, Owned
<1>4. ASSUME NEW w \in Workers, Take(w) PROVE Placed'
  <2>1. held[w] = NoTask
    BY <1>4 DEF Take, HeldFits
  <2>2. /\ NoRepeat(queue') /\ Head(queue) \in Tasks /\ Queued(Head(queue))
        /\ \A u \in Tasks : Queued(u)' <=> Queued(u) /\ u # Head(queue)
    BY <1>4, OccursTail DEF Take, Queued, TypeOK, Placed
  <2>3. \A u \in Tasks : Owned(u)' <=> Owned(u) \/ u = Head(queue)
    BY <1>4, <2>1 DEF Take, Owned, TypeOK
  <2>4. \A v \in Workers : held[v] # Head(queue)
    BY <2>2 DEF Placed, Owned
  <2>5. \A u, v \in Workers : held'[u] = held'[v] /\ held'[u] # NoTask => u = v
    BY <1>4, <2>2, <2>4 DEF Take, Placed, TypeOK
  <2>. QED BY <1>4, <2>2, <2>3, <2>5 DEF Placed, Take, requestVars
<1>5. ASSUME NEW w \in Workers, Check(w) \/ Finish(w) PROVE Placed'
  <2>1. /\ UNCHANGED <<queue, submitter>>
        /\ \A v \in Workers : held'[v] = held[v] \/ held'[v] = NoTask
    BY <1>5 DEF Check, Finish, TypeOK, requestVars
  <2>2. \A u \in Tasks : Owned(u)' => Owned(u)
    BY <2>1 DEF Owned
  <2>. QED BY <2>1, <2>2 DEF Placed, Queued
<1>6. ASSUME NEW w \in Workers,
             Exit(w) \/ Start(w) \/ Acquire(w) \/ Abort(w) \/ Return(w) \/ Release(w)
      PROVE  UNCHANGED <<queue, held, submitter>>
  BY <1>6 DEF Exit, Start, Acquire, Abort, Return, Release, requestVars
<1>7. ASSUME RequestStep PROVE Placed'
  BY <1>7, <1>2, <1>3 DEF RequestStep, Submit
<1>8. ASSUME NEW w \in Workers, Work(w) PROVE Placed'
  BY <1>8, <1>1, <1>4, <1>5, <1>6 DEF Work
<1>. QED BY <1>1, <1>7, <1>8, Steps, Frames DEF vars, workerVars, requestVars

\* Status, runs and step of the worker that has a task agree.
LEMMA KeepsWorkFits ==
    TypeOK /\ HeldFits /\ Placed /\ RequestFits /\ WorkFits /\ [Next]_vars => WorkFits'
<1>. SUFFICES ASSUME TypeOK, HeldFits, Placed, RequestFits, WorkFits, [Next]_vars
              PROVE  WorkFits'
  OBVIOUS
<1>1. CASE UNCHANGED <<status, runs, pc, held>>
  BY <1>1 DEF WorkFits
<1>2. ASSUME NEW t \in Tasks, ~Owned(t),
             UNCHANGED <<pc, held, runs>>,
             \A u \in Tasks \ {t} : status'[u] = status[u]
      PROVE  WorkFits'
  BY <1>2 DEF WorkFits, Owned, TypeOK
<1>3. ASSUME RequestStep PROVE WorkFits'
  <2>1. PICK t \in Tasks : Submit(t) \/ Expire(t) \/ Cancel(t)
    BY <1>3 DEF RequestStep
  <2>2. UNCHANGED <<pc, held, runs>>
    BY <1>3, Frames DEF workerVars
  <2>3. CASE Register(t) \/ Withdraw(t)
    <3>1. ~Owned(t)
      BY <2>3 DEF Placed, Register, Withdraw
    <3>2. \A u \in Tasks \ {t} : status'[u] = status[u]
      BY <2>3 DEF Register, Withdraw, Deleted, TypeOK
    <3>. QED BY <1>2, <2>2, <3>1, <3>2
  <2>4. CASE Cancel(t)
    <3>1. /\ \A u \in Tasks \ {t} : status'[u] = status[u]
          /\ status'[t] = AfterCancel(status[t])
      BY <2>4 DEF Cancel, TypeOK
    <3>2. ASSUME NEW w \in Workers, held[w] # NoTask
          PROVE  \/ status'[held[w]] = status[held[w]]
                 \/ status[held[w]] = "pending" /\ status'[held[w]] = "cancelled"
      BY <3>1, <3>2 DEF AfterCancel, TypeOK
    <3>. QED BY <2>2, <3>2 DEF WorkFits
  <2>5. CASE ~(Register(t) \/ Withdraw(t) \/ Cancel(t))
    <3>1. UNCHANGED status
      BY <2>1, <2>5 DEF Submit, Refuse, Enqueue, FindFull, SendOnClosed, Expire
    <3>. QED BY <1>1, <2>2, <3>1
  <2>. QED BY <2>3, <2>4, <2>5
<1>4. ASSUME NEW w \in Workers, Work(w) PROVE WorkFits'
  <2>1. CASE Take(w)
    <3>1. /\ Head(queue) \in Tasks /\ Queued(Head(queue))
      BY <2>1, OccursTail DEF Take, Queued, TypeOK, Placed
    <3>2. /\ status[Head(queue)] \in {"pending", "cancelled"}
          /\ runs[Head(queue)] = 0
      BY <3>1 DEF RequestFits
    <3>3. /\ UNCHANGED <<status, runs>>
          /\ held'[w] = Head(queue) /\ pc'[w] = "check"
          /\ \A v \in Workers \ {w} : held'[v] = held[v] /\ pc'[v] = pc[v]
      BY <2>1 DEF Take, TypeOK
    <3>. QED BY <3>2, <3>3 DEF WorkFits
  <2>2. CASE Exit(w)
    BY <2>2 DEF Exit, WorkFits, HeldFits, TypeOK
  <2>3. CASE Check(w)
    BY <2>3 DEF Check, WorkFits, TypeOK
  <2>4. ASSUME held[w] \in Tasks,
               UNCHANGED held,
               \A v \in Workers \ {w} : pc'[v] = pc[v],
               \A u \in Tasks \ {held[w]} : status'[u] = status[u] /\ runs'[u] = runs[u],
               /\ pc'[w] \in {"check", "start"}
                    => status'[held[w]] \in {"pending", "cancelled"} /\ runs'[held[w]] = 0
               /\ pc'[w] = "acquire" => status'[held[w]] = "running" /\ runs'[held[w]] = 0
               /\ pc'[w] \in {"run", "release", "finish"}
                    => status'[held[w]] = "running" /\ runs'[held[w]] <= 1
        PROVE  WorkFits'
    <3>1. \A v \in Workers \ {w} : held[v] # held[w]
      BY <2>4 DEF Placed
    <3>2. \A v \in Workers : held[v] \in Tasks \cup {NoTask}
      BY DEF TypeOK
    <3>. QED BY <2>4, <3>1, <3>2 DEF WorkFits
  <2>5. pc[w] \notin {"take", "done"} => held[w] \in Tasks
    BY DEF HeldFits, TypeOK
  <2>6. CASE Start(w)
    BY <2>4, <2>5, <2>6 DEF Start, WorkFits, TypeOK
  <2>7. CASE Acquire(w)
    BY <2>4, <2>5, <2>7 DEF Acquire, WorkFits, TypeOK
  <2>8. CASE Abort(w)
    BY <2>4, <2>5, <2>8 DEF Abort, WorkFits, TypeOK
  <2>9. CASE Return(w) \/ Release(w)
    BY <2>4, <2>5, <2>9 DEF Return, Release, WorkFits, TypeOK
  <2>10. CASE Finish(w)
    <3>1. held[w] \in Tasks
      BY <2>5, <2>10 DEF Finish
    <3>2. /\ UNCHANGED runs /\ held'[w] = NoTask
          /\ \A v \in Workers \ {w} : held'[v] = held[v] /\ pc'[v] = pc[v]
          /\ \A u \in Tasks \ {held[w]} : status'[u] = status[u]
      BY <2>10, <3>1 DEF Finish, TypeOK
    <3>3. \A v \in Workers \ {w} : held[v] # held[w] /\ held[v] \in Tasks \cup {NoTask}
      BY <3>1 DEF Placed, TypeOK
    <3>. QED BY <3>2, <3>3 DEF WorkFits
  <2>. QED BY <1>4, <2>1, <2>2, <2>3, <2>6, <2>7, <2>8, <2>9, <2>10 DEF Work
<1>. QED BY <1>1, <1>3, <1>4, Steps, Frames DEF vars, workerVars

\* How far the request of a task is decides where the task can be.
LEMMA KeepsRequestFits ==
    TypeOK /\ HeldFits /\ Placed /\ RequestFits /\ WorkFits /\ [Next]_vars
        => RequestFits'
<1>. SUFFICES ASSUME TypeOK, HeldFits, Placed, RequestFits, WorkFits, [Next]_vars
              PROVE  RequestFits'
  OBVIOUS
<1>1. CASE UNCHANGED <<status, runs, submitter, queue, held>>
  BY <1>1 DEF RequestFits, Queued, Owned
<1>2. ASSUME RequestStep PROVE RequestFits'
  <2>1. PICK t \in Tasks : Submit(t) \/ Expire(t) \/ Cancel(t)
    BY <1>2 DEF RequestStep
  <2>2. /\ UNCHANGED <<held, runs>>
        /\ \A u \in Tasks : Owned(u)' <=> Owned(u)
    BY <1>2, Frames DEF workerVars, Owned
  <2>3. ASSUME UNCHANGED queue PROVE \A u \in Tasks : Queued(u)' <=> Queued(u)
    BY <2>3 DEF Queued
  <2>4. CASE Enqueue(t)
    <3>1. \A u \in Tasks : Queued(u)' <=> Queued(u) \/ u = t
      BY <2>4, OccursAppend DEF Enqueue, Queued, TypeOK
    <3>. QED BY <2>2, <2>4, <3>1 DEF RequestFits, Enqueue, TypeOK
  <2>5. CASE Refuse(t) \/ Register(t) \/ FindFull(t) \/ Withdraw(t) \/ SendOnClosed(t)
    <3>1. ~Queued(t) /\ ~Owned(t) /\ UNCHANGED queue
      BY <2>5 DEF Placed, Refuse, Register, FindFull, Withdraw, SendOnClosed
    <3>2. \A u \in Tasks \ {t} : status'[u] = status[u] /\ submitter'[u] = submitter[u]
      BY <2>5 DEF Refuse, Register, FindFull, Withdraw, SendOnClosed, Deleted, TypeOK
    <3>3. \/ submitter'[t] \in {"refused", "rejected"} /\ status'[t] = "absent"
          \/ submitter'[t] \in {"registered", "full", "panicked"} /\ status'[t] = "pending"
      BY <2>5 DEF Refuse, Register, FindFull, Withdraw, SendOnClosed, Deleted, TypeOK,
                  RequestFits
    <3>4. runs[t] = 0
      BY <2>5 DEF RequestFits, Refuse, Register, FindFull, Withdraw, SendOnClosed
    <3>. QED BY <2>2, <2>3, <3>1, <3>2, <3>3, <3>4 DEF RequestFits
  <2>6. CASE Expire(t)
    BY <1>1, <2>2, <2>6 DEF Expire
  <2>7. CASE Cancel(t)
    <3>1. /\ UNCHANGED <<submitter, queue>> /\ submitter[t] = "accepted"
          /\ ~isTerminal(status[t])
          /\ \A u \in Tasks \ {t} : status'[u] = status[u]
          /\ status'[t] = AfterCancel(status[t])
      BY <2>7 DEF Cancel, TypeOK
    <3>. QED BY <2>2, <2>3, <3>1 DEF RequestFits, AfterCancel
  <2>. QED BY <2>1, <2>4, <2>5, <2>6, <2>7 DEF Submit
<1>3. ASSUME NEW w \in Workers, Work(w) PROVE RequestFits'
  <2>1. CASE Take(w)
    <3>1. /\ Head(queue) \in Tasks
          /\ \A u \in Tasks : Queued(u)' <=> Queued(u) /\ u # Head(queue)
      BY <2>1, OccursTail DEF Take, Queued, TypeOK, Placed
    <3>2. \A u \in Tasks : Owned(u)' <=> Owned(u) \/ u = Head(queue)
      BY <2>1, <3>1 DEF Take, Owned, TypeOK, HeldFits
    <3>. QED BY <2>1, <3>1, <3>2 DEF RequestFits, Take, requestVars
  <2>2. ASSUME NEW t \in Tasks, held[w] = t,
               UNCHANGED <<queue, submitter>>,
               \A v \in Workers \ {w} : held'[v] = held[v],
               \A u \in Tasks \ {t} : status'[u] = status[u] /\ runs'[u] = runs[u],
               \/ held'[w] = t
               \/ held'[w] = NoTask /\ isTerminal(status'[t]) /\ runs'[t] <= 1
        PROVE  RequestFits'
    <3>1. \A u \in Tasks : Queued(u)' <=> Queued(u)
      BY <2>2 DEF Queued
    <3>2. \A u \in Tasks \ {t} : Owned(u)' <=> Owned(u)
      BY <2>2 DEF Owned
    <3>3. ~Queued(t)' /\ submitter'[t] = "accepted"
      BY <2>2, <3>1 DEF Placed, Owned
    <3>4. Owned(t)' \/ (isTerminal(status'[t]) /\ runs'[t] <= 1)
      <4>1. held'[w] = t => Owned(t)' BY DEF Owned
      <4>. QED BY <2>2, <4>1
    <3>5. \A u \in Tasks \ {t} :
              status'[u] = status[u] /\ runs'[u] = runs[u] /\ submitter'[u] = submitter[u]
      BY <2>2
    <3>6. \A u \in Tasks \ {t} :
              /\ submitter'[u] \in {"idle", "refused", "rejected"}
                     => status'[u] = "absent" /\ runs'[u] = 0
              /\ submitter'[u] \in {"registered", "full", "panicked"}
                     => status'[u] = "pending" /\ runs'[u] = 0
              /\ Queued(u)' => status'[u] \in {"pending", "cancelled"} /\ runs'[u] = 0
              /\ submitter'[u] = "accepted" /\ ~Queued(u)' /\ ~Owned(u)'
                     => isTerminal(status'[u]) /\ runs'[u] <= 1
      BY <3>1, <3>2, <3>5 DEF RequestFits
    <3>. QED BY <3>3, <3>4, <3>6 DEF RequestFits
  <2>3. pc[w] \notin {"take", "done"} => held[w] \in Tasks
    BY DEF HeldFits, TypeOK
  <2>4. CASE Exit(w)
    BY <1>1, <2>4 DEF Exit, requestVars
  <2>5. CASE Check(w)
    <3>1. held[w] \in Tasks /\ status[held[w]] # "absent" /\ runs[held[w]] = 0
      BY <2>3, <2>5 DEF Check, WorkFits
    <3>2. /\ UNCHANGED <<status, runs, queue, submitter>>
          /\ \A v \in Workers \ {w} : held'[v] = held[v]
          /\ \/ held'[w] = held[w]
             \/ held'[w] = NoTask /\ isTerminal(status[held[w]])
      BY <2>5, <3>1 DEF Check, TypeOK, requestVars
    <3>. QED BY <2>2, <3>1, <3>2
  <2>6. CASE Start(w)
    BY <2>2, <2>3, <2>6 DEF Start, TypeOK, requestVars
  <2>7. CASE Acquire(w)
    <3>1. held[w] \in Tasks
      BY <2>3, <2>7 DEF Acquire
    <3>2. \A u \in Tasks \ {held[w]} : runs'[u] = runs[u]
      BY <2>7, <3>1 DEF Acquire, TypeOK
    <3>. QED BY <2>2, <2>7, <3>1, <3>2 DEF Acquire, requestVars
  <2>8. CASE Abort(w) \/ Return(w) \/ Release(w)
    BY <1>1, <2>8 DEF Abort, Return, Release, requestVars
  <2>9. CASE Finish(w)
    <3>1. held[w] \in Tasks /\ runs[held[w]] <= 1
      BY <2>3, <2>9 DEF Finish, WorkFits
    <3>2. isTerminal(FinalStatus(outcome[w]))
      BY DEF isTerminal, Terminal, FinalStatus, TypeOK, Errors
    <3>. QED BY <2>2, <2>9, <3>1, <3>2 DEF Finish, TypeOK, requestVars
  <2>. QED BY <1>3, <2>1, <2>4, <2>5, <2>6, <2>7, <2>8, <2>9 DEF Work
<1>. QED BY <1>1, <1>2, <1>3, Steps, Frames DEF vars, workerVars, requestVars

-----------------------------------------------------------------------------
(* The inductive invariant, and what follows from it.                      *)

\* The initial states fit the invariant.
LEMMA InitInvariant == Init => IInv
<1>. SUFFICES ASSUME Init PROVE IInv
  OBVIOUS
<1>1. TypeOK
  BY InitTyped
<1>2. HeldFits /\ StopFits
  BY DEF Init, HeldFits, StopFits
<1>3. \A t \in Tasks : ~Queued(t) /\ ~Owned(t)
  BY DEF Init, Queued, Occurs, Owned
<1>4. Placed /\ RequestFits /\ WorkFits
  BY <1>3 DEF Init, Placed, NoRepeat, RequestFits, WorkFits
<1>5. SlotsFollowCalls
  BY FS_EmptySet DEF Init, SlotsFollowCalls
<1>. QED BY <1>1, <1>2, <1>4, <1>5 DEF IInv

\* Every step keeps the invariant.
LEMMA NextInvariant == IInv /\ [Next]_vars => IInv'
BY NextTyped, KeepsHeldFits, KeepsPlaced, KeepsRequestFits, KeepsWorkFits, KeepsSlots,
   KeepsStopFits DEF IInv

\* Where a task is decides its status, who works on it and how often it ran.
THEOREM Invariant == Spec => []IInv
BY InitInvariant, NextInvariant, PTL DEF Spec

\* No worker path leaks an execution slot, and the limit is kept together with
\* the synchronous calls.
THEOREM SlotSafety == Spec => []SlotsFollowCalls
BY Invariant, PTL DEF IInv

\* The call of a task is made at most once.
THEOREM RunsAtMostOnce == Spec => []RunsOnce
<1>1. IInv => RunsOnce
  <2>. SUFFICES ASSUME IInv PROVE RunsOnce
    OBVIOUS
  <2>1. ASSUME NEW t \in Tasks PROVE runs[t] <= 1
    <3>. USE DEF IInv
    <3>1. CASE Queued(t) BY <3>1 DEF RequestFits
    <3>2. CASE Owned(t)
      <4>1. PICK w \in Workers : held[w] = t
        BY <3>2 DEF Owned
      <4>2. pc[w] \in {"check", "start", "acquire", "run", "release", "finish"}
        BY <4>1 DEF HeldFits, TypeOK
      <4>. QED BY <4>1, <4>2 DEF WorkFits
    <3>3. CASE ~Queued(t) /\ ~Owned(t)
      BY <3>3 DEF RequestFits, TypeOK
    <3>. QED BY <3>1, <3>2, <3>3
  <2>. QED BY <2>1 DEF IInv, Placed, RunsOnce
<1>. QED BY <1>1, Invariant, PTL

\* A rejected submission has no entry, no place in the queue, and never ran.
THEOREM RejectionIsClean == Spec => []RejectedLeavesNoTrace
<1>1. IInv => RejectedLeavesNoTrace
  BY DEF IInv, RejectedLeavesNoTrace, RequestFits, Placed
<1>. QED BY <1>1, Invariant, PTL

\* No accepted task is forgotten.
THEOREM NoTaskIsLost == Spec => []NothingLost
<1>1. IInv => NothingLost
  BY DEF IInv, NothingLost, RequestFits, isTerminal
<1>. QED BY <1>1, Invariant, PTL

\* Running means that a worker is between Running and finish.
THEOREM RunningMeansOwned == Spec => []RunningIsOwned
<1>1. IInv => RunningIsOwned
  <2>. SUFFICES ASSUME IInv, NEW t \in Tasks
                PROVE  status[t] = "running"
                         <=> \E w \in Workers : held[w] = t
                               /\ pc[w] \in {"acquire", "run", "release", "finish"}
    BY DEF RunningIsOwned
  <2>. USE DEF IInv
  <2>1. ASSUME status[t] = "running"
        PROVE  \E w \in Workers : held[w] = t
                 /\ pc[w] \in {"acquire", "run", "release", "finish"}
    <3>1. submitter[t] = "accepted" /\ ~Queued(t)
      BY <2>1 DEF RequestFits, TypeOK
    <3>2. Owned(t)
      BY <2>1, <3>1 DEF RequestFits, isTerminal, Terminal
    <3>3. PICK w \in Workers : held[w] = t
      BY <3>2 DEF Owned
    <3>4. pc[w] \in {"check", "start", "acquire", "run", "release", "finish"}
      BY <3>3 DEF HeldFits, TypeOK
    <3>. QED BY <2>1, <3>3, <3>4 DEF WorkFits
  <2>2. ASSUME NEW w \in Workers, held[w] = t,
               pc[w] \in {"acquire", "run", "release", "finish"}
        PROVE  status[t] = "running"
    BY <2>2 DEF WorkFits
  <2>. QED BY <2>1, <2>2
<1>. QED BY <1>1, Invariant, PTL

\* Once stop has drained the workers, every accepted task is over.
THEOREM DrainIsComplete == Spec => []DrainedMeansFinished
<1>1. IInv => DrainedMeansFinished
  <2>. SUFFICES ASSUME IInv, stopper = "drained"
                PROVE  /\ queue = <<>>
                       /\ slots \cap Workers = {}
                       /\ \A t \in Tasks : submitter[t] = "accepted"
                                               => status[t] \in Terminal
    BY DEF DrainedMeansFinished
  <2>1. \A w \in Workers : pc[w] = "done" /\ held[w] = NoTask
    BY DEF IInv, StopFits, HeldFits
  <2>2. queue = <<>>
    BY <2>1 DEF IInv, StopFits, QueueEnded
  <2>3. slots \cap Workers = {}
    BY <2>1 DEF IInv, SlotsFollowCalls
  <2>4. \A t \in Tasks : ~Queued(t) /\ ~Owned(t)
    BY <2>1, <2>2 DEF Queued, Occurs, Owned
  <2>. QED BY <2>2, <2>3, <2>4 DEF IInv, RequestFits, isTerminal
<1>. QED BY <1>1, Invariant, PTL

-----------------------------------------------------------------------------
(* Steps.                                                                  *)

\* A terminal status is rewritten only by a worker that had checked before.
LEMMA TerminalKept == IInv /\ [Next]_vars => FinalStaysFinal
<1>. SUFFICES ASSUME IInv, [Next]_vars, NEW t \in Tasks, status[t] \in Terminal,
                     ~\E w \in Workers : held[w] = t /\ pc[w] = "start"
              PROVE  status'[t] = status[t]
  BY DEF FinalStaysFinal
<1>. USE DEF IInv
<1>1. CASE RequestStep
  <2>1. PICK u \in Tasks : Submit(u) \/ Expire(u) \/ Cancel(u)
    BY <1>1 DEF RequestStep
  <2>2. CASE u = t
    BY <2>1, <2>2 DEF Submit, Refuse, Register, Enqueue, FindFull, Withdraw,
         SendOnClosed, Expire, Cancel, RequestFits, Terminal, isTerminal
  <2>3. CASE u # t
    BY <2>1, <2>3 DEF Submit, Refuse, Register, Enqueue, FindFull, Withdraw,
         SendOnClosed, Expire, Cancel, Deleted, TypeOK
  <2>. QED BY <2>2, <2>3
<1>2. ASSUME NEW w \in Workers, Work(w) PROVE status'[t] = status[t]
  <2>1. CASE Start(w)
    BY <2>1 DEF Start, TypeOK
  <2>2. CASE Finish(w)
    <3>1. held[w] # t
      BY <2>2 DEF Finish, WorkFits, Terminal
    <3>. QED BY <2>2, <3>1 DEF Finish, TypeOK
  <2>3. CASE ~Start(w) /\ ~Finish(w)
    BY <1>2, <2>3 DEF Work, Take, Exit, Check, Acquire, Abort, Return, Release
  <2>. QED BY <2>1, <2>2, <2>3
<1>. QED BY <1>1, <1>2, Steps, Frames DEF vars

\* So it is in every behaviour.
THEOREM TerminalStays == Spec => TerminalIsFinal
BY TerminalKept, Invariant, PTL DEF Spec, TerminalIsFinal

\* A task that was cancelled in the queue: a worker that comes to it lets it go.
Revoked(t) ==
    /\ submitter[t] = "accepted" /\ status[t] = "cancelled" /\ runs[t] = 0
    /\ \A w \in Workers : held[w] = t => pc[w] = "check"

\* No step makes anything else of it.
LEMMA RevokedStays ==
    ASSUME NEW t \in Tasks
    PROVE  IInv /\ Revoked(t) /\ [Next]_vars => Revoked(t)'
<1>. SUFFICES ASSUME IInv, Revoked(t), [Next]_vars PROVE Revoked(t)'
  OBVIOUS
<1>. USE DEF IInv
<1>1. /\ status[t] \in Terminal /\ isTerminal(status[t])
      /\ ~\E w \in Workers : held[w] = t /\ pc[w] = "start"
  BY DEF Revoked, Terminal, isTerminal
<1>2. status'[t] = status[t]
  BY <1>1, TerminalKept DEF FinalStaysFinal
<1>3. CASE RequestStep
  <2>1. PICK u \in Tasks : Submit(u) \/ Expire(u) \/ Cancel(u)
    BY <1>3 DEF RequestStep
  <2>2. submitter'[t] = submitter[t]
    <3>1. CASE Submit(u)
      BY <3>1 DEF Submit, Refuse, Register, Enqueue, FindFull, Withdraw, SendOnClosed,
           Revoked, TypeOK
    <3>2. CASE Expire(u) \/ Cancel(u)
      BY <3>2 DEF Expire, Cancel
    <3>. QED BY <2>1, <3>1, <3>2
  <2>. QED BY <1>2, <1>3, <2>2, Frames DEF Revoked, workerVars
<1>4. ASSUME NEW w \in Workers, Work(w) PROVE Revoked(t)'
  <2>1. submitter' = submitter
    BY <1>4 DEF Work, Take, Exit, Check, Start, Acquire, Abort, Return, Release, Finish,
         requestVars
  <2>2. \A v \in Workers \ {w} : pc'[v] = pc[v] /\ held'[v] = held[v]
    BY <1>4 DEF Work, Take, Exit, Check, Start, Acquire, Abort, Return, Release, Finish, TypeOK
  <2>3. CASE Take(w)
    BY <1>2, <2>1, <2>2, <2>3 DEF Take, Revoked, TypeOK
  <2>4. CASE Check(w)
    BY <1>1, <1>2, <2>1, <2>2, <2>4, ConstantsAssumption DEF Check, Revoked, TypeOK
  <2>5. CASE ~Take(w) /\ ~Check(w)
    <3>1. pc[w] # "check" /\ held[w] # t
      BY <1>4, <2>5 DEF Work, Exit, Start, Acquire, Abort, Return, Release, Finish, Revoked
    <3>2. runs'[t] = runs[t]
      BY <1>4, <2>5, <3>1 DEF Work, Exit, Start, Acquire, Abort, Return, Release, Finish, TypeOK
    <3>3. held'[w] # t
      BY <1>4, <2>5, <3>1, ConstantsAssumption
         DEF Work, Exit, Start, Acquire, Abort, Return, Release, Finish, TypeOK
    <3>. QED BY <1>2, <2>1, <2>2, <3>2, <3>3 DEF Revoked
  <2>. QED BY <2>3, <2>4, <2>5
<1>5. CASE SyncStep \/ StopStep \/ UNCHANGED vars
  <2>1. UNCHANGED <<submitter, status, runs, pc, held>>
    BY <1>5, Frames DEF vars, workerVars, requestVars
  <2>. QED BY <2>1 DEF Revoked
<1>. QED BY <1>3, <1>4, <1>5, Steps

\* A task that is cancelled while it waits in the queue is never run.
THEOREM CancelInQueueHolds == Spec => CancelledInQueueNeverRuns
<1>. SUFFICES ASSUME NEW t \in Tasks
              PROVE  Spec => [](Queued(t) /\ status[t] = "cancelled" => [](runs[t] = 0))
  BY DEF CancelledInQueueNeverRuns
<1>1. IInv /\ Queued(t) /\ status[t] = "cancelled" => Revoked(t)
  BY DEF IInv, Placed, RequestFits, Owned, Revoked
<1>2. IInv /\ Revoked(t) /\ [Next]_vars => Revoked(t)'
  BY RevokedStays
<1>3. Revoked(t) => runs[t] = 0
  BY DEF Revoked
<1>. QED BY <1>1, <1>2, <1>3, Invariant, PTL DEF Spec

-----------------------------------------------------------------------------
(* The refinement of TaskLifecycle.                                        *)

\* The stage of a task hangs on three things only.
LEMMA Stages ==
    ASSUME TypeOK, NEW t \in Tasks
    PROVE  /\ submitter[t] \in {"idle", "registered", "full"} => Stage(t) = "new"
           /\ submitter[t] \in {"refused", "rejected", "panicked"} => Stage(t) = "dropped"
           /\ submitter[t] = "accepted" /\ Working(t) => Stage(t) = "working"
           /\ submitter[t] = "accepted" /\ ~Working(t) /\ status[t] \in Terminal
                  => Stage(t) = "ended"
           /\ submitter[t] = "accepted" /\ ~Working(t) /\ status[t] \notin Terminal
                  => Stage(t) = "accepted"
BY DEF Stage, Working, TypeOK

\* The stage of a task after a step, case by case.
LEMMA NextStages ==
    ASSUME TypeOK', NEW t \in Tasks
    PROVE  /\ submitter'[t] \in {"idle", "registered", "full"} => Stage(t)' = "new"
           /\ submitter'[t] \in {"refused", "rejected", "panicked"} => Stage(t)' = "dropped"
           /\ submitter'[t] = "accepted" /\ Working(t)' => Stage(t)' = "working"
           /\ submitter'[t] = "accepted" /\ ~Working(t)' /\ status'[t] \in Terminal
                  => Stage(t)' = "ended"
           /\ submitter'[t] = "accepted" /\ ~Working(t)' /\ status'[t] \notin Terminal
                  => Stage(t)' = "accepted"
BY DEF Stage, Working, TypeOK

\* A step that keeps the request, the worker and the end of a task keeps its stage.
LEMMA SameStage ==
    ASSUME TypeOK, TypeOK', NEW t \in Tasks,
           submitter'[t] = submitter[t], Working(t)' <=> Working(t),
           Working(t) \/ (status'[t] \in Terminal <=> status[t] \in Terminal)
    PROVE  Stage(t)' = Stage(t)
<1>1. submitter[t] \in {"idle", "refused", "registered", "accepted", "full", "rejected",
                        "panicked"}
  BY DEF TypeOK
<1>. QED BY <1>1, Stages, NextStages

\* One task moves on, or none does.
LEMMA Moves ==
    ASSUME NEW t \in Tasks, \A u \in Tasks \ {t} : Stage(u)' = Stage(u), Service' = Service
    PROVE  Lifecycle!Move(t, Stage(t), Stage(t)')
<1>. DEFINE now == [u \in Tasks |-> Stage(u)]
            next == [u \in Tasks |-> Stage(u)']
<1>1. next = [now EXCEPT ![t] = Stage(t)']
  OBVIOUS
<1>2. now[t] = Stage(t)
  OBVIOUS
<1>. QED BY <1>1, <1>2 DEF Lifecycle!Move

\* A step that moves no stage and not the service is a stutter of the lifecycle.
LEMMA Rests ==
    ASSUME \A u \in Tasks : Stage(u)' = Stage(u), Service' = Service
    PROVE  UNCHANGED Lifecycle!lifecycleVars
BY DEF Lifecycle!lifecycleVars

\* Only stop moves the service.
LEMMA ServiceStays == stopper' = stopper => Service' = Service
BY DEF Service

\* The initial states are initial states of the lifecycle.
LEMMA InitRefines == Init => Lifecycle!LifecycleInit
<1>. SUFFICES ASSUME Init PROVE Lifecycle!LifecycleInit
  OBVIOUS
<1>1. \A t \in Tasks : Stage(t) = "new"
  BY InitTyped, Stages DEF Init
<1>2. Service = "up"
  BY DEF Init, Service
<1>. QED BY <1>1, <1>2 DEF Lifecycle!LifecycleInit

\* Every step of a request is a step of the life cycle of its task, or none.
LEMMA RequestRefines ==
    ASSUME IInv, TypeOK', NEW t \in Tasks, Submit(t) \/ Expire(t) \/ Cancel(t)
    PROVE  [Lifecycle!LifecycleNext]_(Lifecycle!lifecycleVars)
<1>. USE DEF IInv, workerVars
<1>1. UNCHANGED <<pc, held, runs, closed, stopper>>
  BY DEF Submit, Refuse, Register, Enqueue, FindFull, Withdraw, SendOnClosed, Expire, Cancel
<1>2. Service' = Service BY <1>1, ServiceStays
<1>3. \A u \in Tasks : Working(u)' <=> Working(u) BY <1>1 DEF Working
<1>4. \A u \in Tasks \ {t} : submitter'[u] = submitter[u] /\ status'[u] = status[u]
  <2>1. CASE Refuse(t) \/ Register(t) \/ Enqueue(t) BY <2>1 DEF Refuse, Register, Enqueue, TypeOK
  <2>2. CASE FindFull(t) \/ Withdraw(t) \/ SendOnClosed(t)
    BY <2>2 DEF FindFull, Withdraw, SendOnClosed, Deleted, TypeOK
  <2>3. CASE Expire(t) \/ Cancel(t) BY <2>3 DEF Expire, Cancel, TypeOK
  <2>. QED BY <2>1, <2>2, <2>3 DEF Submit
<1>5. \A u \in Tasks \ {t} : Stage(u)' = Stage(u)
  BY <1>3, <1>4, SameStage
<1>6. Lifecycle!Move(t, Stage(t), Stage(t)') BY <1>2, <1>5, Moves
<1>7. submitter[t] # "accepted" => ~Working(t)
  BY DEF Placed, Owned, Working
<1>8. ASSUME Stage(t)' = Stage(t) PROVE UNCHANGED Lifecycle!lifecycleVars
  BY <1>2, <1>5, <1>8, Rests
<1>9. CASE Refuse(t)
  <2>1. submitter[t] = "idle" /\ submitter'[t] = "refused"
    BY <1>9 DEF Refuse, TypeOK
  <2>2. Stage(t) = "new" /\ Stage(t)' = "dropped" BY <2>1, Stages, NextStages
  <2>. QED BY <1>6, <2>2 DEF Lifecycle!Drop, Lifecycle!LifecycleNext
<1>10. CASE Register(t) \/ FindFull(t)
  <2>1. submitter[t] \in {"idle", "registered"} /\ submitter'[t] \in {"registered", "full"}
    BY <1>10 DEF Register, FindFull, TypeOK
  <2>2. Stage(t) = "new" /\ Stage(t)' = "new" BY <2>1, Stages, NextStages
  <2>. QED BY <1>8, <2>2
<1>11. CASE Enqueue(t)
  <2>1. /\ submitter[t] = "registered" /\ submitter'[t] = "accepted"
        /\ status' = status /\ ~closed
    BY <1>11 DEF Enqueue, TypeOK
  <2>2. ~Working(t)' BY <1>3, <1>7, <2>1
  <2>3. status'[t] \notin Terminal BY <2>1 DEF RequestFits, Terminal
  <2>4. Stage(t) = "new" /\ Stage(t)' = "accepted"
    BY <2>1, <2>2, <2>3, Stages, NextStages
  <2>5. Service = "up" BY <2>1 DEF StopFits, Service
  <2>. QED BY <1>6, <2>4, <2>5 DEF Lifecycle!Accept, Lifecycle!LifecycleNext
<1>12. CASE Withdraw(t) \/ SendOnClosed(t)
  <2>1. submitter[t] \in {"full", "registered"} /\ submitter'[t] \in {"rejected", "panicked"}
    BY <1>12 DEF Withdraw, SendOnClosed, TypeOK
  <2>2. Stage(t) = "new" /\ Stage(t)' = "dropped" BY <2>1, Stages, NextStages
  <2>. QED BY <1>6, <2>2 DEF Lifecycle!Drop, Lifecycle!LifecycleNext
<1>13. CASE Expire(t)
  <2>1. UNCHANGED <<submitter, status>> BY <1>13 DEF Expire
  <2>2. Stage(t)' = Stage(t) BY <1>3, <2>1, SameStage
  <2>. QED BY <1>8, <2>2
<1>14. CASE Cancel(t)
  <2>1. /\ submitter[t] = "accepted" /\ submitter' = submitter
        /\ status[t] \notin Terminal /\ status' = [status EXCEPT ![t] = AfterCancel(@)]
    BY <1>14 DEF Cancel, isTerminal
  <2>2. CASE Working(t)
    <3>1. Stage(t)' = Stage(t) BY <1>3, <2>1, <2>2, SameStage
    <3>. QED BY <1>8, <3>1
  <2>3. CASE ~Working(t)
    <3>1. status[t] = "pending"
      <4>1. Queued(t) \/ Owned(t) BY <2>1 DEF RequestFits, isTerminal
      <4>2. ASSUME NEW w \in Workers, held[w] = t PROVE pc[w] = "check"
        BY <2>3, <4>2 DEF Working, HeldFits, TypeOK
      <4>. QED BY <2>1, <4>1, <4>2 DEF RequestFits, WorkFits, Owned, Terminal
    <3>2. status'[t] = "cancelled" BY <2>1, <3>1 DEF AfterCancel, TypeOK
    <3>3. Stage(t) = "accepted" BY <2>1, <2>3, Stages, NextStages
    <3>4. Stage(t)' = "ended"
      BY <1>3, <2>1, <2>3, <3>2, Stages, NextStages DEF Terminal
    <3>. QED BY <1>6, <3>3, <3>4 DEF Lifecycle!Revoke, Lifecycle!LifecycleNext
  <2>. QED BY <2>2, <2>3
<1>. QED BY <1>9, <1>10, <1>11, <1>12, <1>13, <1>14 DEF Submit

\* So is every step of a worker: it works on its task from Check to Finish.
LEMMA WorkRefines ==
    ASSUME IInv, TypeOK', NEW w \in Workers, Work(w)
    PROVE  [Lifecycle!LifecycleNext]_(Lifecycle!lifecycleVars)
<1>. USE DEF IInv
<1>1. UNCHANGED <<submitter, stopper>>
  BY DEF Work, Take, Exit, Check, Start, Acquire, Abort, Return, Release, Finish, requestVars
<1>2. Service' = Service BY <1>1, ServiceStays
<1>3. \A v \in Workers \ {w} : pc'[v] = pc[v] /\ held'[v] = held[v]
  BY DEF Work, Take, Exit, Check, Start, Acquire, Abort, Return, Release, Finish, TypeOK
<1>4. \A u \in Tasks : u # held[w] /\ u # held'[w] => (Working(u)' <=> Working(u))
  BY <1>3 DEF Working
<1>5. held[w] # NoTask => /\ held[w] \in Tasks /\ submitter[held[w]] = "accepted"
                          /\ \A v \in Workers \ {w} : held[v] # held[w]
  BY DEF TypeOK, Placed, Owned
<1>6. CASE Take(w)
  <2>1. /\ pc[w] = "take" /\ pc'[w] = "check" /\ status' = status
        /\ held'[w] = Head(queue) /\ queue # <<>>
    BY <1>6 DEF Take, TypeOK
  <2>2. Queued(Head(queue)) /\ Head(queue) \in Tasks
    BY <2>1, OccursTail DEF Queued, TypeOK, Placed
  <2>3. \A v \in Workers : held[v] # Head(queue) BY <2>2 DEF Placed, Owned
  <2>4. held[w] = NoTask BY <2>1 DEF HeldFits
  <2>5. \A u \in Tasks : Working(u)' <=> Working(u)
    BY <1>3, <1>4, <2>1, <2>3, <2>4 DEF Working
  <2>6. \A u \in Tasks : Stage(u)' = Stage(u) BY <1>1, <2>1, <2>5, SameStage
  <2>. QED BY <1>2, <2>6, Rests
<1>7. CASE Exit(w)
  <2>1. /\ pc[w] = "take" /\ pc'[w] = "done" /\ UNCHANGED <<status, held>>
    BY <1>7 DEF Exit, TypeOK
  <2>2. \A u \in Tasks : Working(u)' <=> Working(u)
    BY <1>3, <2>1 DEF Working
  <2>3. \A u \in Tasks : Stage(u)' = Stage(u) BY <1>1, <2>1, <2>2, SameStage
  <2>. QED BY <1>2, <2>3, Rests
<1>8. CASE Check(w)
  <2>1. pc[w] = "check" /\ status' = status BY <1>8 DEF Check
  <2>2. PICK t \in Tasks : t = held[w] BY <1>5, <2>1 DEF HeldFits
  <2>3. /\ submitter[t] = "accepted" /\ submitter'[t] = "accepted"
        /\ \A v \in Workers \ {w} : held[v] # t
    BY <1>1, <1>5, <2>1, <2>2 DEF HeldFits
  <2>4. ~Working(t) BY <2>1, <2>2, <2>3 DEF Working
  <2>5. CASE isTerminal(status[t]) \/ status[t] = "absent"
    <3>1. held'[w] = NoTask /\ pc'[w] = "take"
      BY <1>8, <2>2, <2>5 DEF Check, TypeOK
    <3>2. ~Working(t)' BY <1>3, <2>3, <3>1 DEF Working
    <3>3. NoTask \notin Tasks BY ConstantsAssumption
    <3>4. \A u \in Tasks : Working(u)' <=> Working(u)
      BY <1>4, <2>2, <2>4, <3>1, <3>2, <3>3
    <3>5. \A u \in Tasks : Stage(u)' = Stage(u) BY <1>1, <2>1, <3>4, SameStage
    <3>. QED BY <1>2, <3>5, Rests
  <2>6. CASE ~isTerminal(status[t]) /\ status[t] # "absent"
    <3>1. held'[w] = t /\ pc'[w] = "start"
      BY <1>8, <2>2, <2>6 DEF Check, TypeOK
    <3>2. Working(t)' BY <3>1 DEF Working
    <3>3. Stage(t) = "accepted"
      BY <2>3, <2>4, <2>6, Stages DEF isTerminal
    <3>4. Stage(t)' = "working"
      BY <2>3, <3>2, NextStages
    <3>5. \A u \in Tasks \ {t} : Stage(u)' = Stage(u)
      BY <1>1, <1>4, <2>1, <2>2, <3>1, SameStage
    <3>6. Lifecycle!Move(t, "accepted", "working")
      BY <1>2, <3>3, <3>4, <3>5, Moves
    <3>. QED BY <3>6 DEF Lifecycle!Begin, Lifecycle!LifecycleNext
  <2>. QED BY <2>5, <2>6
<1>9. CASE Start(w) \/ Acquire(w) \/ Abort(w) \/ Return(w) \/ Release(w)
  <2>1. /\ pc[w] \in {"start", "acquire", "run", "release"}
        /\ pc'[w] \in {"acquire", "run", "release", "finish"}
        /\ held' = held
        /\ \A u \in Tasks \ {held[w]} : status'[u] = status[u]
    BY <1>9 DEF Start, Acquire, Abort, Return, Release, TypeOK
  <2>2. \A u \in Tasks : Working(u)' <=> Working(u)
    BY <1>3, <2>1 DEF Working
  <2>3. Working(held[w]) BY <2>1 DEF Working
  <2>4. \A u \in Tasks : Stage(u)' = Stage(u)
    BY <1>1, <2>1, <2>2, <2>3, SameStage
  <2>. QED BY <1>2, <2>4, Rests
<1>10. CASE Finish(w)
  <2>1. /\ pc[w] = "finish" /\ pc'[w] = "take" /\ held'[w] = NoTask
        /\ status' = [status EXCEPT ![held[w]] = FinalStatus(outcome[w])]
    BY <1>10 DEF Finish, TypeOK
  <2>2. PICK t \in Tasks : t = held[w] BY <1>5, <2>1 DEF HeldFits
  <2>3. /\ submitter[t] = "accepted" /\ submitter'[t] = "accepted"
        /\ \A v \in Workers \ {w} : held[v] # t
    BY <1>1, <1>5, <2>1, <2>2 DEF HeldFits
  <2>4. Working(t) BY <2>1, <2>2 DEF Working
  <2>5. NoTask \notin Tasks BY ConstantsAssumption
  <2>6. ~Working(t)' BY <1>3, <2>1, <2>3, <2>5 DEF Working
  <2>7. FinalStatus(outcome[w]) \in Terminal
    BY DEF FinalStatus, Terminal, TypeOK, Errors
  <2>8. /\ status'[t] \in Terminal
        /\ \A u \in Tasks \ {t} : status'[u] = status[u]
    BY <2>1, <2>2, <2>7 DEF TypeOK
  <2>9. Stage(t) = "working" BY <2>3, <2>4, Stages
  <2>10. Stage(t)' = "ended" BY <2>3, <2>6, <2>8, NextStages
  <2>11. \A u \in Tasks \ {t} : Stage(u)' = Stage(u)
    BY <1>1, <1>4, <2>1, <2>2, <2>5, <2>8, SameStage
  <2>12. Lifecycle!Move(t, "working", "ended")
    BY <1>2, <2>9, <2>10, <2>11, Moves
  <2>. QED BY <2>12 DEF Lifecycle!Complete, Lifecycle!LifecycleNext
<1>. QED BY <1>6, <1>7, <1>8, <1>9, <1>10 DEF Work

\* stop is the service going down; it is drained when no task is left.
LEMMA StopRefines ==
    ASSUME IInv, TypeOK', StopStep
    PROVE  [Lifecycle!LifecycleNext]_(Lifecycle!lifecycleVars)
<1>. USE DEF IInv
<1>1. UNCHANGED <<status, submitter, pc, held>> BY Frames DEF workerVars
<1>2. \A u \in Tasks : Working(u)' <=> Working(u) BY <1>1 DEF Working
<1>3. \A u \in Tasks : Stage(u)' = Stage(u) BY <1>1, <1>2, SameStage
<1>4. [u \in Tasks |-> Stage(u)]' = [u \in Tasks |-> Stage(u)] BY <1>3
<1>5. CASE Stop
  <2>1. Service = "up" /\ Service' = "stopping" BY <1>5 DEF Stop, Service
  <2>. QED BY <1>4, <2>1 DEF Lifecycle!BeginStop, Lifecycle!LifecycleNext
<1>6. CASE StopDrained
  <2>1. Service = "stopping" /\ Service' = "drained" BY <1>6 DEF StopDrained, Service
  <2>2. \A w \in Workers : pc[w] = "done" /\ held[w] = NoTask
    BY <1>6 DEF StopDrained, HeldFits
  <2>3. queue = <<>> BY <2>2 DEF StopFits, QueueEnded
  <2>4. \A u \in Tasks : ~Queued(u) /\ ~Owned(u) /\ ~Working(u)
    BY <2>2, <2>3 DEF Queued, Occurs, Owned, Working
  <2>5. \A u \in Tasks : submitter[u] = "accepted" => status[u] \in Terminal
    BY <2>4 DEF RequestFits, isTerminal
  <2>6. \A u \in Tasks : Stage(u) \notin {"accepted", "working"}
    BY <2>4, <2>5, Stages DEF TypeOK
  <2>. QED BY <1>4, <2>1, <2>6 DEF Lifecycle!Drained, Lifecycle!LifecycleNext
<1>7. CASE StopExpired
  <2>1. Service = "stopping" /\ Service' = "abandoned"
    BY <1>7 DEF StopExpired, Service
  <2>. QED BY <1>4, <2>1 DEF Lifecycle!Abandon, Lifecycle!LifecycleNext
<1>. QED BY <1>5, <1>6, <1>7 DEF StopStep

\* The manager implements the life cycle: a task is accepted, worked on once,
\* and ends for good, whatever submit, the workers, cancel and stop do at once.
THEOREM ImplementsLifecycle == Spec => Lifecycle!LifecycleSpec
<1>1. IInv /\ IInv' /\ [Next]_vars => [Lifecycle!LifecycleNext]_(Lifecycle!lifecycleVars)
  <2>. SUFFICES ASSUME IInv, IInv', [Next]_vars
                PROVE  [Lifecycle!LifecycleNext]_(Lifecycle!lifecycleVars)
    OBVIOUS
  <2>1. TypeOK /\ TypeOK' BY DEF IInv
  <2>2. CASE RequestStep BY <2>1, <2>2, RequestRefines DEF RequestStep
  <2>3. ASSUME NEW w \in Workers, Work(w)
        PROVE  [Lifecycle!LifecycleNext]_(Lifecycle!lifecycleVars)
    BY <2>1, <2>3, WorkRefines
  <2>4. CASE StopStep BY <2>1, <2>4, StopRefines
  <2>5. CASE SyncStep \/ UNCHANGED vars
    <3>1. UNCHANGED <<status, submitter, pc, held, stopper>>
      BY <2>5, Frames DEF vars, requestVars
    <3>2. \A u \in Tasks : Working(u)' <=> Working(u) BY <3>1 DEF Working
    <3>3. \A u \in Tasks : Stage(u)' = Stage(u) BY <2>1, <3>1, <3>2, SameStage
    <3>4. Service' = Service BY <3>1, ServiceStays
    <3>. QED BY <3>3, <3>4, Rests
  <2>. QED BY <2>2, <2>3, <2>4, <2>5, Steps
<1>. QED BY <1>1, InitRefines, Invariant, PTL DEF Spec, Lifecycle!LifecycleSpec
=============================================================================
