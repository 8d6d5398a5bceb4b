------------------------ MODULE ServiceLifecycleProofs ------------------------
(***************************************************************************)
(* The safety of ServiceLifecycle for any number of services and requests  *)
(* and any threshold.  IInv says what each stage of a request or a check   *)
(* implies for the row, the connection and the tools of its service.       *)
(***************************************************************************)
EXTENDS ServiceLifecycle, TLAPS

USE LifecycleConstants

-----------------------------------------------------------------------------
(* The inductive invariant.                                                *)

\* Where a request can be, by what it was asked to do.
StagesFit ==
    \A r \in Requests :
        /\ req[r].op = "none" <=> req[r].pc = "idle"
        /\ req[r].op = "disconnect" <=> req[r].pc = "left"
        /\ req[r].op = "delete" <=> req[r].pc \in {"close", "purge", "remove"}
        /\ req[r].pc # "idle" => req[r].svc \in Services

\* What has a connection, is checked, or is about to be CONNECTED was tried.
TriedFits ==
    /\ \A s \in Services : client[s].there \/ check[s].pc # "idle" => s \in tried
    /\ \A r \in Requests : req[r].pc \in {"dial", "ok"} => req[r].svc \in tried

\* What a check can write in the row, and what there is where no row was.
RowsFit ==
    \A s \in Services :
        /\ check[s].status \in {"CONNECTED", "ERROR"}
        /\ row[s].state = "none" => row[s] = NoRow

\* Nobody but a Disconnect is at work on the service that r deletes.
Alone(r) ==
    \A q \in Requests \ {r} :
        req[q].svc = req[r].svc => req[q].op \in {"none", "disconnect"}

\* While a deletion is alone with its service, what it has removed stays away.
DeletingFits ==
    \A r \in Requests :
        req[r].op = "delete" /\ req[r].svc \notin overlapped =>
            /\ Alone(r)
            /\ req[r].pc \in {"purge", "remove"} => ~client[req[r].svc].there
            /\ req[r].pc = "remove" => req[r].svc \notin tools

\* After it only a Disconnect is at work there.
DeletedFits ==
    \A r \in Requests :
        LET s == req[r].svc IN
        req[r].pc # "idle" /\ row[s].state = "deleted" /\ s \notin overlapped =>
            req[r].op = "disconnect"

IInv ==
    /\ TypeOK /\ StagesFit /\ TriedFits /\ RowsFit /\ DeletingFits /\ DeletedFits
    /\ ClaimsAreOfThisRun /\ ConnectingIsOwned /\ DeletedIsClean

-----------------------------------------------------------------------------
(* Type correctness.                                                       *)

Rows == [state : {"none", "live", "deleted"}, status : Statuses, failures : Counts]
Clients == [there : BOOLEAN, status : Statuses, failures : Counts, strikes : Counts]
RequestStates == [op : Ops, pc : Pcs, svc : Services \cup {"none"},
                  failures : Counts, gone : BOOLEAN]
Checks == [pc : {"idle", "ping", "apply", "report", "drop"},
           status : Statuses, failures : Counts, strikes : Counts]

RestOK ==
    /\ net \in [Services -> {"up", "down", "amnesic"}]
    /\ tools \subseteq Services /\ tried \cup abandoned \cup overlapped \subseteq Services

\* The types of the variables that hold records.
LEMMA Types ==
    ASSUME TypeOK
    PROVE  /\ row \in [Services -> Rows] /\ client \in [Services -> Clients]
           /\ req \in [Requests -> RequestStates] /\ check \in [Services -> Checks]
           /\ RestOK
BY DEF TypeOK, Rows, Clients, RequestStates, Checks, RestOK

\* Nothing, no request and no check have their types.
LEMMA EmptyTyped ==
    /\ NoRow \in Rows /\ NoClient \in Clients /\ NoReq \in RequestStates /\ NoCheck \in Checks
    /\ \A n \in Nat : Saturate(n) \in Counts
BY DEF NoRow, NoClient, NoReq, NoCheck, Rows, Clients, RequestStates, Checks, Statuses,
       Counts, Ops, Pcs, Saturate

\* A statement that records a status keeps the types of the rows.
LEMMA RecordedTyped ==
    ASSUME TypeOK, NEW s \in Services, NEW st \in Statuses, NEW n \in Nat
    PROVE  UpdateStatus(s, st, n) \in [Services -> Rows]
<1>1. row \in [Services -> Rows] /\ Saturate(n) \in Counts
  BY Types, EmptyTyped
<1>2. [row[s] EXCEPT !.status = st, !.failures = Saturate(n)] \in Rows
  BY <1>1 DEF Rows
<1>. QED BY <1>1, <1>2 DEF UpdateStatus

\* What every step makes of the rows.
LEMMA RowTyped ==
    TypeOK /\ StagesFit /\ [Next]_vars => (row \in [Services -> Rows])'
<1>. SUFFICES ASSUME TypeOK, StagesFit, [Next]_vars
            PROVE (row \in [Services -> Rows])'
  OBVIOUS
<1>. USE DEF Open
<1>t. /\ row \in [Services -> Rows] /\ client \in [Services -> Clients]
      /\ req \in [Requests -> RequestStates] /\ check \in [Services -> Checks]
  BY Types
<1>e. /\ NoRow \in Rows /\ NoClient \in Clients /\ NoReq \in RequestStates
      /\ NoCheck \in Checks
  BY EmptyTyped
<1>f. /\ \A r \in Requests : req[r].failures \in Nat
      /\ \A s \in Services : check[s].failures \in Nat /\ client[s].failures \in Nat
                           /\ client[s].strikes \in Nat /\ check[s].status \in Statuses
  BY <1>t DEF RequestStates, Checks, Clients, Counts
<1>. USE <1>t, <1>e, <1>f
<1>1. ASSUME NEW r \in Requests, Arrive(r) \/ Serve(r) \/ HangUp(r)
      PROVE  (row \in [Services -> Rows])'
  <2>1. CASE SaveUpdate(r)
    <3>1. [NoRow EXCEPT !.state = "live"] \in Rows
      BY DEF Rows
    <3>. QED BY <2>1, <3>1 DEF SaveUpdate
  <2>2. CASE MarkConnecting(r)
    <3>1. UpdateStatus(req[r].svc, "CONNECTING", req[r].failures) \in [Services -> Rows]
      <4>1. req[r].svc \in Services
        BY <2>2 DEF MarkConnecting, StagesFit
      <4>2. req[r].failures \in Nat
        OBVIOUS
      <4>. QED BY <4>1, <4>2, RecordedTyped DEF Statuses
    <3>. QED BY <2>2, <3>1 DEF MarkConnecting, Recorded
  <2>3. CASE Dial(r) BY <2>3 DEF Dial
  <2>4. CASE RecordConnected(r)
    <3>1. UpdateStatus(req[r].svc, "CONNECTED", 0) \in [Services -> Rows]
      <4>1. req[r].svc \in Services
        BY <2>4 DEF RecordConnected, StagesFit
      <4>2. 0 \in Nat
        OBVIOUS
      <4>. QED BY <4>1, <4>2, RecordedTyped DEF Statuses
    <3>. QED BY <2>4, <3>1 DEF RecordConnected, Recorded
  <2>5. CASE RecordFailed(r)
    <3>1. UpdateStatus(req[r].svc, "ERROR", req[r].failures + 1) \in [Services -> Rows]
      <4>1. req[r].svc \in Services
        BY <2>5 DEF RecordFailed, StagesFit
      <4>2. req[r].failures + 1 \in Nat
        OBVIOUS
      <4>. QED BY <4>1, <4>2, RecordedTyped DEF Statuses
    <3>. QED BY <2>5, <3>1 DEF RecordFailed, Recorded
  <2>6. CASE DropFailed(r) BY <2>6 DEF DropFailed
  <2>7. CASE RecordDisconnected(r)
    <3>1. UpdateStatus(req[r].svc, "DISCONNECTED", 0) \in [Services -> Rows]
      <4>1. req[r].svc \in Services
        BY <2>7 DEF RecordDisconnected, StagesFit
      <4>2. 0 \in Nat
        OBVIOUS
      <4>. QED BY <4>1, <4>2, RecordedTyped DEF Statuses
    <3>. QED BY <2>7, <3>1 DEF RecordDisconnected, Recorded
  <2>8. CASE CloseDeleted(r) BY <2>8 DEF CloseDeleted
  <2>9. CASE DeleteTools(r) BY <2>9 DEF DeleteTools
  <2>10. CASE DeleteRow(r) BY <2>10 DEF DeleteRow, Rows
  <2>11. CASE Call(r) BY <2>11 DEF Call
  <2>12. CASE BatchUpsert(r) BY <2>12 DEF BatchUpsert
  <2>13. CASE normalizeToolActionError(r)
    <3>1. UpdateStatus(req[r].svc, "ERROR", req[r].failures + 1) \in [Services -> Rows]
      <4>1. req[r].svc \in Services
        BY <2>13 DEF normalizeToolActionError, StagesFit
      <4>2. req[r].failures + 1 \in Nat
        OBVIOUS
      <4>. QED BY <4>1, <4>2, RecordedTyped DEF Statuses
    <3>. QED BY <2>13, <3>1 DEF normalizeToolActionError, Recorded
  <2>14. CASE HangUp(r) BY <2>14 DEF HangUp
  <2>15. ASSUME NEW s \in Services, Create(r, s) PROVE (row \in [Services -> Rows])'
    BY <2>15 DEF Create, Rows
  <2>16. ASSUME NEW s \in Services, Update(r, s) PROVE (row \in [Services -> Rows])'
    BY <2>16 DEF Update
  <2>17. ASSUME NEW s \in Services, Delete(r, s) PROVE (row \in [Services -> Rows])'
    BY <2>17 DEF Delete
  <2>18. ASSUME NEW s \in Services, Connect(r, s) PROVE (row \in [Services -> Rows])'
    BY <2>18 DEF Connect
  <2>19. ASSUME NEW s \in Services, Disconnect(r, s) PROVE (row \in [Services -> Rows])'
    BY <2>19 DEF Disconnect
  <2>20. ASSUME NEW s \in Services, Invoke(r, s) PROVE (row \in [Services -> Rows])'
    BY <2>20 DEF Invoke
  <2>21. ASSUME NEW s \in Services, Sync(r, s) PROVE (row \in [Services -> Rows])'
    BY <2>21 DEF Sync
  <2>. QED BY <1>1, <2>1, <2>2, <2>3, <2>4, <2>5, <2>6, <2>7, <2>8, <2>9,
              <2>10, <2>11, <2>12, <2>13, <2>14, <2>15, <2>16, <2>17, <2>18,
              <2>19, <2>20, <2>21 DEF Arrive, Manage, Operate, Use, Serve
<1>2. ASSUME NEW s \in Services, Check(s) \/ NetChanges(s)
      PROVE  (row \in [Services -> Rows])'
  <2>1. CASE PingAnswered(s) BY <2>1 DEF PingAnswered
  <2>2. CASE PingFailed(s) BY <2>2 DEF PingFailed
  <2>3. CASE PingMissed(s) BY <2>3 DEF PingMissed
  <2>4. CASE PingExpired(s) BY <2>4 DEF PingExpired
  <2>5. CASE ApplyHealthState(s) BY <2>5 DEF ApplyHealthState
  <2>6. CASE UpdateRow(s)
    <3>1. UpdateStatus(s, check[s].status, check[s].failures) \in [Services -> Rows]
      BY RecordedTyped
    <3>. QED BY <2>6, <3>1 DEF UpdateRow
  <2>7. CASE DropUnhealthy(s) BY <2>7 DEF DropUnhealthy
  <2>8. CASE NetChanges(s) BY <2>8 DEF NetChanges
  <2>. QED BY <1>2, <2>1, <2>2, <2>3, <2>4, <2>5, <2>6, <2>7, <2>8
              DEF Check, Ping
<1>3. CASE StartRound BY <1>3 DEF StartRound
<1>4. CASE Restart
  <2>1. [NoRow EXCEPT !.state = "live"] \in Rows
    BY DEF Rows
  <2>. QED BY <1>4, <2>1 DEF Restart, AtStart
<1>5. CASE UNCHANGED vars BY <1>5 DEF vars
<1>. QED BY <1>1, <1>2, <1>3, <1>4, <1>5 DEF Next

\* What every step makes of the connections.
LEMMA ClientTyped ==
    TypeOK /\ [Next]_vars => (client \in [Services -> Clients])'
<1>. SUFFICES ASSUME TypeOK, [Next]_vars
            PROVE (client \in [Services -> Clients])'
  OBVIOUS
<1>. USE DEF Open, Drop
<1>t. /\ row \in [Services -> Rows] /\ client \in [Services -> Clients]
      /\ req \in [Requests -> RequestStates] /\ check \in [Services -> Checks]
  BY Types
<1>e. /\ NoRow \in Rows /\ NoClient \in Clients /\ NoReq \in RequestStates
      /\ NoCheck \in Checks
  BY EmptyTyped
<1>f. /\ \A r \in Requests : req[r].failures \in Nat
      /\ \A s \in Services : check[s].failures \in Nat /\ client[s].failures \in Nat
                           /\ client[s].strikes \in Nat /\ check[s].status \in Statuses
  BY <1>t DEF RequestStates, Checks, Clients, Counts
<1>. USE <1>t, <1>e, <1>f
<1>1. ASSUME NEW r \in Requests, Arrive(r) \/ Serve(r) \/ HangUp(r)
      PROVE  (client \in [Services -> Clients])'
  <2>1. CASE SaveUpdate(r) BY <2>1 DEF SaveUpdate
  <2>2. CASE MarkConnecting(r) BY <2>2 DEF MarkConnecting
  <2>3. CASE Dial(r)
    <3>1. [there |-> TRUE, status |-> "CONNECTED", failures |-> req[r].failures, strikes |-> 0]
             \in Clients
      BY DEF Clients, RequestStates, Statuses, Counts
    <3>. QED BY <2>3, <3>1 DEF Dial
  <2>4. CASE RecordConnected(r) BY <2>4 DEF RecordConnected
  <2>5. CASE RecordFailed(r) BY <2>5 DEF RecordFailed
  <2>6. CASE DropFailed(r) BY <2>6 DEF DropFailed
  <2>7. CASE RecordDisconnected(r) BY <2>7 DEF RecordDisconnected
  <2>8. CASE CloseDeleted(r) BY <2>8 DEF CloseDeleted
  <2>9. CASE DeleteTools(r) BY <2>9 DEF DeleteTools
  <2>10. CASE DeleteRow(r) BY <2>10 DEF DeleteRow
  <2>11. CASE Call(r)
    <3>1. [NoClient EXCEPT !.there = TRUE, !.status = "CONNECTED"] \in Clients
      BY DEF Clients, Statuses
    <3>. QED BY <2>11, <3>1 DEF Call
  <2>12. CASE BatchUpsert(r) BY <2>12 DEF BatchUpsert
  <2>13. CASE normalizeToolActionError(r) BY <2>13 DEF normalizeToolActionError
  <2>14. CASE HangUp(r) BY <2>14 DEF HangUp
  <2>15. ASSUME NEW s \in Services, Create(r, s)
        PROVE  (client \in [Services -> Clients])'
    BY <2>15 DEF Create
  <2>16. ASSUME NEW s \in Services, Update(r, s)
        PROVE  (client \in [Services -> Clients])'
    BY <2>16 DEF Update
  <2>17. ASSUME NEW s \in Services, Delete(r, s)
        PROVE  (client \in [Services -> Clients])'
    BY <2>17 DEF Delete
  <2>18. ASSUME NEW s \in Services, Connect(r, s)
        PROVE  (client \in [Services -> Clients])'
    BY <2>18 DEF Connect
  <2>19. ASSUME NEW s \in Services, Disconnect(r, s)
        PROVE  (client \in [Services -> Clients])'
    BY <2>19 DEF Disconnect
  <2>20. ASSUME NEW s \in Services, Invoke(r, s)
        PROVE  (client \in [Services -> Clients])'
    BY <2>20 DEF Invoke
  <2>21. ASSUME NEW s \in Services, Sync(r, s) PROVE (client \in [Services -> Clients])'
    BY <2>21 DEF Sync
  <2>. QED BY <1>1, <2>1, <2>2, <2>3, <2>4, <2>5, <2>6, <2>7, <2>8, <2>9,
              <2>10, <2>11, <2>12, <2>13, <2>14, <2>15, <2>16, <2>17, <2>18,
              <2>19, <2>20, <2>21 DEF Arrive, Manage, Operate, Use, Serve
<1>2. ASSUME NEW s \in Services, Check(s) \/ NetChanges(s)
      PROVE  (client \in [Services -> Clients])'
  <2>1. CASE PingAnswered(s)
    <3>1. [NoClient EXCEPT !.there = TRUE, !.status = "CONNECTED"] \in Clients
      BY DEF Clients, Statuses
    <3>. QED BY <2>1, <3>1 DEF PingAnswered
  <2>2. CASE PingFailed(s)
    <3>1. Saturate(client[s].strikes + 1) \in Counts
      BY EmptyTyped
    <3>. QED BY <2>2, <3>1 DEF PingFailed, Clients
  <2>3. CASE PingMissed(s) BY <2>3 DEF PingMissed
  <2>4. CASE PingExpired(s) BY <2>4 DEF PingExpired
  <2>5. CASE ApplyHealthState(s)
    <3>1. [client[s] EXCEPT !.status = check[s].status, !.failures = check[s].failures]
             \in Clients
      BY DEF Clients, Checks
    <3>. QED BY <2>5, <3>1 DEF ApplyHealthState
  <2>6. CASE UpdateRow(s) BY <2>6 DEF UpdateRow
  <2>7. CASE DropUnhealthy(s) BY <2>7 DEF DropUnhealthy
  <2>8. CASE NetChanges(s) BY <2>8 DEF NetChanges
  <2>. QED BY <1>2, <2>1, <2>2, <2>3, <2>4, <2>5, <2>6, <2>7, <2>8
              DEF Check, Ping
<1>3. CASE StartRound BY <1>3 DEF StartRound
<1>4. CASE Restart BY <1>4 DEF Restart, AtStart
<1>5. CASE UNCHANGED vars BY <1>5 DEF vars
<1>. QED BY <1>1, <1>2, <1>3, <1>4, <1>5 DEF Next

\* A request that goes on, is answered or begins keeps its type.
LEMMA GotoTyped ==
    ASSUME TypeOK, NEW r \in Requests, NEW pc \in Pcs, Goto(r, pc)
    PROVE  req' \in [Requests -> RequestStates]
BY Types DEF Goto, RequestStates

\* A request that is answered leaves a request of the right type.
LEMMA AnswerTyped ==
    ASSUME TypeOK, NEW r \in Requests, Answer(r)
    PROVE  req' \in [Requests -> RequestStates]
BY Types, EmptyTyped DEF Answer

\* So does one that begins with the row it has read.
LEMMA OpenTyped ==
    ASSUME TypeOK, NEW r \in Requests, NEW op \in Ops, NEW s \in Services, NEW pc \in Pcs,
           Open(r, op, s, pc)
    PROVE  req' \in [Requests -> RequestStates]
<1>1. [op |-> op, pc |-> pc, svc |-> s, failures |-> row[s].failures, gone |-> FALSE]
         \in RequestStates
  BY Types DEF Rows, RequestStates
<1>. QED BY <1>1, Types DEF Open

\* What every step makes of the requests.
LEMMA ReqTyped ==
    TypeOK /\ [Next]_vars => (req \in [Requests -> RequestStates])'
<1>. SUFFICES ASSUME TypeOK, [Next]_vars
            PROVE (req \in [Requests -> RequestStates])'
  OBVIOUS
<1>t. req \in [Requests -> RequestStates]
  BY Types
<1>. USE <1>t
<1>1. ASSUME NEW r \in Requests, Arrive(r) \/ Serve(r) \/ HangUp(r)
      PROVE  (req \in [Requests -> RequestStates])'
  <2>1. CASE SaveUpdate(r) BY <2>1, GotoTyped, AnswerTyped DEF SaveUpdate, Pcs
  <2>2. CASE MarkConnecting(r) BY <2>2, GotoTyped, AnswerTyped DEF MarkConnecting, Pcs
  <2>3. CASE Dial(r) BY <2>3, GotoTyped, AnswerTyped DEF Dial, Pcs, AfterDial, MayGoOn
  <2>4. CASE RecordConnected(r)
    BY <2>4, GotoTyped, AnswerTyped DEF RecordConnected, Pcs
  <2>5. CASE RecordFailed(r) BY <2>5, GotoTyped, AnswerTyped DEF RecordFailed, Pcs
  <2>6. CASE DropFailed(r) BY <2>6, GotoTyped, AnswerTyped DEF DropFailed, Pcs
  <2>7. CASE RecordDisconnected(r)
    BY <2>7, GotoTyped, AnswerTyped DEF RecordDisconnected, Pcs
  <2>8. CASE CloseDeleted(r)
    BY <2>8, GotoTyped, AnswerTyped DEF CloseDeleted, Pcs, AfterDial, MayGoOn
  <2>9. CASE DeleteTools(r) BY <2>9, GotoTyped, AnswerTyped DEF DeleteTools, Pcs
  <2>10. CASE DeleteRow(r) BY <2>10, GotoTyped, AnswerTyped DEF DeleteRow, Pcs
  <2>11. CASE Call(r) BY <2>11, GotoTyped, AnswerTyped DEF Call, Pcs
  <2>12. CASE BatchUpsert(r) BY <2>12, GotoTyped, AnswerTyped DEF BatchUpsert, Pcs
  <2>13. CASE normalizeToolActionError(r)
    BY <2>13, GotoTyped, AnswerTyped DEF normalizeToolActionError, Pcs
  <2>14. CASE HangUp(r) BY <2>14, Types DEF HangUp, RequestStates
  <2>15. ASSUME NEW s \in Services, Create(r, s)
        PROVE  (req \in [Requests -> RequestStates])'
    BY <2>15 DEF Create
  <2>16. ASSUME NEW s \in Services, Update(r, s)
        PROVE  (req \in [Requests -> RequestStates])'
    BY <2>16, OpenTyped DEF Update, Ops, Pcs
  <2>17. ASSUME NEW s \in Services, Delete(r, s)
        PROVE  (req \in [Requests -> RequestStates])'
    BY <2>17, OpenTyped DEF Delete, Ops, Pcs
  <2>18. ASSUME NEW s \in Services, Connect(r, s)
        PROVE  (req \in [Requests -> RequestStates])'
    BY <2>18, OpenTyped DEF Connect, Ops, Pcs
  <2>19. ASSUME NEW s \in Services, Disconnect(r, s)
        PROVE  (req \in [Requests -> RequestStates])'
    <3>1. [NoReq EXCEPT !.op = "disconnect", !.pc = "left", !.svc = s] \in RequestStates
      BY Types, EmptyTyped DEF RequestStates, Ops, Pcs
    <3>. QED BY <2>19, <3>1, Types DEF Disconnect
  <2>20. ASSUME NEW s \in Services, Invoke(r, s)
        PROVE  (req \in [Requests -> RequestStates])'
    BY <2>20, OpenTyped DEF Invoke, Ops, Pcs
  <2>21. ASSUME NEW s \in Services, Sync(r, s)
        PROVE  (req \in [Requests -> RequestStates])'
    BY <2>21, OpenTyped DEF Sync, Ops, Pcs
  <2>. QED BY <1>1, <2>1, <2>2, <2>3, <2>4, <2>5, <2>6, <2>7, <2>8, <2>9,
              <2>10, <2>11, <2>12, <2>13, <2>14, <2>15, <2>16, <2>17, <2>18,
              <2>19, <2>20, <2>21 DEF Arrive, Manage, Operate, Use, Serve
<1>2. ASSUME NEW s \in Services, Check(s) \/ NetChanges(s)
      PROVE  (req \in [Requests -> RequestStates])'
  <2>1. CASE PingAnswered(s) BY <2>1 DEF PingAnswered
  <2>2. CASE PingFailed(s) BY <2>2 DEF PingFailed
  <2>3. CASE PingMissed(s) BY <2>3 DEF PingMissed
  <2>4. CASE PingExpired(s) BY <2>4 DEF PingExpired
  <2>5. CASE ApplyHealthState(s) BY <2>5 DEF ApplyHealthState
  <2>6. CASE UpdateRow(s) BY <2>6 DEF UpdateRow
  <2>7. CASE DropUnhealthy(s) BY <2>7 DEF DropUnhealthy
  <2>8. CASE NetChanges(s) BY <2>8 DEF NetChanges
  <2>. QED BY <1>2, <2>1, <2>2, <2>3, <2>4, <2>5, <2>6, <2>7, <2>8
              DEF Check, Ping
<1>3. CASE StartRound BY <1>3 DEF StartRound
<1>4. CASE Restart BY <1>4, EmptyTyped DEF Restart, AtStart
<1>5. CASE UNCHANGED vars BY <1>5 DEF vars
<1>. QED BY <1>1, <1>2, <1>3, <1>4, <1>5 DEF Next

\* A result of a check has its type.
LEMMA FoundTyped ==
    ASSUME TypeOK, NEW s \in Services, NEW st \in Statuses, NEW n \in Nat, NEW k \in Nat,
           Found(s, st, n, k)
    PROVE  check' \in [Services -> Checks]
<1>1. [pc |-> "apply", status |-> st, failures |-> Saturate(n), strikes |-> Saturate(k)]
         \in Checks
  BY EmptyTyped DEF Checks
<1>. QED BY <1>1, Types DEF Found

\* What every step makes of the checks.
LEMMA CheckTyped ==
    TypeOK /\ [Next]_vars => (check \in [Services -> Checks])'
<1>. SUFFICES ASSUME TypeOK, [Next]_vars
            PROVE (check \in [Services -> Checks])'
  OBVIOUS
<1>. USE DEF Open
<1>t. /\ row \in [Services -> Rows] /\ client \in [Services -> Clients]
      /\ req \in [Requests -> RequestStates] /\ check \in [Services -> Checks]
  BY Types
<1>e. /\ NoRow \in Rows /\ NoClient \in Clients /\ NoReq \in RequestStates
      /\ NoCheck \in Checks
  BY EmptyTyped
<1>f. /\ \A r \in Requests : req[r].failures \in Nat
      /\ \A s \in Services : check[s].failures \in Nat /\ client[s].failures \in Nat
                           /\ client[s].strikes \in Nat /\ check[s].status \in Statuses
  BY <1>t DEF RequestStates, Checks, Clients, Counts
<1>. USE <1>t, <1>e, <1>f
<1>1. ASSUME NEW r \in Requests, Arrive(r) \/ Serve(r) \/ HangUp(r)
      PROVE  (check \in [Services -> Checks])'
  <2>1. CASE SaveUpdate(r) BY <2>1 DEF SaveUpdate
  <2>2. CASE MarkConnecting(r) BY <2>2 DEF MarkConnecting
  <2>3. CASE Dial(r) BY <2>3 DEF Dial
  <2>4. CASE RecordConnected(r) BY <2>4 DEF RecordConnected
  <2>5. CASE RecordFailed(r) BY <2>5 DEF RecordFailed
  <2>6. CASE DropFailed(r) BY <2>6 DEF DropFailed
  <2>7. CASE RecordDisconnected(r) BY <2>7 DEF RecordDisconnected
  <2>8. CASE CloseDeleted(r) BY <2>8 DEF CloseDeleted
  <2>9. CASE DeleteTools(r) BY <2>9 DEF DeleteTools
  <2>10. CASE DeleteRow(r) BY <2>10 DEF DeleteRow
  <2>11. CASE Call(r) BY <2>11 DEF Call
  <2>12. CASE BatchUpsert(r) BY <2>12 DEF BatchUpsert
  <2>13. CASE normalizeToolActionError(r) BY <2>13 DEF normalizeToolActionError
  <2>14. CASE HangUp(r) BY <2>14 DEF HangUp
  <2>15. ASSUME NEW s \in Services, Create(r, s) PROVE (check \in [Services -> Checks])'
    BY <2>15 DEF Create
  <2>16. ASSUME NEW s \in Services, Update(r, s) PROVE (check \in [Services -> Checks])'
    BY <2>16 DEF Update
  <2>17. ASSUME NEW s \in Services, Delete(r, s) PROVE (check \in [Services -> Checks])'
    BY <2>17 DEF Delete
  <2>18. ASSUME NEW s \in Services, Connect(r, s)
        PROVE  (check \in [Services -> Checks])'
    BY <2>18 DEF Connect
  <2>19. ASSUME NEW s \in Services, Disconnect(r, s)
        PROVE  (check \in [Services -> Checks])'
    BY <2>19 DEF Disconnect
  <2>20. ASSUME NEW s \in Services, Invoke(r, s) PROVE (check \in [Services -> Checks])'
    BY <2>20 DEF Invoke
  <2>21. ASSUME NEW s \in Services, Sync(r, s) PROVE (check \in [Services -> Checks])'
    BY <2>21 DEF Sync
  <2>. QED BY <1>1, <2>1, <2>2, <2>3, <2>4, <2>5, <2>6, <2>7, <2>8, <2>9,
              <2>10, <2>11, <2>12, <2>13, <2>14, <2>15, <2>16, <2>17, <2>18,
              <2>19, <2>20, <2>21 DEF Arrive, Manage, Operate, Use, Serve
<1>2. ASSUME NEW s \in Services, Check(s) \/ NetChanges(s)
      PROVE  (check \in [Services -> Checks])'
  <2>1. CASE PingAnswered(s)
    <3>1. Found(s, "CONNECTED", 0, 0)
      BY <2>1 DEF PingAnswered
    <3>. QED BY <3>1, FoundTyped DEF Verdict, Statuses
  <2>2. CASE PingFailed(s)
    <3>1. Found(s, Verdict(client[s].failures + 1), client[s].failures + 1, client[s].strikes + 1)
      BY <2>2 DEF PingFailed
    <3>. QED BY <3>1, FoundTyped DEF Verdict, Statuses
  <2>3. CASE PingMissed(s)
    <3>1. Found(s, Verdict(1), 1, 1)
      BY <2>3 DEF PingMissed
    <3>. QED BY <3>1, FoundTyped DEF Verdict, Statuses
  <2>4. CASE PingExpired(s)
    <3>. DEFINE n == client[s].failures + 1
    <3>1. Found(s, "ERROR", Threshold, Threshold) \/ Found(s, Verdict(n), n, n)
      BY <2>4 DEF PingExpired
    <3>2. Verdict(n) \in Statuses /\ "ERROR" \in Statuses /\ n \in Nat /\ Threshold \in Nat
      BY DEF Verdict, Statuses
    <3>. QED BY <3>1, <3>2, FoundTyped
  <2>5. CASE ApplyHealthState(s) BY <2>5 DEF ApplyHealthState, Checks
  <2>6. CASE UpdateRow(s)
    <3>1. [check[s] EXCEPT !.pc = "drop"] \in Checks
      BY DEF Checks
    <3>. QED BY <2>6, <3>1 DEF UpdateRow
  <2>7. CASE DropUnhealthy(s) BY <2>7 DEF DropUnhealthy
  <2>8. CASE NetChanges(s) BY <2>8 DEF NetChanges
  <2>. QED BY <1>2, <2>1, <2>2, <2>3, <2>4, <2>5, <2>6, <2>7, <2>8
              DEF Check, Ping
<1>3. CASE StartRound
  <2>1. [NoCheck EXCEPT !.pc = "ping"] \in Checks
    BY DEF Checks
  <2>. QED BY <1>3, <2>1 DEF StartRound
<1>4. CASE Restart BY <1>4 DEF Restart, AtStart
<1>5. CASE UNCHANGED vars BY <1>5 DEF vars
<1>. QED BY <1>1, <1>2, <1>3, <1>4, <1>5 DEF Next

\* What every step makes of the other variables.
LEMMA RestTyped ==
    TypeOK /\ StagesFit /\ [Next]_vars => RestOK'
<1>. SUFFICES ASSUME TypeOK, StagesFit, [Next]_vars PROVE RestOK'
  OBVIOUS
<1>. USE DEF RestOK, Open, StagesFit
<1>t. RestOK /\ req \in [Requests -> RequestStates]
  BY Types
<1>. USE <1>t
<1>1. ASSUME NEW r \in Requests, Arrive(r) \/ Serve(r) \/ HangUp(r)
      PROVE  RestOK'
  <2>1. CASE SaveUpdate(r) BY <2>1 DEF SaveUpdate
  <2>2. CASE MarkConnecting(r) BY <2>2 DEF MarkConnecting
  <2>3. CASE Dial(r) BY <2>3 DEF Dial
  <2>4. CASE RecordConnected(r) BY <2>4 DEF RecordConnected, Unrecorded
  <2>5. CASE RecordFailed(r) BY <2>5 DEF RecordFailed, Unrecorded
  <2>6. CASE DropFailed(r) BY <2>6 DEF DropFailed
  <2>7. CASE RecordDisconnected(r) BY <2>7 DEF RecordDisconnected
  <2>8. CASE CloseDeleted(r) BY <2>8 DEF CloseDeleted
  <2>9. CASE DeleteTools(r) BY <2>9 DEF DeleteTools
  <2>10. CASE DeleteRow(r) BY <2>10 DEF DeleteRow
  <2>11. CASE Call(r) BY <2>11 DEF Call
  <2>12. CASE BatchUpsert(r) BY <2>12 DEF BatchUpsert
  <2>13. CASE normalizeToolActionError(r) BY <2>13 DEF normalizeToolActionError
  <2>14. CASE HangUp(r) BY <2>14 DEF HangUp
  <2>15. ASSUME NEW s \in Services, Create(r, s) PROVE RestOK' BY <2>15 DEF Create
  <2>16. ASSUME NEW s \in Services, Update(r, s) PROVE RestOK' BY <2>16 DEF Update
  <2>17. ASSUME NEW s \in Services, Delete(r, s) PROVE RestOK' BY <2>17 DEF Delete
  <2>18. ASSUME NEW s \in Services, Connect(r, s) PROVE RestOK' BY <2>18 DEF Connect
  <2>19. ASSUME NEW s \in Services, Disconnect(r, s) PROVE RestOK'
    BY <2>19 DEF Disconnect
  <2>20. ASSUME NEW s \in Services, Invoke(r, s) PROVE RestOK' BY <2>20 DEF Invoke
  <2>21. ASSUME NEW s \in Services, Sync(r, s) PROVE RestOK' BY <2>21 DEF Sync
  <2>. QED BY <1>1, <2>1, <2>2, <2>3, <2>4, <2>5, <2>6, <2>7, <2>8, <2>9,
              <2>10, <2>11, <2>12, <2>13, <2>14, <2>15, <2>16, <2>17, <2>18,
              <2>19, <2>20, <2>21 DEF Arrive, Manage, Operate, Use, Serve
<1>2. ASSUME NEW s \in Services, Check(s) \/ NetChanges(s)
      PROVE  RestOK'
  <2>1. CASE PingAnswered(s) BY <2>1 DEF PingAnswered
  <2>2. CASE PingFailed(s) BY <2>2 DEF PingFailed
  <2>3. CASE PingMissed(s) BY <2>3 DEF PingMissed
  <2>4. CASE PingExpired(s) BY <2>4 DEF PingExpired
  <2>5. CASE ApplyHealthState(s) BY <2>5 DEF ApplyHealthState
  <2>6. CASE UpdateRow(s) BY <2>6 DEF UpdateRow
  <2>7. CASE DropUnhealthy(s) BY <2>7 DEF DropUnhealthy
  <2>8. CASE NetChanges(s) BY <2>8 DEF NetChanges
  <2>. QED BY <1>2, <2>1, <2>2, <2>3, <2>4, <2>5, <2>6, <2>7, <2>8
              DEF Check, Ping
<1>3. CASE StartRound BY <1>3 DEF StartRound
<1>4. CASE Restart BY <1>4 DEF Restart, AtStart
<1>5. CASE UNCHANGED vars BY <1>5 DEF vars
<1>. QED BY <1>1, <1>2, <1>3, <1>4, <1>5 DEF Next

-----------------------------------------------------------------------------
(* What the common steps do, field by field.                               *)

MovesTo(r, pc) ==
    /\ \A q \in Requests \ {r} : req'[q] = req[q]
    /\ req'[r].op = req[r].op /\ req'[r].svc = req[r].svc /\ req'[r].pc = pc
Ends(r) ==
    /\ \A q \in Requests \ {r} : req'[q] = req[q]
    /\ req'[r].op = "none" /\ req'[r].svc = "none" /\ req'[r].pc = "idle"

\* A request goes on, or is answered.
LEMMA GotoDoes ==
    ASSUME TypeOK, NEW r \in Requests, NEW pc, Goto(r, pc)
    PROVE  MovesTo(r, pc)
BY Types DEF Goto, MovesTo, RequestStates

\* An answer ends the request and changes nothing else of it.
LEMMA AnswerDoes ==
    ASSUME TypeOK, NEW r \in Requests, Answer(r)
    PROVE  Ends(r)
BY Types DEF Answer, Ends, NoReq

\* UpdateStatus never makes a row live or deletes it.
LEMMA RecordedDoes ==
    ASSUME TypeOK, NEW r \in Requests, NEW st, NEW n, row' = Recorded(r, st, n)
    PROVE  \A s \in Services : row'[s].state = row[s].state
BY Types DEF Recorded, UpdateStatus, Live, Rows

-----------------------------------------------------------------------------
(* Every part of IInv is kept by every step.                              *)

\* A request stays in the stages of its operation.
LEMMA StagesFitKeeps ==
    TypeOK /\ StagesFit /\ [Next]_vars => StagesFit'
<1>. SUFFICES ASSUME TypeOK, StagesFit, [Next]_vars PROVE StagesFit'
  OBVIOUS
<1>. USE DEF Goto, Answer, Open, NoReq, RequestStates, AfterDial, StagesFit
<1>t. /\ row \in [Services -> Rows] /\ client \in [Services -> Clients]
      /\ req \in [Requests -> RequestStates] /\ check \in [Services -> Checks]
  BY Types
<1>. USE <1>t
<1>1. ASSUME NEW r \in Requests, Arrive(r) \/ Serve(r) \/ HangUp(r)
      PROVE  StagesFit'
  <2>1. CASE SaveUpdate(r) BY <2>1 DEF SaveUpdate
  <2>2. CASE MarkConnecting(r)
    <3>1. MovesTo(r, "dial")
      BY <2>2, GotoDoes, AnswerDoes DEF MarkConnecting
    <3>2. req[r].pc = "mark"
      BY <2>2 DEF MarkConnecting
    <3>. HIDE DEF RequestStates, Rows, Clients, Checks, NoReq, Goto, Answer
    <3>. QED BY <3>1, <3>2 DEF MovesTo, Ends
  <2>3. CASE Dial(r)
    <3>1. \/ MovesTo(r, "ok")
          \/ MovesTo(r, "fail")
      BY <2>3, GotoDoes, AnswerDoes DEF Dial
    <3>2. req[r].pc = "dial"
      BY <2>3 DEF Dial
    <3>. HIDE DEF RequestStates, Rows, Clients, Checks, NoReq, Goto, Answer
    <3>. QED BY <3>1, <3>2 DEF MovesTo, Ends
  <2>4. CASE RecordConnected(r) BY <2>4 DEF RecordConnected
  <2>5. CASE RecordFailed(r)
    <3>1. MovesTo(r, "drop")
      BY <2>5, GotoDoes, AnswerDoes DEF RecordFailed
    <3>2. req[r].pc = "fail"
      BY <2>5 DEF RecordFailed
    <3>. HIDE DEF RequestStates, Rows, Clients, Checks, NoReq, Goto, Answer
    <3>. QED BY <3>1, <3>2 DEF MovesTo, Ends
  <2>6. CASE DropFailed(r) BY <2>6 DEF DropFailed
  <2>7. CASE RecordDisconnected(r) BY <2>7 DEF RecordDisconnected
  <2>8. CASE CloseDeleted(r)
    <3>1. \/ MovesTo(r, "purge")
          \/ Ends(r)
      BY <2>8, GotoDoes, AnswerDoes DEF CloseDeleted
    <3>2. req[r].pc = "close"
      BY <2>8 DEF CloseDeleted
    <3>. HIDE DEF RequestStates, Rows, Clients, Checks, NoReq, Goto, Answer
    <3>. QED BY <3>1, <3>2 DEF MovesTo, Ends
  <2>9. CASE DeleteTools(r)
    <3>1. \/ MovesTo(r, "remove")
          \/ Ends(r)
      BY <2>9, GotoDoes, AnswerDoes DEF DeleteTools
    <3>2. req[r].pc = "purge"
      BY <2>9 DEF DeleteTools
    <3>. HIDE DEF RequestStates, Rows, Clients, Checks, NoReq, Goto, Answer
    <3>. QED BY <3>1, <3>2 DEF MovesTo, Ends
  <2>10. CASE DeleteRow(r) BY <2>10 DEF DeleteRow
  <2>11. CASE Call(r)
    <3>1. \/ MovesTo(r, "normalize")
          \/ MovesTo(r, "upsert") /\ req[r].op = "sync"
          \/ Ends(r)
      BY <2>11, GotoDoes, AnswerDoes DEF Call
    <3>2. req[r].pc = "call"
      BY <2>11 DEF Call
    <3>. HIDE DEF RequestStates, Rows, Clients, Checks, NoReq, Goto, Answer
    <3>. QED BY <3>1, <3>2 DEF MovesTo, Ends
  <2>12. CASE BatchUpsert(r) BY <2>12 DEF BatchUpsert
  <2>13. CASE normalizeToolActionError(r) BY <2>13 DEF normalizeToolActionError
  <2>14. CASE HangUp(r)
    <3>1. MovesTo(r, req[r].pc)
      BY <2>14 DEF HangUp, MovesTo
    <3>. HIDE DEF RequestStates, Rows, Clients, Checks, NoReq, Goto, Answer
    <3>. QED BY <2>14, <3>1 DEF MovesTo, HangUp
  <2>15. ASSUME NEW s \in Services, Create(r, s) PROVE StagesFit' BY <2>15 DEF Create
  <2>16. ASSUME NEW s \in Services, Update(r, s) PROVE StagesFit' BY <2>16 DEF Update
  <2>17. ASSUME NEW s \in Services, Delete(r, s) PROVE StagesFit' BY <2>17 DEF Delete
  <2>18. ASSUME NEW s \in Services, Connect(r, s) PROVE StagesFit'
    BY <2>18 DEF Connect
  <2>19. ASSUME NEW s \in Services, Disconnect(r, s) PROVE StagesFit'
    BY <2>19 DEF Disconnect
  <2>20. ASSUME NEW s \in Services, Invoke(r, s) PROVE StagesFit' BY <2>20 DEF Invoke
  <2>21. ASSUME NEW s \in Services, Sync(r, s) PROVE StagesFit' BY <2>21 DEF Sync
  <2>. QED BY <1>1, <2>1, <2>2, <2>3, <2>4, <2>5, <2>6, <2>7, <2>8, <2>9,
              <2>10, <2>11, <2>12, <2>13, <2>14, <2>15, <2>16, <2>17, <2>18,
              <2>19, <2>20, <2>21 DEF Arrive, Manage, Operate, Use, Serve
<1>2. ASSUME NEW s \in Services, Check(s) \/ NetChanges(s)
      PROVE  StagesFit'
  <2>1. CASE PingAnswered(s) BY <2>1 DEF PingAnswered
  <2>2. CASE PingFailed(s) BY <2>2 DEF PingFailed
  <2>3. CASE PingMissed(s) BY <2>3 DEF PingMissed
  <2>4. CASE PingExpired(s) BY <2>4 DEF PingExpired
  <2>5. CASE ApplyHealthState(s) BY <2>5 DEF ApplyHealthState
  <2>6. CASE UpdateRow(s) BY <2>6 DEF UpdateRow
  <2>7. CASE DropUnhealthy(s) BY <2>7 DEF DropUnhealthy
  <2>8. CASE NetChanges(s) BY <2>8 DEF NetChanges
  <2>. QED BY <1>2, <2>1, <2>2, <2>3, <2>4, <2>5, <2>6, <2>7, <2>8
              DEF Check, Ping
<1>3. CASE StartRound BY <1>3 DEF StartRound
<1>4. CASE Restart BY <1>4 DEF Restart, AtStart
<1>5. CASE UNCHANGED vars BY <1>5 DEF vars
<1>. QED BY <1>1, <1>2, <1>3, <1>4, <1>5 DEF Next

\* A connection comes from a Connect, a check from a connection.
LEMMA TriedFitsKeeps ==
    TypeOK /\ StagesFit /\ TriedFits /\ [Next]_vars => TriedFits'
<1>. SUFFICES ASSUME TypeOK, StagesFit, TriedFits, [Next]_vars
            PROVE TriedFits'
  OBVIOUS
<1>. USE DEF Goto, Answer, Open, NoReq, RequestStates, Drop, Found, NoClient,
            NoCheck, Clients, Checks, AfterDial, TriedFits, StagesFit
<1>t. /\ row \in [Services -> Rows] /\ client \in [Services -> Clients]
      /\ req \in [Requests -> RequestStates] /\ check \in [Services -> Checks]
  BY Types
<1>. USE <1>t
<1>1. ASSUME NEW r \in Requests, Arrive(r) \/ Serve(r) \/ HangUp(r)
      PROVE  TriedFits'
  <2>1. CASE SaveUpdate(r) BY <2>1 DEF SaveUpdate
  <2>2. CASE MarkConnecting(r) BY <2>2 DEF MarkConnecting
  <2>3. CASE Dial(r) BY <2>3 DEF Dial
  <2>4. CASE RecordConnected(r) BY <2>4 DEF RecordConnected
  <2>5. CASE RecordFailed(r) BY <2>5 DEF RecordFailed
  <2>6. CASE DropFailed(r) BY <2>6 DEF DropFailed
  <2>7. CASE RecordDisconnected(r) BY <2>7 DEF RecordDisconnected
  <2>8. CASE CloseDeleted(r)
    <3>1. \/ MovesTo(r, "purge")
          \/ Ends(r)
      BY <2>8, GotoDoes, AnswerDoes DEF CloseDeleted
    <3>2. req[r].pc = "close"
      BY <2>8 DEF CloseDeleted
    <3>3. UNCHANGED tried /\ UNCHANGED check
          /\ \A s \in Services : client'[s].there => client[s].there
      BY <2>8 DEF CloseDeleted
    <3>. HIDE DEF RequestStates, Rows, Clients, Checks, NoReq, Goto, Answer
    <3>. QED BY <3>1, <3>2, <3>3 DEF MovesTo, Ends
  <2>9. CASE DeleteTools(r)
    <3>1. \/ MovesTo(r, "remove")
          \/ Ends(r)
      BY <2>9, GotoDoes, AnswerDoes DEF DeleteTools
    <3>2. req[r].pc = "purge"
      BY <2>9 DEF DeleteTools
    <3>3. UNCHANGED <<tried, check, client>>
      BY <2>9 DEF DeleteTools
    <3>. HIDE DEF RequestStates, Rows, Clients, Checks, NoReq, Goto, Answer
    <3>. QED BY <3>1, <3>2, <3>3 DEF MovesTo, Ends
  <2>10. CASE DeleteRow(r) BY <2>10 DEF DeleteRow
  <2>11. CASE Call(r)
    <3>1. \/ MovesTo(r, "normalize")
          \/ MovesTo(r, "upsert") /\ req[r].op = "sync"
          \/ Ends(r)
      BY <2>11, GotoDoes, AnswerDoes DEF Call
    <3>2. req[r].pc = "call"
      BY <2>11 DEF Call
    <3>3. UNCHANGED tried /\ UNCHANGED check
          /\ \A s \in Services : client'[s].there => client[s].there
      BY <2>11 DEF Call
    <3>. HIDE DEF RequestStates, Rows, Clients, Checks, NoReq, Goto, Answer
    <3>. QED BY <3>1, <3>2, <3>3 DEF MovesTo, Ends
  <2>12. CASE BatchUpsert(r) BY <2>12 DEF BatchUpsert
  <2>13. CASE normalizeToolActionError(r) BY <2>13 DEF normalizeToolActionError
  <2>14. CASE HangUp(r) BY <2>14 DEF HangUp
  <2>15. ASSUME NEW s \in Services, Create(r, s) PROVE TriedFits' BY <2>15 DEF Create
  <2>16. ASSUME NEW s \in Services, Update(r, s) PROVE TriedFits' BY <2>16 DEF Update
  <2>17. ASSUME NEW s \in Services, Delete(r, s) PROVE TriedFits' BY <2>17 DEF Delete
  <2>18. ASSUME NEW s \in Services, Connect(r, s) PROVE TriedFits'
    BY <2>18 DEF Connect
  <2>19. ASSUME NEW s \in Services, Disconnect(r, s) PROVE TriedFits'
    BY <2>19 DEF Disconnect
  <2>20. ASSUME NEW s \in Services, Invoke(r, s) PROVE TriedFits' BY <2>20 DEF Invoke
  <2>21. ASSUME NEW s \in Services, Sync(r, s) PROVE TriedFits' BY <2>21 DEF Sync
  <2>. QED BY <1>1, <2>1, <2>2, <2>3, <2>4, <2>5, <2>6, <2>7, <2>8, <2>9,
              <2>10, <2>11, <2>12, <2>13, <2>14, <2>15, <2>16, <2>17, <2>18,
              <2>19, <2>20, <2>21 DEF Arrive, Manage, Operate, Use, Serve
<1>2. ASSUME NEW s \in Services, Check(s) \/ NetChanges(s)
      PROVE  TriedFits'
  <2>1. CASE PingAnswered(s) BY <2>1 DEF PingAnswered
  <2>2. CASE PingFailed(s) BY <2>2 DEF PingFailed
  <2>3. CASE PingMissed(s) BY <2>3 DEF PingMissed
  <2>4. CASE PingExpired(s) BY <2>4 DEF PingExpired
  <2>5. CASE ApplyHealthState(s) BY <2>5 DEF ApplyHealthState
  <2>6. CASE UpdateRow(s) BY <2>6 DEF UpdateRow
  <2>7. CASE DropUnhealthy(s) BY <2>7 DEF DropUnhealthy
  <2>8. CASE NetChanges(s) BY <2>8 DEF NetChanges
  <2>. QED BY <1>2, <2>1, <2>2, <2>3, <2>4, <2>5, <2>6, <2>7, <2>8
              DEF Check, Ping
<1>3. CASE StartRound BY <1>3 DEF StartRound
<1>4. CASE Restart BY <1>4 DEF Restart, AtStart
<1>5. CASE UNCHANGED vars BY <1>5 DEF vars
<1>. QED BY <1>1, <1>2, <1>3, <1>4, <1>5 DEF Next

\* A check finds CONNECTED or ERROR, and a row that never was is empty.
LEMMA RowsFitKeeps ==
    TypeOK /\ StagesFit /\ RowsFit /\ [Next]_vars => RowsFit'
<1>. SUFFICES ASSUME TypeOK, StagesFit, RowsFit, [Next]_vars PROVE RowsFit'
  OBVIOUS
<1>. USE DEF Recorded, UpdateStatus, Live, Found, NoCheck, NoRow, Rows,
            Checks, Verdict, Leftover, Open, Drop, RowsFit, StagesFit
<1>t. /\ row \in [Services -> Rows] /\ client \in [Services -> Clients]
      /\ req \in [Requests -> RequestStates] /\ check \in [Services -> Checks]
  BY Types
<1>. USE <1>t
<1>1. ASSUME NEW r \in Requests, Arrive(r) \/ Serve(r) \/ HangUp(r)
      PROVE  RowsFit'
  <2>1. CASE SaveUpdate(r) BY <2>1 DEF SaveUpdate
  <2>2. CASE MarkConnecting(r) BY <2>2 DEF MarkConnecting
  <2>3. CASE Dial(r) BY <2>3 DEF Dial
  <2>4. CASE RecordConnected(r) BY <2>4 DEF RecordConnected
  <2>5. CASE RecordFailed(r) BY <2>5 DEF RecordFailed
  <2>6. CASE DropFailed(r) BY <2>6 DEF DropFailed
  <2>7. CASE RecordDisconnected(r) BY <2>7 DEF RecordDisconnected
  <2>8. CASE CloseDeleted(r) BY <2>8 DEF CloseDeleted
  <2>9. CASE DeleteTools(r) BY <2>9 DEF DeleteTools
  <2>10. CASE DeleteRow(r) BY <2>10 DEF DeleteRow
  <2>11. CASE Call(r) BY <2>11 DEF Call
  <2>12. CASE BatchUpsert(r) BY <2>12 DEF BatchUpsert
  <2>13. CASE normalizeToolActionError(r) BY <2>13 DEF normalizeToolActionError
  <2>14. CASE HangUp(r) BY <2>14 DEF HangUp
  <2>15. ASSUME NEW s \in Services, Create(r, s) PROVE RowsFit' BY <2>15 DEF Create
  <2>16. ASSUME NEW s \in Services, Update(r, s) PROVE RowsFit' BY <2>16 DEF Update
  <2>17. ASSUME NEW s \in Services, Delete(r, s) PROVE RowsFit' BY <2>17 DEF Delete
  <2>18. ASSUME NEW s \in Services, Connect(r, s) PROVE RowsFit' BY <2>18 DEF Connect
  <2>19. ASSUME NEW s \in Services, Disconnect(r, s) PROVE RowsFit'
    BY <2>19 DEF Disconnect
  <2>20. ASSUME NEW s \in Services, Invoke(r, s) PROVE RowsFit' BY <2>20 DEF Invoke
  <2>21. ASSUME NEW s \in Services, Sync(r, s) PROVE RowsFit' BY <2>21 DEF Sync
  <2>. QED BY <1>1, <2>1, <2>2, <2>3, <2>4, <2>5, <2>6, <2>7, <2>8, <2>9,
              <2>10, <2>11, <2>12, <2>13, <2>14, <2>15, <2>16, <2>17, <2>18,
              <2>19, <2>20, <2>21 DEF Arrive, Manage, Operate, Use, Serve
<1>2. ASSUME NEW s \in Services, Check(s) \/ NetChanges(s)
      PROVE  RowsFit'
  <2>1. CASE PingAnswered(s) BY <2>1 DEF PingAnswered
  <2>2. CASE PingFailed(s) BY <2>2 DEF PingFailed
  <2>3. CASE PingMissed(s) BY <2>3 DEF PingMissed
  <2>4. CASE PingExpired(s) BY <2>4 DEF PingExpired
  <2>5. CASE ApplyHealthState(s) BY <2>5 DEF ApplyHealthState
  <2>6. CASE UpdateRow(s) BY <2>6 DEF UpdateRow
  <2>7. CASE DropUnhealthy(s) BY <2>7 DEF DropUnhealthy
  <2>8. CASE NetChanges(s) BY <2>8 DEF NetChanges
  <2>. QED BY <1>2, <2>1, <2>2, <2>3, <2>4, <2>5, <2>6, <2>7, <2>8
              DEF Check, Ping
<1>3. CASE StartRound BY <1>3 DEF StartRound
<1>4. CASE Restart BY <1>4 DEF Restart, AtStart
<1>5. CASE UNCHANGED vars BY <1>5 DEF vars
<1>. QED BY <1>1, <1>2, <1>3, <1>4, <1>5 DEF Next

\* Whoever joins a deletion is noticed, and the steps of the others keep their hands off.
LEMMA DeletingFitsKeeps ==
    TypeOK /\ StagesFit /\ DeletingFits /\ [Next]_vars => DeletingFits'
<1>. SUFFICES ASSUME TypeOK, StagesFit, DeletingFits, [Next]_vars
            PROVE DeletingFits'
  OBVIOUS
<1>. USE DEF Goto, Answer, Open, NoReq, RequestStates, MayGoOn, Drop,
            NoClient, Clients, DeletingFits, Alone, Beside, StagesFit
<1>t. /\ row \in [Services -> Rows] /\ client \in [Services -> Clients]
      /\ req \in [Requests -> RequestStates] /\ check \in [Services -> Checks]
  BY Types
<1>. USE <1>t
<1>1. ASSUME NEW r \in Requests, Arrive(r) \/ Serve(r) \/ HangUp(r)
      PROVE  DeletingFits'
  <2>1. CASE SaveUpdate(r) BY <2>1 DEF SaveUpdate
  <2>2. CASE MarkConnecting(r) BY <2>2 DEF MarkConnecting
  <2>3. CASE Dial(r) BY <2>3 DEF Dial
  <2>4. CASE RecordConnected(r) BY <2>4 DEF RecordConnected
  <2>5. CASE RecordFailed(r) BY <2>5 DEF RecordFailed
  <2>6. CASE DropFailed(r) BY <2>6 DEF DropFailed
  <2>7. CASE RecordDisconnected(r) BY <2>7 DEF RecordDisconnected
  <2>8. CASE CloseDeleted(r)
    <3>1. \/ MovesTo(r, "purge")
          \/ Ends(r)
      BY <2>8, GotoDoes, AnswerDoes DEF CloseDeleted
    <3>2. req[r].pc = "close"
      BY <2>8 DEF CloseDeleted
    <3>3. /\ UNCHANGED <<tools, overlapped>>
          /\ \A s \in Services : client'[s].there => client[s].there
      BY <2>8 DEF CloseDeleted
    <3>4. MovesTo(r, "purge") => ~client'[req[r].svc].there
      BY <2>8 DEF CloseDeleted, MovesTo
    <3>. HIDE DEF RequestStates, Rows, Clients, Checks, NoReq, Goto, Answer
    <3>. QED BY <3>1, <3>2, <3>3, <3>4 DEF MovesTo, Ends
  <2>9. CASE DeleteTools(r)
    <3>1. \/ MovesTo(r, "remove")
          \/ Ends(r)
      BY <2>9, GotoDoes, AnswerDoes DEF DeleteTools
    <3>2. req[r].pc = "purge"
      BY <2>9 DEF DeleteTools
    <3>3. /\ UNCHANGED <<client, overlapped>> /\ tools' \subseteq tools
      BY <2>9 DEF DeleteTools
    <3>4. MovesTo(r, "remove") => req[r].svc \notin tools'
      BY <2>9 DEF DeleteTools, MovesTo
    <3>. HIDE DEF RequestStates, Rows, Clients, Checks, NoReq, Goto, Answer
    <3>. QED BY <3>1, <3>2, <3>3, <3>4 DEF MovesTo, Ends
  <2>10. CASE DeleteRow(r) BY <2>10 DEF DeleteRow
  <2>11. CASE Call(r)
    <3>1. \/ MovesTo(r, "normalize")
          \/ MovesTo(r, "upsert") /\ req[r].op = "sync"
          \/ Ends(r)
      BY <2>11, GotoDoes, AnswerDoes DEF Call
    <3>2. req[r].pc = "call"
      BY <2>11 DEF Call
    <3>3. /\ UNCHANGED <<tools, overlapped>>
          /\ \A s \in Services : client'[s].there => client[s].there
      BY <2>11 DEF Call
    <3>. HIDE DEF RequestStates, Rows, Clients, Checks, NoReq, Goto, Answer
    <3>. QED BY <3>1, <3>2, <3>3 DEF MovesTo, Ends
  <2>12. CASE BatchUpsert(r) BY <2>12 DEF BatchUpsert
  <2>13. CASE normalizeToolActionError(r) BY <2>13 DEF normalizeToolActionError
  <2>14. CASE HangUp(r) BY <2>14 DEF HangUp
  <2>15. ASSUME NEW s \in Services, Create(r, s) PROVE DeletingFits'
    BY <2>15 DEF Create
  <2>16. ASSUME NEW s \in Services, Update(r, s) PROVE DeletingFits'
    BY <2>16 DEF Update
  <2>17. ASSUME NEW s \in Services, Delete(r, s) PROVE DeletingFits'
    BY <2>17 DEF Delete
  <2>18. ASSUME NEW s \in Services, Connect(r, s) PROVE DeletingFits'
    BY <2>18 DEF Connect
  <2>19. ASSUME NEW s \in Services, Disconnect(r, s) PROVE DeletingFits'
    BY <2>19 DEF Disconnect
  <2>20. ASSUME NEW s \in Services, Invoke(r, s) PROVE DeletingFits'
    BY <2>20 DEF Invoke
  <2>21. ASSUME NEW s \in Services, Sync(r, s) PROVE DeletingFits' BY <2>21 DEF Sync
  <2>. QED BY <1>1, <2>1, <2>2, <2>3, <2>4, <2>5, <2>6, <2>7, <2>8, <2>9,
              <2>10, <2>11, <2>12, <2>13, <2>14, <2>15, <2>16, <2>17, <2>18,
              <2>19, <2>20, <2>21 DEF Arrive, Manage, Operate, Use, Serve
<1>2. ASSUME NEW s \in Services, Check(s) \/ NetChanges(s)
      PROVE  DeletingFits'
  <2>1. CASE PingAnswered(s) BY <2>1 DEF PingAnswered
  <2>2. CASE PingFailed(s) BY <2>2 DEF PingFailed
  <2>3. CASE PingMissed(s) BY <2>3 DEF PingMissed
  <2>4. CASE PingExpired(s) BY <2>4 DEF PingExpired
  <2>5. CASE ApplyHealthState(s) BY <2>5 DEF ApplyHealthState
  <2>6. CASE UpdateRow(s) BY <2>6 DEF UpdateRow
  <2>7. CASE DropUnhealthy(s) BY <2>7 DEF DropUnhealthy
  <2>8. CASE NetChanges(s) BY <2>8 DEF NetChanges
  <2>. QED BY <1>2, <2>1, <2>2, <2>3, <2>4, <2>5, <2>6, <2>7, <2>8
              DEF Check, Ping
<1>3. CASE StartRound BY <1>3 DEF StartRound
<1>4. CASE Restart BY <1>4 DEF Restart, AtStart
<1>5. CASE UNCHANGED vars BY <1>5 DEF vars
<1>. QED BY <1>1, <1>2, <1>3, <1>4, <1>5 DEF Next

\* Nothing begins on a deleted row.
LEMMA DeletedFitsKeeps ==
    TypeOK /\ StagesFit /\ DeletingFits /\ DeletedFits /\ [Next]_vars => DeletedFits'
<1>. SUFFICES ASSUME TypeOK, StagesFit, DeletingFits, DeletedFits, [Next]_vars
            PROVE DeletedFits'
  OBVIOUS
<1>. USE DEF Goto, Answer, Open, NoReq, RequestStates, AfterDial, MayGoOn,
            Recorded, UpdateStatus, Live, Rows, Leftover, NoRow, Reported,
            DeletedFits, Alone, Beside, DeletingFits, StagesFit
<1>t. /\ row \in [Services -> Rows] /\ client \in [Services -> Clients]
      /\ req \in [Requests -> RequestStates] /\ check \in [Services -> Checks]
  BY Types
<1>. USE <1>t
<1>1. ASSUME NEW r \in Requests, Arrive(r) \/ Serve(r) \/ HangUp(r)
      PROVE  DeletedFits'
  <2>1. CASE SaveUpdate(r)
    <3>1. Ends(r)
      BY <2>1, GotoDoes, AnswerDoes DEF SaveUpdate
    <3>2. req[r].pc = "save"
      BY <2>1 DEF SaveUpdate
    <3>3. /\ UNCHANGED overlapped
          /\ \A s \in Services : row'[s].state = "deleted" => row[s].state = "deleted"
      BY <2>1, RecordedDoes DEF SaveUpdate
    <3>. HIDE DEF RequestStates, Rows, Clients, Checks, NoReq, Goto, Answer
    <3>. QED BY <3>1, <3>2, <3>3 DEF MovesTo, Ends
  <2>2. CASE MarkConnecting(r)
    <3>1. MovesTo(r, "dial")
      BY <2>2, GotoDoes, AnswerDoes DEF MarkConnecting
    <3>2. req[r].pc = "mark"
      BY <2>2 DEF MarkConnecting
    <3>3. /\ UNCHANGED overlapped
          /\ \A s \in Services : row'[s].state = "deleted" => row[s].state = "deleted"
      BY <2>2, RecordedDoes DEF MarkConnecting
    <3>. HIDE DEF RequestStates, Rows, Clients, Checks, NoReq, Goto, Answer
    <3>. QED BY <3>1, <3>2, <3>3 DEF MovesTo, Ends
  <2>3. CASE Dial(r)
    <3>1. \/ MovesTo(r, "ok")
          \/ MovesTo(r, "fail")
      BY <2>3, GotoDoes, AnswerDoes DEF Dial
    <3>2. req[r].pc = "dial"
      BY <2>3 DEF Dial
    <3>3. /\ UNCHANGED overlapped
          /\ \A s \in Services : row'[s].state = "deleted" => row[s].state = "deleted"
      BY <2>3, RecordedDoes DEF Dial
    <3>. HIDE DEF RequestStates, Rows, Clients, Checks, NoReq, Goto, Answer
    <3>. QED BY <3>1, <3>2, <3>3 DEF MovesTo, Ends
  <2>4. CASE RecordConnected(r)
    <3>1. Ends(r)
      BY <2>4, GotoDoes, AnswerDoes DEF RecordConnected
    <3>2. req[r].pc = "ok"
      BY <2>4 DEF RecordConnected
    <3>3. /\ UNCHANGED overlapped
          /\ \A s \in Services : row'[s].state = "deleted" => row[s].state = "deleted"
      BY <2>4, RecordedDoes DEF RecordConnected
    <3>. HIDE DEF RequestStates, Rows, Clients, Checks, NoReq, Goto, Answer
    <3>. QED BY <3>1, <3>2, <3>3 DEF MovesTo, Ends
  <2>5. CASE RecordFailed(r)
    <3>1. MovesTo(r, "drop")
      BY <2>5, GotoDoes, AnswerDoes DEF RecordFailed
    <3>2. req[r].pc = "fail"
      BY <2>5 DEF RecordFailed
    <3>3. /\ UNCHANGED overlapped
          /\ \A s \in Services : row'[s].state = "deleted" => row[s].state = "deleted"
      BY <2>5, RecordedDoes DEF RecordFailed
    <3>. HIDE DEF RequestStates, Rows, Clients, Checks, NoReq, Goto, Answer
    <3>. QED BY <3>1, <3>2, <3>3 DEF MovesTo, Ends
  <2>6. CASE DropFailed(r)
    <3>1. Ends(r)
      BY <2>6, GotoDoes, AnswerDoes DEF DropFailed
    <3>2. req[r].pc = "drop"
      BY <2>6 DEF DropFailed
    <3>3. /\ UNCHANGED overlapped
          /\ \A s \in Services : row'[s].state = "deleted" => row[s].state = "deleted"
      BY <2>6, RecordedDoes DEF DropFailed
    <3>. HIDE DEF RequestStates, Rows, Clients, Checks, NoReq, Goto, Answer
    <3>. QED BY <3>1, <3>2, <3>3 DEF MovesTo, Ends
  <2>7. CASE RecordDisconnected(r)
    <3>1. Ends(r)
      BY <2>7, GotoDoes, AnswerDoes DEF RecordDisconnected
    <3>2. req[r].pc = "left"
      BY <2>7 DEF RecordDisconnected
    <3>3. /\ UNCHANGED overlapped
          /\ \A s \in Services : row'[s].state = "deleted" => row[s].state = "deleted"
      BY <2>7, RecordedDoes DEF RecordDisconnected
    <3>. HIDE DEF RequestStates, Rows, Clients, Checks, NoReq, Goto, Answer
    <3>. QED BY <3>1, <3>2, <3>3 DEF MovesTo, Ends
  <2>8. CASE CloseDeleted(r)
    <3>1. \/ MovesTo(r, "purge")
          \/ Ends(r)
      BY <2>8, GotoDoes, AnswerDoes DEF CloseDeleted
    <3>2. req[r].pc = "close"
      BY <2>8 DEF CloseDeleted
    <3>3. /\ UNCHANGED overlapped
          /\ \A s \in Services : row'[s].state = "deleted" => row[s].state = "deleted"
      BY <2>8, RecordedDoes DEF CloseDeleted
    <3>. HIDE DEF RequestStates, Rows, Clients, Checks, NoReq, Goto, Answer
    <3>. QED BY <3>1, <3>2, <3>3 DEF MovesTo, Ends
  <2>9. CASE DeleteTools(r)
    <3>1. \/ MovesTo(r, "remove")
          \/ Ends(r)
      BY <2>9, GotoDoes, AnswerDoes DEF DeleteTools
    <3>2. req[r].pc = "purge"
      BY <2>9 DEF DeleteTools
    <3>3. /\ UNCHANGED overlapped
          /\ \A s \in Services : row'[s].state = "deleted" => row[s].state = "deleted"
      BY <2>9, RecordedDoes DEF DeleteTools
    <3>. HIDE DEF RequestStates, Rows, Clients, Checks, NoReq, Goto, Answer
    <3>. QED BY <3>1, <3>2, <3>3 DEF MovesTo, Ends
  <2>10. CASE DeleteRow(r) BY <2>10 DEF DeleteRow
  <2>11. CASE Call(r)
    <3>1. \/ MovesTo(r, "normalize")
          \/ MovesTo(r, "upsert") /\ req[r].op = "sync"
          \/ Ends(r)
      BY <2>11, GotoDoes, AnswerDoes DEF Call
    <3>2. req[r].pc = "call"
      BY <2>11 DEF Call
    <3>3. /\ UNCHANGED overlapped
          /\ \A s \in Services : row'[s].state = "deleted" => row[s].state = "deleted"
      BY <2>11, RecordedDoes DEF Call
    <3>. HIDE DEF RequestStates, Rows, Clients, Checks, NoReq, Goto, Answer
    <3>. QED BY <3>1, <3>2, <3>3 DEF MovesTo, Ends
  <2>12. CASE BatchUpsert(r)
    <3>1. Ends(r)
      BY <2>12, GotoDoes, AnswerDoes DEF BatchUpsert
    <3>2. req[r].pc = "upsert"
      BY <2>12 DEF BatchUpsert
    <3>3. /\ UNCHANGED overlapped
          /\ \A s \in Services : row'[s].state = "deleted" => row[s].state = "deleted"
      BY <2>12, RecordedDoes DEF BatchUpsert
    <3>. HIDE DEF RequestStates, Rows, Clients, Checks, NoReq, Goto, Answer
    <3>. QED BY <3>1, <3>2, <3>3 DEF MovesTo, Ends
  <2>13. CASE normalizeToolActionError(r)
    <3>1. Ends(r)
      BY <2>13, GotoDoes, AnswerDoes DEF normalizeToolActionError
    <3>2. req[r].pc = "normalize"
      BY <2>13 DEF normalizeToolActionError
    <3>3. /\ UNCHANGED overlapped
          /\ \A s \in Services : row'[s].state = "deleted" => row[s].state = "deleted"
      BY <2>13, RecordedDoes DEF normalizeToolActionError
    <3>. HIDE DEF RequestStates, Rows, Clients, Checks, NoReq, Goto, Answer
    <3>. QED BY <3>1, <3>2, <3>3 DEF MovesTo, Ends
  <2>14. CASE HangUp(r) BY <2>14 DEF HangUp
  <2>15. ASSUME NEW s \in Services, Create(r, s) PROVE DeletedFits'
    BY <2>15 DEF Create
  <2>16. ASSUME NEW s \in Services, Update(r, s) PROVE DeletedFits'
    BY <2>16 DEF Update
  <2>17. ASSUME NEW s \in Services, Delete(r, s) PROVE DeletedFits'
    BY <2>17 DEF Delete
  <2>18. ASSUME NEW s \in Services, Connect(r, s) PROVE DeletedFits'
    BY <2>18 DEF Connect
  <2>19. ASSUME NEW s \in Services, Disconnect(r, s) PROVE DeletedFits'
    BY <2>19 DEF Disconnect
  <2>20. ASSUME NEW s \in Services, Invoke(r, s) PROVE DeletedFits'
    BY <2>20 DEF Invoke
  <2>21. ASSUME NEW s \in Services, Sync(r, s) PROVE DeletedFits' BY <2>21 DEF Sync
  <2>. QED BY <1>1, <2>1, <2>2, <2>3, <2>4, <2>5, <2>6, <2>7, <2>8, <2>9,
              <2>10, <2>11, <2>12, <2>13, <2>14, <2>15, <2>16, <2>17, <2>18,
              <2>19, <2>20, <2>21 DEF Arrive, Manage, Operate, Use, Serve
<1>2. ASSUME NEW s \in Services, Check(s) \/ NetChanges(s)
      PROVE  DeletedFits'
  <2>1. CASE PingAnswered(s) BY <2>1 DEF PingAnswered
  <2>2. CASE PingFailed(s) BY <2>2 DEF PingFailed
  <2>3. CASE PingMissed(s) BY <2>3 DEF PingMissed
  <2>4. CASE PingExpired(s) BY <2>4 DEF PingExpired
  <2>5. CASE ApplyHealthState(s) BY <2>5 DEF ApplyHealthState
  <2>6. CASE UpdateRow(s) BY <2>6 DEF UpdateRow
  <2>7. CASE DropUnhealthy(s) BY <2>7 DEF DropUnhealthy
  <2>8. CASE NetChanges(s) BY <2>8 DEF NetChanges
  <2>. QED BY <1>2, <2>1, <2>2, <2>3, <2>4, <2>5, <2>6, <2>7, <2>8
              DEF Check, Ping
<1>3. CASE StartRound BY <1>3 DEF StartRound
<1>4. CASE Restart BY <1>4 DEF Restart, AtStart
<1>5. CASE UNCHANGED vars BY <1>5 DEF vars
<1>. QED BY <1>1, <1>2, <1>3, <1>4, <1>5 DEF Next

\* Every writer of CONNECTED or CONNECTING has tried the service.
LEMMA ClaimsAreOfThisRunKeeps ==
    TypeOK /\ StagesFit /\ TriedFits /\ RowsFit /\ ClaimsAreOfThisRun /\ [Next]_vars
        => ClaimsAreOfThisRun'
<1>. SUFFICES ASSUME TypeOK, StagesFit, TriedFits, RowsFit,
            ClaimsAreOfThisRun, [Next]_vars PROVE ClaimsAreOfThisRun'
  OBVIOUS
<1>. USE DEF Recorded, UpdateStatus, Live, NoRow, Rows, Open, Reported,
            Leftover, ClaimsAreOfThisRun, StagesFit, TriedFits, RowsFit
<1>t. /\ row \in [Services -> Rows] /\ client \in [Services -> Clients]
      /\ req \in [Requests -> RequestStates] /\ check \in [Services -> Checks]
  BY Types
<1>. USE <1>t
<1>1. ASSUME NEW r \in Requests, Arrive(r) \/ Serve(r) \/ HangUp(r)
      PROVE  ClaimsAreOfThisRun'
  <2>1. CASE SaveUpdate(r) BY <2>1 DEF SaveUpdate
  <2>2. CASE MarkConnecting(r) BY <2>2 DEF MarkConnecting
  <2>3. CASE Dial(r) BY <2>3 DEF Dial
  <2>4. CASE RecordConnected(r) BY <2>4 DEF RecordConnected
  <2>5. CASE RecordFailed(r) BY <2>5 DEF RecordFailed
  <2>6. CASE DropFailed(r) BY <2>6 DEF DropFailed
  <2>7. CASE RecordDisconnected(r) BY <2>7 DEF RecordDisconnected
  <2>8. CASE CloseDeleted(r) BY <2>8 DEF CloseDeleted
  <2>9. CASE DeleteTools(r) BY <2>9 DEF DeleteTools
  <2>10. CASE DeleteRow(r) BY <2>10 DEF DeleteRow
  <2>11. CASE Call(r) BY <2>11 DEF Call
  <2>12. CASE BatchUpsert(r) BY <2>12 DEF BatchUpsert
  <2>13. CASE normalizeToolActionError(r) BY <2>13 DEF normalizeToolActionError
  <2>14. CASE HangUp(r) BY <2>14 DEF HangUp
  <2>15. ASSUME NEW s \in Services, Create(r, s) PROVE ClaimsAreOfThisRun'
    BY <2>15 DEF Create
  <2>16. ASSUME NEW s \in Services, Update(r, s) PROVE ClaimsAreOfThisRun'
    BY <2>16 DEF Update
  <2>17. ASSUME NEW s \in Services, Delete(r, s) PROVE ClaimsAreOfThisRun'
    BY <2>17 DEF Delete
  <2>18. ASSUME NEW s \in Services, Connect(r, s) PROVE ClaimsAreOfThisRun'
    BY <2>18 DEF Connect
  <2>19. ASSUME NEW s \in Services, Disconnect(r, s) PROVE ClaimsAreOfThisRun'
    BY <2>19 DEF Disconnect
  <2>20. ASSUME NEW s \in Services, Invoke(r, s) PROVE ClaimsAreOfThisRun'
    BY <2>20 DEF Invoke
  <2>21. ASSUME NEW s \in Services, Sync(r, s) PROVE ClaimsAreOfThisRun'
    BY <2>21 DEF Sync
  <2>. QED BY <1>1, <2>1, <2>2, <2>3, <2>4, <2>5, <2>6, <2>7, <2>8, <2>9,
              <2>10, <2>11, <2>12, <2>13, <2>14, <2>15, <2>16, <2>17, <2>18,
              <2>19, <2>20, <2>21 DEF Arrive, Manage, Operate, Use, Serve
<1>2. ASSUME NEW s \in Services, Check(s) \/ NetChanges(s)
      PROVE  ClaimsAreOfThisRun'
  <2>1. CASE PingAnswered(s) BY <2>1 DEF PingAnswered
  <2>2. CASE PingFailed(s) BY <2>2 DEF PingFailed
  <2>3. CASE PingMissed(s) BY <2>3 DEF PingMissed
  <2>4. CASE PingExpired(s) BY <2>4 DEF PingExpired
  <2>5. CASE ApplyHealthState(s) BY <2>5 DEF ApplyHealthState
  <2>6. CASE UpdateRow(s) BY <2>6 DEF UpdateRow
  <2>7. CASE DropUnhealthy(s) BY <2>7 DEF DropUnhealthy
  <2>8. CASE NetChanges(s) BY <2>8 DEF NetChanges
  <2>. QED BY <1>2, <2>1, <2>2, <2>3, <2>4, <2>5, <2>6, <2>7, <2>8
              DEF Check, Ping
<1>3. CASE StartRound BY <1>3 DEF StartRound
<1>4. CASE Restart BY <1>4 DEF Restart, AtStart
<1>5. CASE UNCHANGED vars BY <1>5 DEF vars
<1>. QED BY <1>1, <1>2, <1>3, <1>4, <1>5 DEF Next

\* Every writer of CONNECTING has still to write its result.
LEMMA ConnectingIsOwnedKeeps ==
    TypeOK /\ StagesFit /\ RowsFit /\ ConnectingIsOwned /\ [Next]_vars
        => ConnectingIsOwned'
<1>. SUFFICES ASSUME TypeOK, StagesFit, RowsFit, ConnectingIsOwned,
            [Next]_vars PROVE ConnectingIsOwned'
  OBVIOUS
<1>. USE DEF Goto, Answer, Open, NoReq, RequestStates, Recorded,
            UpdateStatus, Live, Unrecorded, NoRow, Rows, AfterDial, Leftover,
            Reported, ConnectingIsOwned, StagesFit, RowsFit
<1>t. /\ row \in [Services -> Rows] /\ client \in [Services -> Clients]
      /\ req \in [Requests -> RequestStates] /\ check \in [Services -> Checks]
  BY Types
<1>. USE <1>t
<1>1. ASSUME NEW r \in Requests, Arrive(r) \/ Serve(r) \/ HangUp(r)
      PROVE  ConnectingIsOwned'
  <2>1. CASE SaveUpdate(r)
    <3>1. Ends(r)
      BY <2>1, GotoDoes, AnswerDoes DEF SaveUpdate
    <3>2. req[r].pc = "save"
      BY <2>1 DEF SaveUpdate
    <3>3. /\ UNCHANGED abandoned
          /\ \A s \in Services :
                row'[s] = row[s] \/ row'[s].status = "DISCONNECTED"
      BY <2>1 DEF SaveUpdate
    <3>. HIDE DEF RequestStates, Rows, Clients, Checks, NoReq, Goto, Answer
    <3>. QED BY <3>1, <3>2, <3>3 DEF MovesTo, Ends
  <2>2. CASE MarkConnecting(r) BY <2>2 DEF MarkConnecting
  <2>3. CASE Dial(r) BY <2>3 DEF Dial
  <2>4. CASE RecordConnected(r) BY <2>4 DEF RecordConnected
  <2>5. CASE RecordFailed(r) BY <2>5 DEF RecordFailed
  <2>6. CASE DropFailed(r)
    <3>1. Ends(r)
      BY <2>6, GotoDoes, AnswerDoes DEF DropFailed
    <3>2. req[r].pc = "drop"
      BY <2>6 DEF DropFailed
    <3>3. UNCHANGED <<row, abandoned>>
      BY <2>6 DEF DropFailed
    <3>. HIDE DEF RequestStates, Rows, Clients, Checks, NoReq, Goto, Answer
    <3>. QED BY <3>1, <3>2, <3>3 DEF MovesTo, Ends
  <2>7. CASE RecordDisconnected(r) BY <2>7 DEF RecordDisconnected
  <2>8. CASE CloseDeleted(r)
    <3>1. \/ MovesTo(r, "purge")
          \/ Ends(r)
      BY <2>8, GotoDoes, AnswerDoes DEF CloseDeleted
    <3>2. req[r].pc = "close"
      BY <2>8 DEF CloseDeleted
    <3>3. UNCHANGED <<row, abandoned>>
      BY <2>8 DEF CloseDeleted
    <3>. HIDE DEF RequestStates, Rows, Clients, Checks, NoReq, Goto, Answer
    <3>. QED BY <3>1, <3>2, <3>3 DEF MovesTo, Ends
  <2>9. CASE DeleteTools(r)
    <3>1. \/ MovesTo(r, "remove")
          \/ Ends(r)
      BY <2>9, GotoDoes, AnswerDoes DEF DeleteTools
    <3>2. req[r].pc = "purge"
      BY <2>9 DEF DeleteTools
    <3>3. UNCHANGED <<row, abandoned>>
      BY <2>9 DEF DeleteTools
    <3>. HIDE DEF RequestStates, Rows, Clients, Checks, NoReq, Goto, Answer
    <3>. QED BY <3>1, <3>2, <3>3 DEF MovesTo, Ends
  <2>10. CASE DeleteRow(r)
    <3>1. Ends(r)
      BY <2>10, GotoDoes, AnswerDoes DEF DeleteRow
    <3>2. req[r].pc = "remove"
      BY <2>10 DEF DeleteRow
    <3>3. /\ UNCHANGED abandoned
          /\ \A s \in Services :
                row'[s].state = "live" => row'[s] = row[s]
      BY <2>10 DEF DeleteRow
    <3>. HIDE DEF RequestStates, Rows, Clients, Checks, NoReq, Goto, Answer
    <3>. QED BY <3>1, <3>2, <3>3 DEF MovesTo, Ends
  <2>11. CASE Call(r)
    <3>1. \/ MovesTo(r, "normalize")
          \/ MovesTo(r, "upsert") /\ req[r].op = "sync"
          \/ Ends(r)
      BY <2>11, GotoDoes, AnswerDoes DEF Call
    <3>2. req[r].pc = "call"
      BY <2>11 DEF Call
    <3>3. UNCHANGED <<row, abandoned>>
      BY <2>11 DEF Call
    <3>. HIDE DEF RequestStates, Rows, Clients, Checks, NoReq, Goto, Answer
    <3>. QED BY <3>1, <3>2, <3>3 DEF MovesTo, Ends
  <2>12. CASE BatchUpsert(r) BY <2>12 DEF BatchUpsert
  <2>13. CASE normalizeToolActionError(r)
    <3>1. Ends(r)
      BY <2>13, GotoDoes, AnswerDoes DEF normalizeToolActionError
    <3>2. req[r].pc = "normalize"
      BY <2>13 DEF normalizeToolActionError
    <3>3. /\ UNCHANGED abandoned
          /\ \A s \in Services :
                row'[s] = row[s] \/ row'[s].status = "ERROR"
      BY <2>13 DEF normalizeToolActionError
    <3>. HIDE DEF RequestStates, Rows, Clients, Checks, NoReq, Goto, Answer
    <3>. QED BY <3>1, <3>2, <3>3 DEF MovesTo, Ends
  <2>14. CASE HangUp(r) BY <2>14 DEF HangUp
  <2>15. ASSUME NEW s \in Services, Create(r, s) PROVE ConnectingIsOwned'
    BY <2>15 DEF Create
  <2>16. ASSUME NEW s \in Services, Update(r, s) PROVE ConnectingIsOwned'
    BY <2>16 DEF Update
  <2>17. ASSUME NEW s \in Services, Delete(r, s) PROVE ConnectingIsOwned'
    BY <2>17 DEF Delete
  <2>18. ASSUME NEW s \in Services, Connect(r, s) PROVE ConnectingIsOwned'
    BY <2>18 DEF Connect
  <2>19. ASSUME NEW s \in Services, Disconnect(r, s) PROVE ConnectingIsOwned'
    <3>1. /\ UNCHANGED <<row, abandoned>> /\ req[r].pc = "idle"
          /\ \A q \in Requests \ {r} : req'[q] = req[q]
      BY <2>19 DEF Disconnect
    <3>. HIDE DEF RequestStates, Rows, Clients, Checks, NoReq, Open
    <3>. QED BY <3>1
  <2>20. ASSUME NEW s \in Services, Invoke(r, s) PROVE ConnectingIsOwned'
    <3>1. /\ UNCHANGED <<row, abandoned>> /\ req[r].pc = "idle"
          /\ \A q \in Requests \ {r} : req'[q] = req[q]
      BY <2>20 DEF Invoke
    <3>. HIDE DEF RequestStates, Rows, Clients, Checks, NoReq, Open
    <3>. QED BY <3>1
  <2>21. ASSUME NEW s \in Services, Sync(r, s) PROVE ConnectingIsOwned'
    <3>1. /\ UNCHANGED <<row, abandoned>> /\ req[r].pc = "idle"
          /\ \A q \in Requests \ {r} : req'[q] = req[q]
      BY <2>21 DEF Sync
    <3>. HIDE DEF RequestStates, Rows, Clients, Checks, NoReq, Open
    <3>. QED BY <3>1
  <2>. QED BY <1>1, <2>1, <2>2, <2>3, <2>4, <2>5, <2>6, <2>7, <2>8, <2>9,
              <2>10, <2>11, <2>12, <2>13, <2>14, <2>15, <2>16, <2>17, <2>18,
              <2>19, <2>20, <2>21 DEF Arrive, Manage, Operate, Use, Serve
<1>2. ASSUME NEW s \in Services, Check(s) \/ NetChanges(s)
      PROVE  ConnectingIsOwned'
  <2>1. CASE PingAnswered(s) BY <2>1 DEF PingAnswered
  <2>2. CASE PingFailed(s) BY <2>2 DEF PingFailed
  <2>3. CASE PingMissed(s) BY <2>3 DEF PingMissed
  <2>4. CASE PingExpired(s) BY <2>4 DEF PingExpired
  <2>5. CASE ApplyHealthState(s) BY <2>5 DEF ApplyHealthState
  <2>6. CASE UpdateRow(s) BY <2>6 DEF UpdateRow
  <2>7. CASE DropUnhealthy(s) BY <2>7 DEF DropUnhealthy
  <2>8. CASE NetChanges(s) BY <2>8 DEF NetChanges
  <2>. QED BY <1>2, <2>1, <2>2, <2>3, <2>4, <2>5, <2>6, <2>7, <2>8
              DEF Check, Ping
<1>3. CASE StartRound BY <1>3 DEF StartRound
<1>4. CASE Restart BY <1>4 DEF Restart, AtStart
<1>5. CASE UNCHANGED vars BY <1>5 DEF vars
<1>. QED BY <1>1, <1>2, <1>3, <1>4, <1>5 DEF Next

\* Nothing comes back after a deletion that was alone.
LEMMA DeletedIsCleanKeeps ==
    TypeOK /\ StagesFit /\ DeletingFits /\ DeletedFits /\ DeletedIsClean /\ [Next]_vars
        => DeletedIsClean'
<1>. SUFFICES ASSUME TypeOK, StagesFit, DeletingFits, DeletedFits,
            DeletedIsClean, [Next]_vars PROVE DeletedIsClean'
  OBVIOUS
<1>. USE DEF Goto, Answer, Open, NoReq, RequestStates, Recorded,
            UpdateStatus, Live, NoRow, Rows, Drop, NoClient, Clients,
            Leftover, Reported, MayGoOn, DeletedIsClean, Alone, Beside,
            DeletingFits, DeletedFits, StagesFit
<1>t. /\ row \in [Services -> Rows] /\ client \in [Services -> Clients]
      /\ req \in [Requests -> RequestStates] /\ check \in [Services -> Checks]
  BY Types
<1>. USE <1>t
<1>1. ASSUME NEW r \in Requests, Arrive(r) \/ Serve(r) \/ HangUp(r)
      PROVE  DeletedIsClean'
  <2>1. CASE SaveUpdate(r) BY <2>1 DEF SaveUpdate
  <2>2. CASE MarkConnecting(r) BY <2>2 DEF MarkConnecting
  <2>3. CASE Dial(r) BY <2>3 DEF Dial
  <2>4. CASE RecordConnected(r) BY <2>4 DEF RecordConnected
  <2>5. CASE RecordFailed(r) BY <2>5 DEF RecordFailed
  <2>6. CASE DropFailed(r) BY <2>6 DEF DropFailed
  <2>7. CASE RecordDisconnected(r) BY <2>7 DEF RecordDisconnected
  <2>8. CASE CloseDeleted(r)
    <3>1. \/ MovesTo(r, "purge")
          \/ Ends(r)
      BY <2>8, GotoDoes, AnswerDoes DEF CloseDeleted
    <3>2. req[r].pc = "close"
      BY <2>8 DEF CloseDeleted
    <3>3. /\ UNCHANGED row /\ UNCHANGED overlapped /\ tools' \subseteq tools
          /\ \A s \in Services : client'[s].there => client[s].there
      BY <2>8 DEF CloseDeleted
    <3>. HIDE DEF RequestStates, Rows, Clients, Checks, NoReq, Goto, Answer
    <3>. QED BY <3>1, <3>2, <3>3 DEF MovesTo, Ends
  <2>9. CASE DeleteTools(r)
    <3>1. \/ MovesTo(r, "remove")
          \/ Ends(r)
      BY <2>9, GotoDoes, AnswerDoes DEF DeleteTools
    <3>2. req[r].pc = "purge"
      BY <2>9 DEF DeleteTools
    <3>3. /\ UNCHANGED row /\ UNCHANGED overlapped /\ tools' \subseteq tools
          /\ \A s \in Services : client'[s].there => client[s].there
      BY <2>9 DEF DeleteTools
    <3>. HIDE DEF RequestStates, Rows, Clients, Checks, NoReq, Goto, Answer
    <3>. QED BY <3>1, <3>2, <3>3 DEF MovesTo, Ends
  <2>10. CASE DeleteRow(r) BY <2>10 DEF DeleteRow
  <2>11. CASE Call(r)
    <3>1. \/ MovesTo(r, "normalize")
          \/ MovesTo(r, "upsert") /\ req[r].op = "sync"
          \/ Ends(r)
      BY <2>11, GotoDoes, AnswerDoes DEF Call
    <3>2. req[r].pc = "call"
      BY <2>11 DEF Call
    <3>3. /\ UNCHANGED row /\ UNCHANGED overlapped /\ tools' \subseteq tools
          /\ \A s \in Services : client'[s].there => client[s].there
      BY <2>11 DEF Call
    <3>. HIDE DEF RequestStates, Rows, Clients, Checks, NoReq, Goto, Answer
    <3>. QED BY <3>1, <3>2, <3>3 DEF MovesTo, Ends
  <2>12. CASE BatchUpsert(r) BY <2>12 DEF BatchUpsert
  <2>13. CASE normalizeToolActionError(r) BY <2>13 DEF normalizeToolActionError
  <2>14. CASE HangUp(r) BY <2>14 DEF HangUp
  <2>15. ASSUME NEW s \in Services, Create(r, s) PROVE DeletedIsClean'
    BY <2>15 DEF Create
  <2>16. ASSUME NEW s \in Services, Update(r, s) PROVE DeletedIsClean'
    BY <2>16 DEF Update
  <2>17. ASSUME NEW s \in Services, Delete(r, s) PROVE DeletedIsClean'
    BY <2>17 DEF Delete
  <2>18. ASSUME NEW s \in Services, Connect(r, s) PROVE DeletedIsClean'
    BY <2>18 DEF Connect
  <2>19. ASSUME NEW s \in Services, Disconnect(r, s) PROVE DeletedIsClean'
    BY <2>19 DEF Disconnect
  <2>20. ASSUME NEW s \in Services, Invoke(r, s) PROVE DeletedIsClean'
    BY <2>20 DEF Invoke
  <2>21. ASSUME NEW s \in Services, Sync(r, s) PROVE DeletedIsClean' BY <2>21 DEF Sync
  <2>. QED BY <1>1, <2>1, <2>2, <2>3, <2>4, <2>5, <2>6, <2>7, <2>8, <2>9,
              <2>10, <2>11, <2>12, <2>13, <2>14, <2>15, <2>16, <2>17, <2>18,
              <2>19, <2>20, <2>21 DEF Arrive, Manage, Operate, Use, Serve
<1>2. ASSUME NEW s \in Services, Check(s) \/ NetChanges(s)
      PROVE  DeletedIsClean'
  <2>1. CASE PingAnswered(s) BY <2>1 DEF PingAnswered
  <2>2. CASE PingFailed(s) BY <2>2 DEF PingFailed
  <2>3. CASE PingMissed(s) BY <2>3 DEF PingMissed
  <2>4. CASE PingExpired(s) BY <2>4 DEF PingExpired
  <2>5. CASE ApplyHealthState(s) BY <2>5 DEF ApplyHealthState
  <2>6. CASE UpdateRow(s) BY <2>6 DEF UpdateRow
  <2>7. CASE DropUnhealthy(s) BY <2>7 DEF DropUnhealthy
  <2>8. CASE NetChanges(s) BY <2>8 DEF NetChanges
  <2>. QED BY <1>2, <2>1, <2>2, <2>3, <2>4, <2>5, <2>6, <2>7, <2>8
              DEF Check, Ping
<1>3. CASE StartRound BY <1>3 DEF StartRound
<1>4. CASE Restart BY <1>4 DEF Restart, AtStart
<1>5. CASE UNCHANGED vars BY <1>5 DEF vars
<1>. QED BY <1>1, <1>2, <1>3, <1>4, <1>5 DEF Next

-----------------------------------------------------------------------------
(* Theorems.                                                               *)

\* The initial state satisfies IInv.
LEMMA InitFits == Init => IInv
<1>. SUFFICES ASSUME Init PROVE IInv
  OBVIOUS
<1>1. TypeOK
  BY EmptyTyped DEF Init, TypeOK, Rows, Clients, RequestStates, Checks
<1>2. StagesFit /\ TriedFits /\ RowsFit
  BY DEF Init, StagesFit, TriedFits, RowsFit, NoReq, NoClient, NoCheck, NoRow
<1>3. DeletingFits /\ DeletedFits
  BY DEF Init, DeletingFits, DeletedFits, NoReq
<1>4. ClaimsAreOfThisRun /\ ConnectingIsOwned /\ DeletedIsClean
  BY DEF Init, ClaimsAreOfThisRun, ConnectingIsOwned, DeletedIsClean, Live, NoRow
<1>. QED BY <1>1, <1>2, <1>3, <1>4 DEF IInv

\* IInv is inductive: each part is kept by its own lemma.
LEMMA StepKeepsIInv == IInv /\ [Next]_vars => IInv'
<1>. SUFFICES ASSUME IInv, [Next]_vars PROVE IInv'
  OBVIOUS
<1>. USE DEF IInv
<1>1. TypeOK'
  <2>1. /\ row' \in [Services -> Rows] /\ client' \in [Services -> Clients]
        /\ req' \in [Requests -> RequestStates] /\ check' \in [Services -> Checks]
        /\ RestOK'
    BY RowTyped, ClientTyped, ReqTyped, CheckTyped, RestTyped
  <2>. QED BY <2>1 DEF TypeOK, RestOK, Rows, Clients, RequestStates, Checks
<1>2. StagesFit' BY StagesFitKeeps
<1>3. TriedFits' BY TriedFitsKeeps
<1>4. RowsFit' BY RowsFitKeeps
<1>5. DeletingFits' BY DeletingFitsKeeps
<1>6. DeletedFits' BY DeletedFitsKeeps
<1>7. ClaimsAreOfThisRun' BY ClaimsAreOfThisRunKeeps
<1>8. ConnectingIsOwned' BY ConnectingIsOwnedKeeps
<1>9. DeletedIsClean' BY DeletedIsCleanKeeps
<1>. QED BY <1>1, <1>2, <1>3, <1>4, <1>5, <1>6, <1>7, <1>8, <1>9

\* In every reachable state the variables have their types, and the stage of
\* each request and check implies what IInv says of its service.
THEOREM Invariant == Spec => []IInv
<1>1. Init => IInv
  BY InitFits
<1>2. IInv /\ [Next]_vars => IInv'
  BY StepKeepsIInv
<1>. QED BY <1>1, <1>2, PTL DEF Spec

\* The variables have their types in every reachable state.
THEOREM TypeCorrect == Spec => []TypeOK
BY Invariant, PTL DEF IInv

\* Where processes reset the rows at their start (startup_reconcile), no row
\* claims a connection that the process which runs has not tried, wherever the
\* last one ended.
THEOREM ClaimsHold == Spec => []ClaimsAreOfThisRun
BY Invariant, PTL DEF IInv

\* Where processes reset the rows at their start, a row that reads CONNECTING has
\* a Connect that will write its result, or the caller of the last one has hung
\* up.
THEOREM ConnectingEnds == Spec => []ConnectingIsOwned
BY Invariant, PTL DEF IInv

\* Delete leaves no connection and no tools unless it met another request.
THEOREM DeletionIsComplete == Spec => []DeletedIsClean
BY Invariant, PTL DEF IInv
===============================================================================
