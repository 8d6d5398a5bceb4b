-------------------------- MODULE RemoteRuntimeProofs --------------------------
(***************************************************************************)
(* The safety of RemoteRuntime for any number of requests, any lifetime of *)
(* snapshots and any timeout: how old a status can be wherever it is on    *)
(* its way, and what a Delete knows of the connection at each of its steps.*)
(***************************************************************************)
EXTENDS RemoteRuntime, TLAPS

USE RemoteConstants

-----------------------------------------------------------------------------
(* The inductive invariant.                                                *)

\* The control plane dates a status at most a timeout after it was read.
Dated(p) == p.seen <= p.saved + Timeout
AgesFit ==
    /\ Dated(snap.read)
    /\ \A r \in Requests : Dated(req[r].read)
    /\ \A x \in Slots : Dated(job[x].read)

\* The executor's side of a request that its caller waits for.
JobsFit ==
    \A r \in Requests : job[r].pc # "none" =>
        /\ req[r].pc = "wait" /\ job[r].op = req[r].op
        /\ job[r].read.seen <= req[r].wait

\* Only a Delete goes on to the row, and it saves nothing before.
StepsFit ==
    /\ \A r \in Requests : req[r].pc = "row" => req[r].op = "delete"
    /\ \A x \in Slots : job[x].pc = "save" => job[x].op # "delete"

\* The executor has told a Delete, or is about to, that there is no connection.
ToldGone(x) ==
    /\ job[x].op = "delete"
    /\ \/ job[x].pc = "drop"
       \/ job[x].pc = "reply" /\ job[x].result # "failed"

\* Until a Connect and a Delete have crossed, they are not at work together, and
\* a deleted service has no connection and nobody makes one.
Apart ==
    ~crossed => /\ ~(AtWork("delete") /\ AtWork("connect"))
                /\ deleted => ~AtWork("connect") /\ ~client

\* Until then a Delete that goes on is right: there is no connection.
KnownGone ==
    ~crossed =>
        /\ \A r \in Requests : req[r].op = "delete" /\ req[r].pc \in {"drop", "row"} => ~client
        /\ \A x \in Slots : ToldGone(x) => ~client

IInv == TypeOK /\ AgesFit /\ JobsFit /\ StepsFit /\ Apart /\ KnownGone

-----------------------------------------------------------------------------
(* Records of the two sides, and what the operators make of them.          *)

ReqRecs == [pc : {"idle", "send", "wait", "save", "drop", "row", "fallback"},
            op : Ops, wait : 0 .. Timeout, read : Reads]
JobRecs == [pc : {"none", "call", "save", "drop", "reply"}, op : Ops,
            read : Reads, result : {"ok", "gone", "failed"}]
Snaps == [read : Reads, left : 0 .. TTL]

\* The type invariant with the sets of records by their names.
LEMMA Types ==
    TypeOK <=> /\ deleted \in BOOLEAN /\ up \in BOOLEAN /\ client \in BOOLEAN
               /\ crossed \in BOOLEAN /\ refused \in BOOLEAN
               /\ snap \in Snaps
               /\ req \in [Requests -> ReqRecs]
               /\ job \in [Slots -> JobRecs]
BY DEF TypeOK, ReqRecs, JobRecs, Snaps

\* What a status is made of, and that it stays one as it gets older.
LEMMA ReadsTyped ==
    /\ NoStatus \in Reads /\ Read(TRUE) \in Reads
    /\ client \in BOOLEAN => Read(client) \in Reads
    /\ \A p \in Reads : Older(p) \in Reads /\ Observed(p) \in Reads
<1>s. Stale \in Nat /\ Stale > 0 BY DEF Stale
<1>1. NoStatus \in Reads BY <1>s DEF NoStatus, Reads
<1>2. Read(TRUE) \in Reads BY <1>1 DEF Reads, Read
<1>3. client \in BOOLEAN => Read(client) \in Reads BY <1>1 DEF Reads, Read
<1>4. ASSUME NEW p \in Reads PROVE Older(p) \in Reads
  <2>1. p.seen \in 0 .. Stale /\ p.saved \in 0 .. Stale BY DEF Reads
  <2>2. Age(p.seen) \in 0 .. Stale /\ Age(p.saved) \in 0 .. Stale BY <1>s, <2>1 DEF Age
  <2>. QED BY <2>2 DEF Older, Reads
<1>5. ASSUME NEW p \in Reads PROVE Observed(p) \in Reads BY <1>s DEF Reads, Observed
<1>. QED BY <1>1, <1>2, <1>3, <1>4, <1>5

\* What is made of a status keeps its date.
LEMMA ReadsDated ==
    /\ Dated(NoStatus) /\ Dated(Read(TRUE)) /\ Dated(Read(client))
    /\ NoStatus.seen = 0 /\ Read(TRUE).seen = 0 /\ Read(client).seen = 0
    /\ \A p \in Reads : /\ Dated(p) => Dated(Older(p))
                        /\ p.seen <= Timeout => Dated(Observed(p))
                        /\ Older(p).seen <= p.seen + 1
<1>1. /\ Dated(NoStatus) /\ Dated(Read(TRUE)) /\ Dated(Read(client))
      /\ NoStatus.seen = 0 /\ Read(TRUE).seen = 0 /\ Read(client).seen = 0
  BY DEF NoStatus, Dated, Read
<1>2. ASSUME NEW p \in Reads
      PROVE  Older(p).seen <= p.seen + 1 /\ (Dated(p) => Dated(Older(p)))
  <2>1. CASE ~p.is BY <2>1 DEF Older, Reads
  <2>2. CASE p.is
    <3>1. Older(p).seen = Age(p.seen) /\ Older(p).saved = Age(p.saved)
      BY <2>2 DEF Older, Reads
    <3>2. p.seen \in 0 .. Stale /\ p.saved \in 0 .. Stale
      BY DEF Reads
    <3>3. p.seen <= p.saved + Timeout => Age(p.seen) <= Age(p.saved) + Timeout
      BY <3>2 DEF Age, Stale
    <3>4. Age(p.seen) <= p.seen + 1 BY <3>2 DEF Age, Stale
    <3>. QED BY <3>1, <3>3, <3>4 DEF Dated
  <2>. QED BY <2>1, <2>2
<1>3. ASSUME NEW p \in Reads, p.seen <= Timeout PROVE Dated(Observed(p))
  BY <1>3 DEF Reads, Dated, Observed
<1>. QED BY <1>1, <1>2, <1>3

\* The records that requests and jobs are made of.
LEMMA RecordsTyped ==
    /\ NoReq \in ReqRecs /\ NoReq.pc = "idle" /\ NoReq.op = "status"
    /\ NoReq.wait = 0 /\ NoReq.read = NoStatus
    /\ NoJob \in JobRecs /\ NoJob.pc = "none" /\ NoJob.read = NoStatus
    /\ NoSnap \in Snaps /\ NoSnap.read = NoStatus
    /\ \A p \in Reads : Stored(p) \in Snaps /\ Stored(p).read = p
<1>1. NoReq \in ReqRecs /\ NoJob \in JobRecs
  BY ReadsTyped DEF NoReq, NoJob, ReqRecs, JobRecs, Ops
<1>2. NoSnap \in Snaps /\ \A p \in Reads : Stored(p) \in Snaps
  BY ReadsTyped DEF NoSnap, Snaps, Stored
<1>. QED BY <1>1, <1>2 DEF NoReq, NoJob, NoSnap, Stored

\* A request that has its answer takes one of the ways of Resume.
LEMMA ResumeDoes ==
    ASSUME TypeOK, NEW r \in Requests, NEW result, NEW p \in Reads, Resume(r, result, p)
    PROVE  \E n \in ReqRecs :
             /\ req' = [req EXCEPT ![r] = n]
             /\ n.pc # "wait" /\ n.wait = 0
             /\ n.read = NoStatus \/ n.read = Observed(p)
             /\ n.pc \in {"drop", "row"} =>
                    n.op = req[r].op /\ req[r].op # "connect" /\ MayGoOn(result)
             /\ n.pc = "row" => n.op = "delete"
             /\ n.pc = "idle" \/ n.op = req[r].op \/ n.op = "undo" \/ n.op = "status"
<1>. DEFINE o == req[r].op
            n1 == [NoReq EXCEPT !.pc = "save", !.op = o, !.read = Observed(p)]
            n2 == [NoReq EXCEPT !.pc = "send", !.op = "undo"]
            n3 == [NoReq EXCEPT !.pc = "fallback"]
            n4 == [NoReq EXCEPT !.pc = "drop", !.op = o]
            n5 == [NoReq EXCEPT !.pc = "row", !.op = o]
<1>1. o \in Ops BY Types DEF ReqRecs
<1>2. /\ n1 \in ReqRecs /\ n1.pc = "save" /\ n1.op = o /\ n1.wait = 0
      /\ n1.read = Observed(p)
  BY <1>1, ReadsTyped, RecordsTyped DEF ReqRecs
<1>3. /\ n2 \in ReqRecs /\ n2.pc = "send" /\ n2.op = "undo" /\ n2.wait = 0
      /\ n2.read = NoStatus
  BY RecordsTyped DEF ReqRecs, Ops
<1>4. /\ n3 \in ReqRecs /\ n3.pc = "fallback" /\ n3.op = "status" /\ n3.wait = 0
      /\ n3.read = NoStatus
  BY RecordsTyped DEF ReqRecs
<1>5. /\ n4 \in ReqRecs /\ n4.pc = "drop" /\ n4.op = o /\ n4.wait = 0
      /\ n4.read = NoStatus
  BY <1>1, RecordsTyped DEF ReqRecs
<1>6. /\ n5 \in ReqRecs /\ n5.pc = "row" /\ n5.op = o /\ n5.wait = 0
      /\ n5.read = NoStatus
  BY <1>1, RecordsTyped DEF ReqRecs
<1>7. \/ req' = [req EXCEPT ![r] = n1]
      \/ req' = [req EXCEPT ![r] = n2]
      \/ req' = [req EXCEPT ![r] = n3]
      \/ o \in {"disconnect", "delete"} /\ result = "ok" /\ req' = [req EXCEPT ![r] = n4]
      \/ o = "delete" /\ MayGoOn(result) /\ req' = [req EXCEPT ![r] = n5]
      \/ req' = [req EXCEPT ![r] = NoReq]
  BY DEF Resume, Finish
<1>8. CASE req' = [req EXCEPT ![r] = n1]
  <2>. HIDE DEF n1
  <2>. QED BY <1>2, <1>8
<1>9. CASE req' = [req EXCEPT ![r] = n2]
  <2>. HIDE DEF n2
  <2>. QED BY <1>3, <1>9
<1>10. CASE req' = [req EXCEPT ![r] = n3]
  <2>. HIDE DEF n3
  <2>. QED BY <1>4, <1>10
<1>11. CASE o \in {"disconnect", "delete"} /\ result = "ok" /\ req' = [req EXCEPT ![r] = n4]
  <2>. HIDE DEF n4
  <2>. QED BY <1>5, <1>11 DEF MayGoOn
<1>12. CASE o = "delete" /\ MayGoOn(result) /\ req' = [req EXCEPT ![r] = n5]
  <2>. HIDE DEF n5
  <2>. QED BY <1>6, <1>12
<1>13. CASE req' = [req EXCEPT ![r] = NoReq]
  BY <1>13, RecordsTyped DEF NoReq
<1>. QED BY <1>7, <1>8, <1>9, <1>10, <1>11, <1>12, <1>13

\* A request that is done, or goes on to its next step.
LEMMA GotoDoes ==
    ASSUME TypeOK, NEW r \in Requests, NEW pc \in {"wait", "row"}, Goto(r, pc)
    PROVE  \E n \in ReqRecs : /\ req' = [req EXCEPT ![r] = n]
                              /\ n.pc = pc /\ n.op = req[r].op
                              /\ n.wait = req[r].wait /\ n.read = req[r].read
<1>. DEFINE n == [req[r] EXCEPT !.pc = pc]
<1>1. req[r] \in ReqRecs BY Types
<1>2. n \in ReqRecs /\ n.pc = pc /\ n.op = req[r].op /\ n.wait = req[r].wait
      /\ n.read = req[r].read
  BY <1>1 DEF ReqRecs
<1>3. req' = [req EXCEPT ![r] = n] BY DEF Goto
<1>. QED BY <1>2, <1>3

\* The executor answers, unless nobody waits, or goes on to keep the snapshot.
LEMMA AnsweredDoes ==
    ASSUME TypeOK, NEW x \in Slots, NEW result \in {"ok", "gone", "failed"}, NEW p \in Reads
    PROVE  \E m \in JobRecs :
             /\ Answered(x, result, p) = [job EXCEPT ![x] = m]
             /\ m.pc \in {"none", "reply"} /\ m.read \in {NoStatus, p}
             /\ m.pc = "reply" => x # Late /\ m.op = job[x].op /\ m.result = result
<1>1. job[x] \in JobRecs BY Types
<1>2. CASE x = Late
  BY <1>2, RecordsTyped DEF Answered, NoJob
<1>3. CASE x # Late
  <2>. DEFINE m == [job[x] EXCEPT !.pc = "reply", !.result = result, !.read = p]
  <2>1. /\ m \in JobRecs /\ m.pc = "reply" /\ m.read = p
        /\ m.op = job[x].op /\ m.result = result
    BY <1>1 DEF JobRecs
  <2>2. Answered(x, result, p) = [job EXCEPT ![x] = m] BY <1>3 DEF Answered
  <2>. QED BY <1>3, <2>1, <2>2
<1>. QED BY <1>2, <1>3

\* A handler that goes on with a read changes its own record only.
LEMMA ContinuedDoes ==
    ASSUME TypeOK, NEW x \in Slots, NEW pc \in {"save", "drop"}, NEW p \in Reads
    PROVE  \E m \in JobRecs :
             /\ Continued(x, pc, p) = [job EXCEPT ![x] = m]
             /\ m.pc = pc /\ m.read = p /\ m.op = job[x].op
<1>. DEFINE m == [job[x] EXCEPT !.pc = pc, !.read = p]
<1>1. job[x] \in JobRecs BY Types
<1>2. m \in JobRecs /\ m.pc = pc /\ m.read = p /\ m.op = job[x].op
  BY <1>1 DEF JobRecs
<1>3. Continued(x, pc, p) = [job EXCEPT ![x] = m] BY DEF Continued
<1>. QED BY <1>2, <1>3

-----------------------------------------------------------------------------
(* What each action makes of the two sides, record by record.              *)

\* A request is sent, to an executor that may be down.
LEMMA SendDoes ==
    ASSUME TypeOK, NEW r \in Requests, Send(r)
    PROVE  \E n \in ReqRecs, m \in JobRecs :
             /\ req[r].pc = "send" /\ req' = [req EXCEPT ![r] = n]
             /\ n.pc = "wait" /\ n.op = req[r].op /\ n.read = req[r].read
             /\ job' = job \/ job' = [job EXCEPT ![r] = m]
             /\ m.pc = "call" /\ m.op = req[r].op /\ m.read = NoStatus
<1>1. PICK n \in ReqRecs : /\ req' = [req EXCEPT ![r] = n]
                           /\ n.pc = "wait" /\ n.op = req[r].op /\ n.read = req[r].read
  <2>1. Goto(r, "wait") BY DEF Send
  <2>. QED BY <2>1, GotoDoes
<1>. DEFINE m == [NoJob EXCEPT !.pc = "call", !.op = req[r].op]
<1>2. m \in JobRecs /\ m.pc = "call" /\ m.op = req[r].op /\ m.read = NoStatus
  BY RecordsTyped, Types DEF ReqRecs, JobRecs
<1>3. job' = job \/ job' = [job EXCEPT ![r] = m] BY DEF Send
<1>. QED BY <1>1, <1>2, <1>3 DEF Send

\* A caller gets the answer.
LEMMA ReceiveDoes ==
    ASSUME TypeOK, NEW r \in Requests, Receive(r)
    PROVE  \E n \in ReqRecs :
             /\ req[r].pc = "wait" /\ job[r].pc = "reply"
             /\ req' = [req EXCEPT ![r] = n] /\ job' = [job EXCEPT ![r] = NoJob]
             /\ n.pc # "wait" /\ n.wait = 0
             /\ n.read = NoStatus \/ n.read = Observed(job[r].read)
             /\ n.pc \in {"drop", "row"} =>
                    n.op = req[r].op /\ req[r].op # "connect" /\ job[r].result = "ok"
             /\ n.pc = "row" => n.op = "delete"
             /\ n.pc = "idle" \/ n.op = req[r].op \/ n.op = "undo" \/ n.op = "status"
<1>1. job[r].read \in Reads /\ job[r].result \in {"ok", "gone", "failed"}
  BY Types DEF JobRecs, Slots
<1>2. MayGoOn(EndpointError(job[r].result)) => job[r].result = "ok"
  BY <1>1 DEF MayGoOn, EndpointError
<1>3. Resume(r, EndpointError(job[r].result), job[r].read) BY DEF Receive
<1>. QED BY <1>1, <1>2, <1>3, ResumeDoes DEF Receive

\* A caller gives up.
LEMMA LoseDoes ==
    ASSUME TypeOK, NEW r \in Requests, Lose(r)
    PROVE  \E n \in ReqRecs :
             /\ req[r].pc = "wait"
             /\ req' = [req EXCEPT ![r] = n]
             /\ \/ job' = [job EXCEPT ![r] = NoJob]
                \/ job' = [job EXCEPT ![Late] = job[r], ![r] = NoJob]
             /\ n.pc \notin {"wait", "drop", "row"} /\ n.wait = 0 /\ Dated(n.read)
             /\ n.pc = "idle" \/ n.op = req[r].op \/ n.op = "undo" \/ n.op = "status"
<1>1. Resume(r, "lost", NoStatus) /\ ~MayGoOn("lost") BY DEF Lose, MayGoOn
<1>2. Dated(NoStatus) /\ Dated(Observed(NoStatus))
  BY ReadsTyped, ReadsDated
<1>. QED BY <1>1, <1>2, ReadsTyped, ResumeDoes DEF Lose

\* A request begins.
LEMMA BeginDoes ==
    ASSUME TypeOK, NEW r \in Requests, NEW op \in Ops, Begin(r, op)
    PROVE  \E n \in ReqRecs :
             /\ req[r].pc = "idle" /\ req' = [req EXCEPT ![r] = n]
             /\ n.pc = "send" /\ n.op = op /\ n.read = NoStatus
<1>. DEFINE n == [NoReq EXCEPT !.pc = "send", !.op = op]
<1>1. n \in ReqRecs /\ n.pc = "send" /\ n.op = op /\ n.read = NoStatus
  BY RecordsTyped DEF ReqRecs
<1>. QED BY <1>1 DEF Begin

\* A call at the executor, and what it leaves to be kept.
LEMMA HandleDoes ==
    ASSUME TypeOK, NEW x \in Slots,
           \/ HandleConnect(x) \/ HandleDisconnect(x)
           \/ HandleStatus(x) \/ HandleUse(x)
    PROVE  \E m \in JobRecs :
             /\ job[x].pc = "call" /\ job' = [job EXCEPT ![x] = m]
             /\ m.pc \in {"none", "reply", "save", "drop"}
             /\ m.pc = "none" \/ m.op = job[x].op
             /\ m.read.seen = 0 /\ Dated(m.read)
             /\ m.pc = "none" \/ x # Late \/ m.pc \in {"save", "drop"}
             /\ m.pc = "save" => m.op # "delete"
             /\ job[x].op = "delete" =>
                    \/ m.pc = "none" \/ ~client'
                    \/ m.pc = "reply" /\ m.result = "failed"
             /\ client' => client \/ job[x].op = "connect"
<1>t. client \in BOOLEAN BY Types
<1>r. NoStatus \in Reads /\ Read(TRUE) \in Reads /\ Read(client) \in Reads
  BY <1>t, ReadsTyped
<1>d. /\ Dated(NoStatus) /\ Dated(Read(TRUE)) /\ Dated(Read(client))
      /\ NoStatus.seen = 0 /\ Read(TRUE).seen = 0 /\ Read(client).seen = 0
  BY ReadsDated
<1>1. CASE HandleConnect(x)
  <2>1. CASE client'
    <3>1. job' = Continued(x, "save", Read(TRUE))
      BY <1>1, <2>1 DEF HandleConnect
    <3>2. PICK m \in JobRecs :
              /\ job' = [job EXCEPT ![x] = m]
              /\ m.pc = "save" /\ m.read = Read(TRUE) /\ m.op = job[x].op
      <4>. DEFINE p == Read(TRUE)
      <4>1. p \in Reads /\ job' = Continued(x, "save", p)
        BY <1>r, <3>1
      <4>. HIDE DEF p
      <4>2. \E m \in JobRecs : /\ job' = [job EXCEPT ![x] = m]
                              /\ m.pc = "save" /\ m.read = p /\ m.op = job[x].op
        BY <4>1, ContinuedDoes
      <4>. QED BY <4>2 DEF p
    <3>. QED BY <1>t, <1>d, <1>1, <3>1, <3>2 DEF HandleConnect
  <2>2. CASE ~client'
    <3>1. job' = Answered(x, "failed", NoStatus)
      BY <1>1, <2>2 DEF HandleConnect
    <3>2. PICK m \in JobRecs :
              /\ job' = [job EXCEPT ![x] = m]
              /\ m.pc \in {"none", "reply"} /\ m.read \in {NoStatus, NoStatus}
              /\ m.pc = "reply" => x # Late /\ m.op = job[x].op /\ m.result = "failed"
      BY <1>r, <3>1, AnsweredDoes
    <3>. QED BY <1>t, <1>d, <1>1, <2>2, <3>1, <3>2 DEF HandleConnect
  <2>. QED BY <2>1, <2>2
<1>2. CASE HandleDisconnect(x)
  <2>1. CASE ~client /\ client' = client /\ job' = Answered(x, "gone", NoStatus)
    <3>1. job' = Answered(x, "gone", NoStatus)
      BY <2>1
    <3>2. PICK m \in JobRecs :
              /\ job' = [job EXCEPT ![x] = m]
              /\ m.pc \in {"none", "reply"} /\ m.read \in {NoStatus, NoStatus}
              /\ m.pc = "reply" => x # Late /\ m.op = job[x].op /\ m.result = "gone"
      BY <1>r, <3>1, AnsweredDoes
    <3>. QED BY <1>t, <1>d, <1>2, <2>1, <3>1, <3>2 DEF HandleDisconnect
  <2>2. CASE client /\ client' = client /\ job' = Answered(x, "failed", NoStatus)
    <3>1. job' = Answered(x, "failed", NoStatus)
      BY <2>2
    <3>2. PICK m \in JobRecs :
              /\ job' = [job EXCEPT ![x] = m]
              /\ m.pc \in {"none", "reply"} /\ m.read \in {NoStatus, NoStatus}
              /\ m.pc = "reply" => x # Late /\ m.op = job[x].op /\ m.result = "failed"
      BY <1>r, <3>1, AnsweredDoes
    <3>. QED BY <1>t, <1>d, <1>2, <2>2, <3>1, <3>2 DEF HandleDisconnect
  <2>3. CASE client /\ client' = FALSE /\ job' = Continued(x, "drop", NoStatus)
    <3>1. job' = Continued(x, "drop", NoStatus)
      BY <2>3
    <3>2. PICK m \in JobRecs :
              /\ job' = [job EXCEPT ![x] = m]
              /\ m.pc = "drop" /\ m.read = NoStatus /\ m.op = job[x].op
      BY <1>r, <3>1, ContinuedDoes
    <3>. QED BY <1>t, <1>d, <1>2, <2>3, <3>1, <3>2 DEF HandleDisconnect
  <2>. QED BY <1>2, <2>1, <2>2, <2>3 DEF HandleDisconnect
<1>3. CASE HandleStatus(x)
  <2>1. CASE client
    <3>1. job' = Continued(x, "save", Read(client))
      BY <1>3, <2>1 DEF HandleStatus
    <3>2. PICK m \in JobRecs :
              /\ job' = [job EXCEPT ![x] = m]
              /\ m.pc = "save" /\ m.read = Read(client) /\ m.op = job[x].op
      BY <1>r, <3>1, ContinuedDoes
    <3>. QED BY <1>t, <1>d, <1>3, <3>1, <3>2 DEF HandleStatus
  <2>2. CASE ~client
    <3>1. job' = Answered(x, "ok", NoStatus)
      BY <1>3, <2>2 DEF HandleStatus
    <3>2. PICK m \in JobRecs :
              /\ job' = [job EXCEPT ![x] = m]
              /\ m.pc \in {"none", "reply"} /\ m.read \in {NoStatus, NoStatus}
              /\ m.pc = "reply" => x # Late /\ m.op = job[x].op /\ m.result = "ok"
      BY <1>r, <3>1, AnsweredDoes
    <3>. QED BY <1>t, <1>d, <1>3, <3>1, <3>2 DEF HandleStatus
  <2>. QED BY <2>1, <2>2
<1>4. CASE HandleUse(x)
  <2>1. CASE client
    <3>1. job' = Continued(x, "save", Read(client))
      BY <1>4, <2>1 DEF HandleUse
    <3>2. PICK m \in JobRecs :
              /\ job' = [job EXCEPT ![x] = m]
              /\ m.pc = "save" /\ m.read = Read(client) /\ m.op = job[x].op
      BY <1>r, <3>1, ContinuedDoes
    <3>. QED BY <1>t, <1>d, <1>4, <3>1, <3>2 DEF HandleUse
  <2>2. CASE ~client
    <3>1. job' = Answered(x, "gone", NoStatus)
      BY <1>4, <2>2 DEF HandleUse
    <3>2. PICK m \in JobRecs :
              /\ job' = [job EXCEPT ![x] = m]
              /\ m.pc \in {"none", "reply"} /\ m.read \in {NoStatus, NoStatus}
              /\ m.pc = "reply" => x # Late /\ m.op = job[x].op /\ m.result = "gone"
      BY <1>r, <3>1, AnsweredDoes
    <3>. QED BY <1>t, <1>d, <1>4, <3>1, <3>2 DEF HandleUse
  <2>. QED BY <2>1, <2>2
<1>. QED BY <1>1, <1>2, <1>3, <1>4

\* The executor has kept the snapshot, or tried to.
LEMMA PersistDoes ==
    ASSUME TypeOK, NEW x \in Slots, Persist(x)
    PROVE  \E m \in JobRecs :
             /\ job[x].pc \in {"save", "drop"} /\ job' = [job EXCEPT ![x] = m]
             /\ m.pc \in {"none", "reply"} /\ m.read \in {NoStatus, job[x].read}
             /\ m.pc = "none" \/ x # Late
             /\ m.pc = "none" \/ m.op = job[x].op
<1>1. job[x].read \in Reads BY Types DEF JobRecs
<1>2. PICK m \in JobRecs :
         /\ Answered(x, "ok", job[x].read) = [job EXCEPT ![x] = m]
         /\ m.pc \in {"none", "reply"} /\ m.read \in {NoStatus, job[x].read}
         /\ m.pc = "reply" => x # Late /\ m.op = job[x].op
  <2>. DEFINE p == job[x].read
  <2>. HIDE DEF p
  <2>1. \E m \in JobRecs :
           /\ Answered(x, "ok", p) = [job EXCEPT ![x] = m]
           /\ m.pc \in {"none", "reply"} /\ m.read \in {NoStatus, p}
           /\ m.pc = "reply" => x # Late /\ m.op = job[x].op
    <3>1. p \in Reads
      BY <1>1 DEF p
    <3>. QED BY <3>1, AnsweredDoes
  <2>. QED BY <2>1 DEF p
<1>. QED BY <1>2 DEF Persist

-----------------------------------------------------------------------------
(* The parts of the inductive invariant, one after the other.              *)

\* What every step makes of the requests.
LEMMA ReqStep ==
    TypeOK /\ [Next]_vars => req' \in [Requests -> ReqRecs]
<1>. SUFFICES ASSUME TypeOK, [Next]_vars PROVE req' \in [Requests -> ReqRecs]
  OBVIOUS
<1>t. /\ deleted \in BOOLEAN /\ up \in BOOLEAN /\ client \in BOOLEAN
      /\ crossed \in BOOLEAN /\ refused \in BOOLEAN /\ snap \in Snaps
      /\ req \in [Requests -> ReqRecs] /\ job \in [Slots -> JobRecs]
  BY Types
<1>r. NoReq \in ReqRecs /\ NoJob \in JobRecs /\ NoSnap \in Snaps
  BY RecordsTyped
<1>s. Late \in Slots /\ \A r \in Requests : r \in Slots
  BY DEF Slots
<1>. USE <1>t, <1>r, <1>s
<1>1. ASSUME NEW r \in Requests, Control(r)
      PROVE  req' \in [Requests -> ReqRecs]
  <2>1. CASE Send(r) BY <2>1, SendDoes
  <2>2. CASE Receive(r) BY <2>2, ReceiveDoes
  <2>3. CASE Lose(r) BY <2>3, LoseDoes
  <2>4. CASE Save(r) BY <2>4 DEF Save, Finish
  <2>5. CASE DropSnapshot(r)
    <3>1. CASE Goto(r, "row")
      BY <3>1, GotoDoes
    <3>2. CASE Finish(r)
      BY <3>2 DEF Finish
    <3>. QED BY <2>5, <3>1, <3>2 DEF DropSnapshot
  <2>6. CASE DeleteRow(r) BY <2>6 DEF DeleteRow, Finish
  <2>7. CASE Fallback(r) BY <2>7 DEF Fallback, Finish
  <2>8. ASSUME NEW op \in Ops \ {"undo"}, Begin(r, op)
        PROVE  req' \in [Requests -> ReqRecs]
    BY <2>8, BeginDoes
  <2>. QED BY <1>1, <2>1, <2>2, <2>3, <2>4, <2>5, <2>6, <2>7, <2>8 DEF Control
<1>2. ASSUME NEW x \in Slots, Execute(x)
      PROVE  req' \in [Requests -> ReqRecs]
  <2>1. CASE HandleConnect(x) BY <2>1 DEF HandleConnect
  <2>2. CASE HandleDisconnect(x) BY <2>2 DEF HandleDisconnect
  <2>3. CASE HandleStatus(x) BY <2>3 DEF HandleStatus
  <2>4. CASE HandleUse(x) BY <2>4 DEF HandleUse
  <2>5. CASE Persist(x) BY <2>5 DEF Persist
  <2>. QED BY <1>2, <2>1, <2>2, <2>3, <2>4, <2>5 DEF Execute
<1>3. CASE Tick
  <2>1. ASSUME NEW r \in Requests
        PROVE  [req[r] EXCEPT !.read = Older(@),
                               !.wait = IF req[r].pc = "wait" THEN @ + 1 ELSE 0] \in ReqRecs
    <3>1. req[r] \in ReqRecs /\ req[r].wait < Timeout /\ Older(req[r].read) \in Reads
      BY <1>3, ReadsTyped DEF Tick, ReqRecs
    <3>. DEFINE w == IF req[r].pc = "wait" THEN req[r].wait + 1 ELSE 0
                p == Older(req[r].read)
    <3>2. w \in 0 .. Timeout
      BY <3>1 DEF ReqRecs
    <3>. HIDE DEF w, p
    <3>3. [req[r] EXCEPT !.read = p, !.wait = w] \in ReqRecs
      BY <3>1, <3>2 DEF p, ReqRecs
    <3>. QED BY <3>3 DEF p, w
  <2>. QED BY <1>3, <2>1 DEF Tick
<1>4. CASE DropUnhealthy BY <1>4 DEF DropUnhealthy
<1>5. CASE Crash BY <1>5 DEF Crash
<1>6. CASE Restart BY <1>6 DEF Restart
<1>7. CASE UNCHANGED vars BY <1>7 DEF vars
<1>. QED BY <1>1, <1>2, <1>3, <1>4, <1>5, <1>6, <1>7 DEF Next

\* What every step makes of the jobs of the executor.
LEMMA JobStep ==
    TypeOK /\ [Next]_vars => job' \in [Slots -> JobRecs]
<1>. SUFFICES ASSUME TypeOK, [Next]_vars PROVE job' \in [Slots -> JobRecs]
  OBVIOUS
<1>t. /\ deleted \in BOOLEAN /\ up \in BOOLEAN /\ client \in BOOLEAN
      /\ crossed \in BOOLEAN /\ refused \in BOOLEAN /\ snap \in Snaps
      /\ req \in [Requests -> ReqRecs] /\ job \in [Slots -> JobRecs]
  BY Types
<1>r. NoReq \in ReqRecs /\ NoJob \in JobRecs /\ NoSnap \in Snaps
  BY RecordsTyped
<1>s. Late \in Slots /\ \A r \in Requests : r \in Slots
  BY DEF Slots
<1>. USE <1>t, <1>r, <1>s
<1>1. ASSUME NEW r \in Requests, Control(r)
      PROVE  job' \in [Slots -> JobRecs]
  <2>1. CASE Send(r) BY <2>1, SendDoes
  <2>2. CASE Receive(r) BY <2>2, ReceiveDoes
  <2>3. CASE Lose(r) BY <2>3, LoseDoes
  <2>4. CASE Save(r) BY <2>4 DEF Save
  <2>5. CASE DropSnapshot(r) BY <2>5 DEF DropSnapshot
  <2>6. CASE DeleteRow(r) BY <2>6 DEF DeleteRow
  <2>7. CASE Fallback(r) BY <2>7 DEF Fallback
  <2>8. ASSUME NEW op \in Ops \ {"undo"}, Begin(r, op) PROVE job' \in [Slots -> JobRecs]
    BY <2>8 DEF Begin
  <2>. QED BY <1>1, <2>1, <2>2, <2>3, <2>4, <2>5, <2>6, <2>7, <2>8 DEF Control
<1>2. ASSUME NEW x \in Slots, Execute(x)
      PROVE  job' \in [Slots -> JobRecs]
  <2>1. CASE HandleConnect(x) BY <2>1, HandleDoes
  <2>2. CASE HandleDisconnect(x) BY <2>2, HandleDoes
  <2>3. CASE HandleStatus(x) BY <2>3, HandleDoes
  <2>4. CASE HandleUse(x) BY <2>4, HandleDoes
  <2>5. CASE Persist(x) BY <2>5, PersistDoes
  <2>. QED BY <1>2, <2>1, <2>2, <2>3, <2>4, <2>5 DEF Execute
<1>3. CASE Tick
  <2>1. \A x \in Slots : [job[x] EXCEPT !.read = Older(@)] \in JobRecs
    BY ReadsTyped DEF JobRecs
  <2>. QED BY <1>3, <2>1 DEF Tick
<1>4. CASE DropUnhealthy BY <1>4 DEF DropUnhealthy
<1>5. CASE Crash BY <1>5 DEF Crash
<1>6. CASE Restart BY <1>6 DEF Restart
<1>7. CASE UNCHANGED vars BY <1>7 DEF vars
<1>. QED BY <1>1, <1>2, <1>3, <1>4, <1>5, <1>6, <1>7 DEF Next

\* What every step makes of the snapshot and of the rest.
LEMMA RestStep ==
    TypeOK /\ [Next]_vars
        => /\ deleted' \in BOOLEAN /\ up' \in BOOLEAN /\ client' \in BOOLEAN
           /\ crossed' \in BOOLEAN /\ refused' \in BOOLEAN /\ snap' \in Snaps
<1>. SUFFICES ASSUME TypeOK, [Next]_vars
            PROVE /\ deleted' \in BOOLEAN /\ up' \in BOOLEAN /\ client' \in BOOLEAN
           /\ crossed' \in BOOLEAN /\ refused' \in BOOLEAN /\ snap' \in Snaps
  OBVIOUS
<1>t. /\ deleted \in BOOLEAN /\ up \in BOOLEAN /\ client \in BOOLEAN
      /\ crossed \in BOOLEAN /\ refused \in BOOLEAN /\ snap \in Snaps
      /\ req \in [Requests -> ReqRecs] /\ job \in [Slots -> JobRecs]
  BY Types
<1>r. NoReq \in ReqRecs /\ NoJob \in JobRecs /\ NoSnap \in Snaps
  BY RecordsTyped
<1>s. Late \in Slots /\ \A r \in Requests : r \in Slots
  BY DEF Slots
<1>. USE <1>t, <1>r, <1>s
<1>1. ASSUME NEW r \in Requests, Control(r)
      PROVE  /\ deleted' \in BOOLEAN /\ up' \in BOOLEAN /\ client' \in BOOLEAN
           /\ crossed' \in BOOLEAN /\ refused' \in BOOLEAN /\ snap' \in Snaps
  <2>1. CASE Send(r) BY <2>1 DEF Send
  <2>2. CASE Receive(r) BY <2>2 DEF Receive
  <2>3. CASE Lose(r) BY <2>3 DEF Lose
  <2>4. CASE Save(r)
    <3>1. Stored(req[r].read) \in Snaps
      BY RecordsTyped DEF ReqRecs
    <3>. QED BY <2>4, <3>1 DEF Save
  <2>5. CASE DropSnapshot(r) BY <2>5 DEF DropSnapshot
  <2>6. CASE DeleteRow(r) BY <2>6 DEF DeleteRow
  <2>7. CASE Fallback(r) BY <2>7 DEF Fallback
  <2>8. ASSUME NEW op \in Ops \ {"undo"}, Begin(r, op)
        PROVE  /\ deleted' \in BOOLEAN /\ up' \in BOOLEAN /\ client' \in BOOLEAN
           /\ crossed' \in BOOLEAN /\ refused' \in BOOLEAN /\ snap' \in Snaps
    BY <2>8 DEF Begin
  <2>. QED BY <1>1, <2>1, <2>2, <2>3, <2>4, <2>5, <2>6, <2>7, <2>8 DEF Control
<1>2. ASSUME NEW x \in Slots, Execute(x)
      PROVE  /\ deleted' \in BOOLEAN /\ up' \in BOOLEAN /\ client' \in BOOLEAN
           /\ crossed' \in BOOLEAN /\ refused' \in BOOLEAN /\ snap' \in Snaps
  <2>1. CASE HandleConnect(x) BY <2>1 DEF HandleConnect
  <2>2. CASE HandleDisconnect(x) BY <2>2 DEF HandleDisconnect
  <2>3. CASE HandleStatus(x) BY <2>3 DEF HandleStatus
  <2>4. CASE HandleUse(x) BY <2>4 DEF HandleUse
  <2>5. CASE Persist(x)
    <3>1. Stored(job[x].read) \in Snaps
      BY RecordsTyped DEF JobRecs
    <3>. QED BY <2>5, <3>1 DEF Persist
  <2>. QED BY <1>2, <2>1, <2>2, <2>3, <2>4, <2>5 DEF Execute
<1>3. CASE Tick
  <2>1. CASE snap.left <= 1
    BY <1>3, <2>1 DEF Tick
  <2>2. CASE ~(snap.left <= 1)
    <3>1. Older(snap.read) \in Reads /\ snap.left - 1 \in 0 .. TTL
      BY <2>2, ReadsTyped DEF Snaps
    <3>2. snap' = [read |-> Older(snap.read), left |-> snap.left - 1]
      BY <1>3, <2>2 DEF Tick
    <3>3. snap' \in Snaps
      BY <3>1, <3>2 DEF Snaps
    <3>. QED BY <1>3, <3>3 DEF Tick
  <2>. QED BY <2>1, <2>2
<1>4. CASE DropUnhealthy BY <1>4 DEF DropUnhealthy
<1>5. CASE Crash BY <1>5 DEF Crash
<1>6. CASE Restart BY <1>6 DEF Restart
<1>7. CASE UNCHANGED vars BY <1>7 DEF vars
<1>. QED BY <1>1, <1>2, <1>3, <1>4, <1>5, <1>6, <1>7 DEF Next

\* Every step keeps the types.
LEMMA TypeStep == TypeOK /\ [Next]_vars => TypeOK'
BY ReqStep, JobStep, RestStep DEF TypeOK, ReqRecs, JobRecs, Snaps

\* What the control plane has been told is dated in time.
LEMMA ReqAges ==
    TypeOK /\ AgesFit /\ JobsFit /\ [Next]_vars
        => \A q \in Requests : Dated(req'[q].read)
<1>. SUFFICES ASSUME TypeOK, AgesFit, JobsFit, [Next]_vars
            PROVE \A q \in Requests : Dated(req'[q].read)
  OBVIOUS
<1>. USE DEF AgesFit
<1>t. /\ snap \in Snaps /\ req \in [Requests -> ReqRecs] /\ job \in [Slots -> JobRecs]
      /\ Late \in Slots /\ \A r \in Requests : r \in Slots
  BY Types DEF Slots
<1>d. Dated(NoReq.read) /\ Dated(NoJob.read) /\ Dated(NoSnap.read) /\ Dated(NoStatus)
  BY RecordsTyped, ReadsDated
<1>r. NoReq \in ReqRecs /\ NoJob \in JobRecs /\ NoSnap \in Snaps
  BY RecordsTyped
<1>. USE <1>t, <1>d, <1>r
<1>1. ASSUME NEW r \in Requests, Control(r)
      PROVE  \A q \in Requests : Dated(req'[q].read)
  <2>1. CASE Send(r) BY <2>1, SendDoes
  <2>2. CASE Receive(r)
    <3>1. PICK n \in ReqRecs :
             /\ req' = [req EXCEPT ![r] = n]
             /\ n.read = NoStatus \/ n.read = Observed(job[r].read)
      BY <2>2, ReceiveDoes
    <3>2. Dated(Observed(job[r].read))
      <4>1. job[r].pc # "none" BY <2>2 DEF Receive
      <4>2. job[r].read \in Reads /\ req[r].wait \in 0 .. Timeout BY DEF ReqRecs, JobRecs
      <4>3. job[r].read.seen <= Timeout BY <4>1, <4>2 DEF JobsFit, Reads
      <4>. QED BY <4>2, <4>3, ReadsDated
    <3>. QED BY <3>1, <3>2
  <2>3. CASE Lose(r) BY <2>3, LoseDoes
  <2>4. CASE Save(r) BY <2>4 DEF Save, Finish
  <2>5. CASE DropSnapshot(r)
    <3>1. CASE Goto(r, "row")
      BY <3>1, GotoDoes
    <3>2. CASE Finish(r)
      BY <3>2 DEF Finish
    <3>. QED BY <2>5, <3>1, <3>2 DEF DropSnapshot
  <2>6. CASE DeleteRow(r) BY <2>6 DEF DeleteRow, Finish
  <2>7. CASE Fallback(r) BY <2>7 DEF Fallback, Finish
  <2>8. ASSUME NEW op \in Ops \ {"undo"}, Begin(r, op)
        PROVE  \A q \in Requests : Dated(req'[q].read)
    BY <2>8, BeginDoes
  <2>. QED BY <1>1, <2>1, <2>2, <2>3, <2>4, <2>5, <2>6, <2>7, <2>8 DEF Control
<1>2. ASSUME NEW x \in Slots, Execute(x)
      PROVE  \A q \in Requests : Dated(req'[q].read)
  <2>1. CASE HandleConnect(x) BY <2>1 DEF HandleConnect
  <2>2. CASE HandleDisconnect(x) BY <2>2 DEF HandleDisconnect
  <2>3. CASE HandleStatus(x) BY <2>3 DEF HandleStatus
  <2>4. CASE HandleUse(x) BY <2>4 DEF HandleUse
  <2>5. CASE Persist(x) BY <2>5 DEF Persist
  <2>. QED BY <1>2, <2>1, <2>2, <2>3, <2>4, <2>5 DEF Execute
<1>3. CASE Tick
  <2>1. ASSUME NEW r \in Requests PROVE Dated(req'[r].read)
    <3>1. req[r].read \in Reads BY DEF ReqRecs
    <3>2. Dated(Older(req[r].read)) BY <3>1, ReadsDated
    <3>3. req'[r].read = Older(req[r].read) BY <1>3 DEF Tick, ReqRecs
    <3>. QED BY <3>2, <3>3
  <2>. QED BY <2>1
<1>4. CASE DropUnhealthy BY <1>4 DEF DropUnhealthy
<1>5. CASE Crash BY <1>5 DEF Crash
<1>6. CASE Restart BY <1>6 DEF Restart
<1>7. CASE UNCHANGED vars BY <1>7 DEF vars
<1>. QED BY <1>1, <1>2, <1>3, <1>4, <1>5, <1>6, <1>7 DEF Next

\* So is what the executor has read.
LEMMA JobAges ==
    TypeOK /\ AgesFit /\ [Next]_vars => \A y \in Slots : Dated(job'[y].read)
<1>. SUFFICES ASSUME TypeOK, AgesFit, [Next]_vars
            PROVE \A y \in Slots : Dated(job'[y].read)
  OBVIOUS
<1>. USE DEF AgesFit
<1>t. /\ snap \in Snaps /\ req \in [Requests -> ReqRecs] /\ job \in [Slots -> JobRecs]
      /\ Late \in Slots /\ \A r \in Requests : r \in Slots
  BY Types DEF Slots
<1>d. Dated(NoReq.read) /\ Dated(NoJob.read) /\ Dated(NoSnap.read) /\ Dated(NoStatus)
  BY RecordsTyped, ReadsDated
<1>r. NoReq \in ReqRecs /\ NoJob \in JobRecs /\ NoSnap \in Snaps
  BY RecordsTyped
<1>. USE <1>t, <1>d, <1>r
<1>1. ASSUME NEW r \in Requests, Control(r)
      PROVE  \A y \in Slots : Dated(job'[y].read)
  <2>1. CASE Send(r) BY <2>1, SendDoes
  <2>2. CASE Receive(r) BY <2>2, ReceiveDoes
  <2>3. CASE Lose(r) BY <2>3, LoseDoes
  <2>4. CASE Save(r) BY <2>4 DEF Save
  <2>5. CASE DropSnapshot(r) BY <2>5 DEF DropSnapshot
  <2>6. CASE DeleteRow(r) BY <2>6 DEF DeleteRow
  <2>7. CASE Fallback(r) BY <2>7 DEF Fallback
  <2>8. ASSUME NEW op \in Ops \ {"undo"}, Begin(r, op)
        PROVE  \A y \in Slots : Dated(job'[y].read)
    BY <2>8 DEF Begin
  <2>. QED BY <1>1, <2>1, <2>2, <2>3, <2>4, <2>5, <2>6, <2>7, <2>8 DEF Control
<1>2. ASSUME NEW x \in Slots, Execute(x)
      PROVE  \A y \in Slots : Dated(job'[y].read)
  <2>1. CASE HandleConnect(x)
    <3>1. PICK m \in JobRecs : job' = [job EXCEPT ![x] = m] /\ Dated(m.read)
      BY <2>1, HandleDoes
    <3>. QED BY <3>1
  <2>2. CASE HandleDisconnect(x)
    <3>1. PICK m \in JobRecs : job' = [job EXCEPT ![x] = m] /\ Dated(m.read)
      BY <2>2, HandleDoes
    <3>. QED BY <3>1
  <2>3. CASE HandleStatus(x)
    <3>1. PICK m \in JobRecs : job' = [job EXCEPT ![x] = m] /\ Dated(m.read)
      BY <2>3, HandleDoes
    <3>. QED BY <3>1
  <2>4. CASE HandleUse(x)
    <3>1. PICK m \in JobRecs : job' = [job EXCEPT ![x] = m] /\ Dated(m.read)
      BY <2>4, HandleDoes
    <3>. QED BY <3>1
  <2>5. CASE Persist(x) BY <2>5, PersistDoes
  <2>. QED BY <1>2, <2>1, <2>2, <2>3, <2>4, <2>5 DEF Execute
<1>3. CASE Tick
  <2>1. ASSUME NEW x \in Slots PROVE Dated(job'[x].read)
    <3>1. job[x].read \in Reads BY DEF JobRecs
    <3>2. Dated(Older(job[x].read)) BY <3>1, ReadsDated
    <3>3. job'[x].read = Older(job[x].read) BY <1>3 DEF Tick, JobRecs
    <3>. QED BY <3>2, <3>3
  <2>. QED BY <2>1
<1>4. CASE DropUnhealthy BY <1>4 DEF DropUnhealthy
<1>5. CASE Crash BY <1>5 DEF Crash
<1>6. CASE Restart BY <1>6 DEF Restart
<1>7. CASE UNCHANGED vars BY <1>7 DEF vars
<1>. QED BY <1>1, <1>2, <1>3, <1>4, <1>5, <1>6, <1>7 DEF Next

\* So is the snapshot in Redis.
LEMMA SnapAges ==
    TypeOK /\ AgesFit /\ [Next]_vars => Dated(snap'.read)
<1>. SUFFICES ASSUME TypeOK, AgesFit, [Next]_vars PROVE Dated(snap'.read)
  OBVIOUS
<1>. USE DEF AgesFit
<1>t. /\ snap \in Snaps /\ req \in [Requests -> ReqRecs] /\ job \in [Slots -> JobRecs]
      /\ Late \in Slots /\ \A r \in Requests : r \in Slots
  BY Types DEF Slots
<1>d. Dated(NoReq.read) /\ Dated(NoJob.read) /\ Dated(NoSnap.read) /\ Dated(NoStatus)
  BY RecordsTyped, ReadsDated
<1>r. NoReq \in ReqRecs /\ NoJob \in JobRecs /\ NoSnap \in Snaps
  BY RecordsTyped
<1>. USE <1>t, <1>d, <1>r
<1>1. ASSUME NEW r \in Requests, Control(r)
      PROVE  Dated(snap'.read)
  <2>1. CASE Send(r) BY <2>1 DEF Send
  <2>2. CASE Receive(r) BY <2>2 DEF Receive
  <2>3. CASE Lose(r) BY <2>3 DEF Lose
  <2>4. CASE Save(r)
    <3>1. req[r].read \in Reads BY DEF ReqRecs
    <3>. QED BY <2>4, <3>1, RecordsTyped DEF Save
  <2>5. CASE DropSnapshot(r) BY <2>5 DEF DropSnapshot
  <2>6. CASE DeleteRow(r) BY <2>6 DEF DeleteRow
  <2>7. CASE Fallback(r) BY <2>7 DEF Fallback
  <2>8. ASSUME NEW op \in Ops \ {"undo"}, Begin(r, op) PROVE Dated(snap'.read)
    BY <2>8 DEF Begin
  <2>. QED BY <1>1, <2>1, <2>2, <2>3, <2>4, <2>5, <2>6, <2>7, <2>8 DEF Control
<1>2. ASSUME NEW x \in Slots, Execute(x)
      PROVE  Dated(snap'.read)
  <2>1. CASE HandleConnect(x) BY <2>1 DEF HandleConnect
  <2>2. CASE HandleDisconnect(x) BY <2>2 DEF HandleDisconnect
  <2>3. CASE HandleStatus(x) BY <2>3 DEF HandleStatus
  <2>4. CASE HandleUse(x) BY <2>4 DEF HandleUse
  <2>5. CASE Persist(x)
    <3>1. job[x].read \in Reads BY DEF JobRecs
    <3>. QED BY <2>5, <3>1, RecordsTyped DEF Persist
  <2>. QED BY <1>2, <2>1, <2>2, <2>3, <2>4, <2>5 DEF Execute
<1>3. CASE Tick
  <2>1. Dated(Older(snap.read))
    BY ReadsDated DEF Snaps
  <2>. QED BY <1>3, <2>1 DEF Tick
<1>4. CASE DropUnhealthy BY <1>4 DEF DropUnhealthy
<1>5. CASE Crash BY <1>5 DEF Crash
<1>6. CASE Restart BY <1>6 DEF Restart
<1>7. CASE UNCHANGED vars BY <1>7 DEF vars
<1>. QED BY <1>1, <1>2, <1>3, <1>4, <1>5, <1>6, <1>7 DEF Next

\* Every step keeps the two sides of a request together.
LEMMA JobsStep ==
    TypeOK /\ JobsFit /\ [Next]_vars => JobsFit'
<1>. SUFFICES ASSUME TypeOK, JobsFit, [Next]_vars PROVE JobsFit'
  OBVIOUS
<1>. USE DEF JobsFit
<1>t. /\ req \in [Requests -> ReqRecs] /\ job \in [Slots -> JobRecs]
      /\ Late \in Slots /\ Late \notin Requests /\ \A r \in Requests : r \in Slots
  BY Types DEF Slots
<1>r. /\ NoReq \in ReqRecs /\ NoReq.pc = "idle" /\ NoJob \in JobRecs /\ NoJob.pc = "none"
      /\ NoStatus.seen = 0
  BY RecordsTyped, ReadsDated
<1>. USE <1>t, <1>r
<1>1. ASSUME NEW r \in Requests, Control(r)
      PROVE  JobsFit'
  <2>1. CASE Send(r)
    <3>1. PICK n \in ReqRecs, m \in JobRecs :
             /\ req[r].pc = "send" /\ req' = [req EXCEPT ![r] = n]
             /\ n.pc = "wait" /\ n.op = req[r].op
             /\ job' = job \/ job' = [job EXCEPT ![r] = m]
             /\ m.op = req[r].op /\ m.read = NoStatus
      BY <2>1, SendDoes
    <3>2. n.wait \in Nat BY DEF ReqRecs
    <3>. QED BY <3>1, <3>2
  <2>2. CASE Receive(r) BY <2>2, ReceiveDoes
  <2>3. CASE Lose(r) BY <2>3, LoseDoes
  <2>4. CASE Save(r) BY <2>4 DEF Save, Finish
  <2>5. CASE DropSnapshot(r)
    <3>1. \E n \in ReqRecs : req' = [req EXCEPT ![r] = n]
      BY <2>5, GotoDoes DEF DropSnapshot, Finish
    <3>. QED BY <2>5, <3>1 DEF DropSnapshot
  <2>6. CASE DeleteRow(r) BY <2>6 DEF DeleteRow, Finish
  <2>7. CASE Fallback(r) BY <2>7 DEF Fallback, Finish
  <2>8. ASSUME NEW op \in Ops \ {"undo"}, Begin(r, op) PROVE JobsFit'
    <3>1. req[r].pc = "idle" /\ \E n \in ReqRecs : req' = [req EXCEPT ![r] = n]
      BY <2>8, BeginDoes
    <3>. QED BY <2>8, <3>1 DEF Begin
  <2>. QED BY <1>1, <2>1, <2>2, <2>3, <2>4, <2>5, <2>6, <2>7, <2>8 DEF Control
<1>2. ASSUME NEW x \in Slots, Execute(x)
      PROVE  JobsFit'
  <2>1. CASE HandleConnect(x)
    <3>1. PICK m \in JobRecs :
             /\ job[x].pc = "call" /\ job' = [job EXCEPT ![x] = m]
             /\ m.pc = "none" \/ m.op = job[x].op
             /\ m.read.seen = 0
      BY <2>1, HandleDoes
    <3>2. \A r \in Requests : req[r].wait \in Nat BY DEF ReqRecs
    <3>3. UNCHANGED req BY <2>1 DEF HandleConnect
    <3>. QED BY <3>1, <3>2, <3>3
  <2>2. CASE HandleDisconnect(x)
    <3>1. PICK m \in JobRecs :
             /\ job[x].pc = "call" /\ job' = [job EXCEPT ![x] = m]
             /\ m.pc = "none" \/ m.op = job[x].op
             /\ m.read.seen = 0
      BY <2>2, HandleDoes
    <3>2. \A r \in Requests : req[r].wait \in Nat BY DEF ReqRecs
    <3>3. UNCHANGED req BY <2>2 DEF HandleDisconnect
    <3>. QED BY <3>1, <3>2, <3>3
  <2>3. CASE HandleStatus(x)
    <3>1. PICK m \in JobRecs :
             /\ job[x].pc = "call" /\ job' = [job EXCEPT ![x] = m]
             /\ m.pc = "none" \/ m.op = job[x].op
             /\ m.read.seen = 0
      BY <2>3, HandleDoes
    <3>2. \A r \in Requests : req[r].wait \in Nat BY DEF ReqRecs
    <3>3. UNCHANGED req BY <2>3 DEF HandleStatus
    <3>. QED BY <3>1, <3>2, <3>3
  <2>4. CASE HandleUse(x)
    <3>1. PICK m \in JobRecs :
             /\ job[x].pc = "call" /\ job' = [job EXCEPT ![x] = m]
             /\ m.pc = "none" \/ m.op = job[x].op
             /\ m.read.seen = 0
      BY <2>4, HandleDoes
    <3>2. \A r \in Requests : req[r].wait \in Nat BY DEF ReqRecs
    <3>3. UNCHANGED req BY <2>4 DEF HandleUse
    <3>. QED BY <3>1, <3>2, <3>3
  <2>5. CASE Persist(x)
    <3>1. PICK m \in JobRecs :
             /\ job[x].pc # "none" /\ job' = [job EXCEPT ![x] = m]
             /\ m.pc = "none" \/ m.op = job[x].op
             /\ m.read \in {NoStatus, job[x].read}
      BY <2>5, PersistDoes
    <3>2. \A r \in Requests : req[r].wait \in Nat BY DEF ReqRecs
    <3>. QED BY <2>5, <3>1, <3>2 DEF Persist
  <2>. QED BY <1>2, <2>1, <2>2, <2>3, <2>4, <2>5 DEF Execute
<1>3. CASE Tick
  <2>1. ASSUME NEW r \in Requests, job'[r].pc # "none"
        PROVE  /\ req'[r].pc = "wait" /\ job'[r].op = req'[r].op
               /\ job'[r].read.seen <= req'[r].wait
    <3>1. /\ job'[r].pc = job[r].pc /\ job'[r].op = job[r].op
          /\ job'[r].read = Older(job[r].read)
      BY <1>3 DEF Tick, JobRecs
    <3>2. req[r].pc = "wait" BY <2>1, <3>1
    <3>3. req'[r].pc = req[r].pc /\ req'[r].op = req[r].op /\ req'[r].wait = req[r].wait + 1
      BY <1>3, <3>2 DEF Tick, ReqRecs
    <3>4. job[r].read \in Reads /\ req[r].wait \in Nat BY DEF JobRecs, ReqRecs
    <3>5. /\ Older(job[r].read).seen <= job[r].read.seen + 1
          /\ Older(job[r].read) \in Reads
      BY <3>4, ReadsDated, ReadsTyped
    <3>6. job[r].read.seen <= req[r].wait BY <2>1, <3>1
    <3>7. /\ job[r].read.seen \in Nat /\ Older(job[r].read).seen \in Nat
      BY <3>4, <3>5 DEF Reads
    <3>8. Older(job[r].read).seen <= req[r].wait + 1 BY <3>4, <3>5, <3>6, <3>7
    <3>. QED BY <2>1, <3>1, <3>2, <3>3, <3>8
  <2>. QED BY <2>1
<1>4. CASE DropUnhealthy BY <1>4 DEF DropUnhealthy
<1>5. CASE Crash BY <1>5 DEF Crash
<1>6. CASE Restart BY <1>6 DEF Restart
<1>7. CASE UNCHANGED vars BY <1>7 DEF vars
<1>. QED BY <1>1, <1>2, <1>3, <1>4, <1>5, <1>6, <1>7 DEF Next

\* Every step keeps the order of the steps of a Delete.
LEMMA StepsStep ==
    TypeOK /\ StepsFit /\ [Next]_vars => StepsFit'
<1>. SUFFICES ASSUME TypeOK, StepsFit, [Next]_vars PROVE StepsFit'
  OBVIOUS
<1>. USE DEF StepsFit
<1>t. /\ req \in [Requests -> ReqRecs] /\ job \in [Slots -> JobRecs]
      /\ Late \in Slots /\ Late \notin Requests /\ \A r \in Requests : r \in Slots
  BY Types DEF Slots
<1>r. /\ NoReq \in ReqRecs /\ NoReq.pc = "idle" /\ NoJob \in JobRecs /\ NoJob.pc = "none"
      /\ NoStatus.seen = 0
  BY RecordsTyped, ReadsDated
<1>. USE <1>t, <1>r
<1>1. ASSUME NEW r \in Requests, Control(r)
      PROVE  StepsFit'
  <2>1. CASE Send(r) BY <2>1, SendDoes
  <2>2. CASE Receive(r) BY <2>2, ReceiveDoes
  <2>3. CASE Lose(r) BY <2>3, LoseDoes
  <2>4. CASE Save(r) BY <2>4 DEF Save, Finish
  <2>5. CASE DropSnapshot(r)
    <3>1. CASE req[r].op = "delete"
      <4>1. Goto(r, "row") BY <2>5, <3>1 DEF DropSnapshot
      <4>2. PICK n \in ReqRecs : req' = [req EXCEPT ![r] = n] /\ n.op = req[r].op
        BY <4>1, GotoDoes
      <4>. QED BY <2>5, <3>1, <4>2 DEF DropSnapshot
    <3>2. CASE req[r].op # "delete"
      BY <2>5, <3>2 DEF DropSnapshot, Finish
    <3>. QED BY <3>1, <3>2
  <2>6. CASE DeleteRow(r) BY <2>6 DEF DeleteRow, Finish
  <2>7. CASE Fallback(r) BY <2>7 DEF Fallback, Finish
  <2>8. ASSUME NEW op \in Ops \ {"undo"}, Begin(r, op) PROVE StepsFit'
    <3>1. PICK n \in ReqRecs : req' = [req EXCEPT ![r] = n] /\ n.pc = "send"
      BY <2>8, BeginDoes
    <3>. QED BY <2>8, <3>1 DEF Begin
  <2>. QED BY <1>1, <2>1, <2>2, <2>3, <2>4, <2>5, <2>6, <2>7, <2>8 DEF Control
<1>2. ASSUME NEW x \in Slots, Execute(x)
      PROVE  StepsFit'
  <2>1. CASE HandleConnect(x)
    <3>1. PICK m \in JobRecs : /\ job' = [job EXCEPT ![x] = m]
                               /\ m.pc = "save" => m.op # "delete"
      BY <2>1, HandleDoes
    <3>2. UNCHANGED req BY <2>1 DEF HandleConnect
    <3>. QED BY <3>1, <3>2
  <2>2. CASE HandleDisconnect(x)
    <3>1. PICK m \in JobRecs : /\ job' = [job EXCEPT ![x] = m]
                               /\ m.pc = "save" => m.op # "delete"
      BY <2>2, HandleDoes
    <3>2. UNCHANGED req BY <2>2 DEF HandleDisconnect
    <3>. QED BY <3>1, <3>2
  <2>3. CASE HandleStatus(x)
    <3>1. PICK m \in JobRecs : /\ job' = [job EXCEPT ![x] = m]
                               /\ m.pc = "save" => m.op # "delete"
      BY <2>3, HandleDoes
    <3>2. UNCHANGED req BY <2>3 DEF HandleStatus
    <3>. QED BY <3>1, <3>2
  <2>4. CASE HandleUse(x)
    <3>1. PICK m \in JobRecs : /\ job' = [job EXCEPT ![x] = m]
                               /\ m.pc = "save" => m.op # "delete"
      BY <2>4, HandleDoes
    <3>2. UNCHANGED req BY <2>4 DEF HandleUse
    <3>. QED BY <3>1, <3>2
  <2>5. CASE Persist(x)
    <3>1. PICK m \in JobRecs : job' = [job EXCEPT ![x] = m] /\ m.pc # "save"
      BY <2>5, PersistDoes
    <3>2. UNCHANGED req BY <2>5 DEF Persist
    <3>. QED BY <3>1, <3>2
  <2>. QED BY <1>2, <2>1, <2>2, <2>3, <2>4, <2>5 DEF Execute
<1>3. CASE Tick
  <2>1. \A r \in Requests : req'[r].pc = req[r].pc /\ req'[r].op = req[r].op
    BY <1>3 DEF Tick, ReqRecs
  <2>2. \A x \in Slots : job'[x].pc = job[x].pc /\ job'[x].op = job[x].op
    BY <1>3 DEF Tick, JobRecs
  <2>. QED BY <2>1, <2>2
<1>4. CASE DropUnhealthy BY <1>4 DEF DropUnhealthy
<1>5. CASE Crash BY <1>5 DEF Crash
<1>6. CASE Restart BY <1>6 DEF Restart
<1>7. CASE UNCHANGED vars BY <1>7 DEF vars
<1>. QED BY <1>1, <1>2, <1>3, <1>4, <1>5, <1>6, <1>7 DEF Next

\* A request begins.
Begun == \E r \in Requests, op \in Ops : Begin(r, op)

\* Only a request that begins is new work.
LEMMA WorkStep ==
    TypeOK /\ [Next]_vars
        => Begun \/ \A o \in {"connect", "delete"} : AtWork(o)' => AtWork(o)
<1>. SUFFICES ASSUME TypeOK, [Next]_vars
            PROVE Begun \/ \A o \in {"connect", "delete"} : AtWork(o)' => AtWork(o)
  OBVIOUS
<1>. USE DEF AtWork
<1>t. /\ req \in [Requests -> ReqRecs] /\ job \in [Slots -> JobRecs]
      /\ Late \in Slots /\ Late \notin Requests /\ \A r \in Requests : r \in Slots
  BY Types DEF Slots
<1>r. /\ NoReq \in ReqRecs /\ NoReq.pc = "idle" /\ NoJob \in JobRecs /\ NoJob.pc = "none"
  BY RecordsTyped
<1>. USE <1>t, <1>r
<1>1. ASSUME NEW r \in Requests, Control(r)
      PROVE  Begun \/ \A o \in {"connect", "delete"} : AtWork(o)' => AtWork(o)
  <2>1. CASE Send(r)
    <3>1. PICK n \in ReqRecs, m \in JobRecs :
             /\ req[r].pc = "send" /\ req' = [req EXCEPT ![r] = n]
             /\ n.pc = "wait" /\ n.op = req[r].op
             /\ job' = job \/ job' = [job EXCEPT ![r] = m]
             /\ m.op = req[r].op
      BY <2>1, SendDoes
    <3>. QED BY <3>1
  <2>2. CASE Receive(r)
    <3>1. PICK n \in ReqRecs :
             /\ req[r].pc = "wait"
             /\ req' = [req EXCEPT ![r] = n] /\ job' = [job EXCEPT ![r] = NoJob]
             /\ n.pc = "idle" \/ n.op = req[r].op \/ n.op = "undo" \/ n.op = "status"
      BY <2>2, ReceiveDoes
    <3>. QED BY <3>1
  <2>3. CASE Lose(r)
    <3>1. PICK n \in ReqRecs :
             /\ req[r].pc = "wait" /\ req' = [req EXCEPT ![r] = n]
             /\ \/ job' = [job EXCEPT ![r] = NoJob]
                \/ job' = [job EXCEPT ![Late] = job[r], ![r] = NoJob]
             /\ n.pc = "idle" \/ n.op = req[r].op \/ n.op = "undo" \/ n.op = "status"
      BY <2>3, LoseDoes
    <3>. QED BY <3>1
  <2>4. CASE Save(r)
    <3>1. UNCHANGED job /\ req' = [req EXCEPT ![r] = NoReq]
      BY <2>4 DEF Save, Finish
    <3>. QED BY <3>1
  <2>5. CASE DropSnapshot(r)
    <3>1. PICK n \in ReqRecs : /\ req' = [req EXCEPT ![r] = n]
                               /\ n.pc = "idle" \/ n.op = req[r].op
      <4>1. CASE Goto(r, "row")
        BY <4>1, GotoDoes
      <4>2. CASE Finish(r)
        BY <4>2 DEF Finish
      <4>. QED BY <2>5, <4>1, <4>2 DEF DropSnapshot
    <3>2. req[r].pc # "idle" /\ UNCHANGED job BY <2>5 DEF DropSnapshot
    <3>. QED BY <3>1, <3>2
  <2>6. CASE DeleteRow(r)
    <3>1. UNCHANGED job /\ req' = [req EXCEPT ![r] = NoReq]
      BY <2>6 DEF DeleteRow, Finish
    <3>. QED BY <3>1
  <2>7. CASE Fallback(r)
    <3>1. UNCHANGED job /\ req' = [req EXCEPT ![r] = NoReq]
      BY <2>7 DEF Fallback, Finish
    <3>. QED BY <3>1
  <2>8. ASSUME NEW op \in Ops \ {"undo"}, Begin(r, op)
        PROVE  Begun \/ \A o \in {"connect", "delete"} : AtWork(o)' => AtWork(o)
    <3>1. op \in Ops BY <2>8
    <3>. QED BY <2>8, <3>1 DEF Begun
  <2>. QED BY <1>1, <2>1, <2>2, <2>3, <2>4, <2>5, <2>6, <2>7, <2>8 DEF Control
<1>2. ASSUME NEW x \in Slots, Execute(x)
      PROVE  Begun \/ \A o \in {"connect", "delete"} : AtWork(o)' => AtWork(o)
  <2>1. CASE HandleConnect(x)
    <3>1. PICK m \in JobRecs :
             /\ job[x].pc # "none" /\ job' = [job EXCEPT ![x] = m]
             /\ m.pc = "none" \/ m.op = job[x].op
      BY <2>1, HandleDoes
    <3>2. UNCHANGED req BY <2>1 DEF HandleConnect
    <3>. QED BY <3>1, <3>2
  <2>2. CASE HandleDisconnect(x)
    <3>1. PICK m \in JobRecs :
             /\ job[x].pc # "none" /\ job' = [job EXCEPT ![x] = m]
             /\ m.pc = "none" \/ m.op = job[x].op
      BY <2>2, HandleDoes
    <3>2. UNCHANGED req BY <2>2 DEF HandleDisconnect
    <3>. QED BY <3>1, <3>2
  <2>3. CASE HandleStatus(x)
    <3>1. PICK m \in JobRecs :
             /\ job[x].pc # "none" /\ job' = [job EXCEPT ![x] = m]
             /\ m.pc = "none" \/ m.op = job[x].op
      BY <2>3, HandleDoes
    <3>2. UNCHANGED req BY <2>3 DEF HandleStatus
    <3>. QED BY <3>1, <3>2
  <2>4. CASE HandleUse(x)
    <3>1. PICK m \in JobRecs :
             /\ job[x].pc # "none" /\ job' = [job EXCEPT ![x] = m]
             /\ m.pc = "none" \/ m.op = job[x].op
      BY <2>4, HandleDoes
    <3>2. UNCHANGED req BY <2>4 DEF HandleUse
    <3>. QED BY <3>1, <3>2
  <2>5. CASE Persist(x)
    <3>1. PICK m \in JobRecs :
             /\ job[x].pc # "none" /\ job' = [job EXCEPT ![x] = m]
             /\ m.pc = "none" \/ m.op = job[x].op
      BY <2>5, PersistDoes
    <3>2. UNCHANGED req BY <2>5 DEF Persist
    <3>. QED BY <3>1, <3>2
  <2>. QED BY <1>2, <2>1, <2>2, <2>3, <2>4, <2>5 DEF Execute
<1>3. CASE Tick
  <2>1. \A r \in Requests : req'[r].pc = req[r].pc /\ req'[r].op = req[r].op
    BY <1>3 DEF Tick, ReqRecs
  <2>2. \A x \in Slots : job'[x].pc = job[x].pc /\ job'[x].op = job[x].op
    BY <1>3 DEF Tick, JobRecs
  <2>. QED BY <2>1, <2>2
<1>4. CASE DropUnhealthy BY <1>4 DEF DropUnhealthy
<1>5. CASE Crash BY <1>5 DEF Crash
<1>6. CASE Restart BY <1>6 DEF Restart
<1>7. CASE UNCHANGED vars BY <1>7 DEF vars
<1>. QED BY <1>1, <1>2, <1>3, <1>4, <1>5, <1>6, <1>7 DEF Next

\* What has begun is all that is new, and it has crossed the work of the other kind.
LEMMA BeginApart ==
    ASSUME TypeOK, NEW r \in Requests, NEW op \in Ops, Begin(r, op)
    PROVE  /\ \A o \in {"connect", "delete"} : AtWork(o)' => AtWork(o) \/ o = op
           /\ ~crossed' => /\ ~crossed
                           /\ ~(op = "connect" /\ AtWork("delete"))
                           /\ ~(op = "delete" /\ AtWork("connect"))
           /\ UNCHANGED <<deleted, client, job>> /\ ~deleted
<1>1. PICK n \in ReqRecs : req' = [req EXCEPT ![r] = n] /\ n.op = op
  BY BeginDoes
<1>2. UNCHANGED <<deleted, client, job>> /\ ~deleted
  BY DEF Begin
<1>3. ASSUME NEW o \in {"connect", "delete"}, AtWork(o)' PROVE AtWork(o) \/ o = op
  BY <1>1, <1>2, <1>3, Types DEF AtWork
<1>4. \A o \in {"connect", "delete"} : AtWork(o)' => AtWork(o) \/ o = op
  BY <1>3
<1>5. crossed' = \/ crossed
                 \/ op = "connect" /\ AtWork("delete")
                 \/ op = "delete" /\ AtWork("connect")
  BY DEF Begin
<1>. QED BY <1>2, <1>4, <1>5

\* A connection needs a Connect, and a row is deleted by a Delete that is right.
Caused ==
    /\ crossed' = crossed
    /\ client' => client \/ AtWork("connect")
    /\ deleted' => deleted \/ (AtWork("delete") /\ (~crossed => ~client'))

\* Every other step than a beginning is caused.
LEMMA CauseStep ==
    StepsFit /\ KnownGone /\ [Next]_vars => Begun \/ Caused
<1>. SUFFICES ASSUME StepsFit, KnownGone, [Next]_vars PROVE Begun \/ Caused
  OBVIOUS
<1>. USE DEF Caused
<1>1. ASSUME NEW r \in Requests, Control(r)
      PROVE  Begun \/ Caused
  <2>1. CASE Send(r)
    <3>1. UNCHANGED <<deleted, client, crossed>>
      BY <2>1 DEF Send
    <3>. QED BY <3>1
  <2>2. CASE Receive(r)
    <3>1. UNCHANGED <<deleted, client, crossed>>
      BY <2>2 DEF Receive
    <3>. QED BY <3>1
  <2>3. CASE Lose(r)
    <3>1. UNCHANGED <<deleted, client, crossed>>
      BY <2>3 DEF Lose
    <3>. QED BY <3>1
  <2>4. CASE Save(r)
    <3>1. UNCHANGED <<deleted, client, crossed>>
      BY <2>4 DEF Save
    <3>. QED BY <3>1
  <2>5. CASE DropSnapshot(r)
    <3>1. UNCHANGED <<deleted, client, crossed>>
      BY <2>5 DEF DropSnapshot
    <3>. QED BY <3>1
  <2>6. CASE DeleteRow(r)
    <3>1. /\ req[r].pc = "row" /\ deleted' = TRUE
          /\ UNCHANGED <<client, crossed>>
      BY <2>6 DEF DeleteRow
    <3>2. req[r].op = "delete" BY <3>1 DEF StepsFit
    <3>3. AtWork("delete") BY <3>1, <3>2 DEF AtWork
    <3>4. ~crossed => ~client BY <3>1, <3>2 DEF KnownGone
    <3>. QED BY <3>1, <3>3, <3>4
  <2>7. CASE Fallback(r)
    <3>1. UNCHANGED <<deleted, client, crossed>>
      BY <2>7 DEF Fallback
    <3>. QED BY <3>1
  <2>8. ASSUME NEW op \in Ops \ {"undo"}, Begin(r, op) PROVE Begun \/ Caused
    <3>1. op \in Ops BY <2>8
    <3>. QED BY <2>8, <3>1 DEF Begun
  <2>. QED BY <1>1, <2>1, <2>2, <2>3, <2>4, <2>5, <2>6, <2>7, <2>8 DEF Control
<1>2. ASSUME NEW x \in Slots, Execute(x)
      PROVE  Begun \/ Caused
  <2>1. CASE HandleConnect(x)
    <3>1. AtWork("connect") /\ UNCHANGED <<deleted, crossed>> BY <2>1 DEF HandleConnect, AtWork
    <3>. QED BY <3>1
  <2>2. CASE HandleDisconnect(x)
    <3>1. UNCHANGED <<deleted, crossed>> /\ (client' => client)
      BY <2>2 DEF HandleDisconnect
    <3>. QED BY <3>1
  <2>3. CASE HandleStatus(x)
    <3>1. UNCHANGED <<deleted, client, crossed>>
      BY <2>3 DEF HandleStatus
    <3>. QED BY <3>1
  <2>4. CASE HandleUse(x)
    <3>1. UNCHANGED <<deleted, client, crossed>>
      BY <2>4 DEF HandleUse
    <3>. QED BY <3>1
  <2>5. CASE Persist(x)
    <3>1. UNCHANGED <<deleted, client, crossed>>
      BY <2>5 DEF Persist
    <3>. QED BY <3>1
  <2>. QED BY <1>2, <2>1, <2>2, <2>3, <2>4, <2>5 DEF Execute
<1>3. CASE Tick
  <2>1. UNCHANGED <<deleted, client, crossed>>
    BY <1>3 DEF Tick
  <2>. QED BY <2>1
<1>4. CASE DropUnhealthy
  <2>1. UNCHANGED <<deleted, crossed>> /\ (client' => client)
    BY <1>4 DEF DropUnhealthy
  <2>. QED BY <2>1
<1>5. CASE Crash
  <2>1. UNCHANGED <<deleted, crossed>> /\ (client' => client)
    BY <1>5 DEF Crash
  <2>. QED BY <2>1
<1>6. CASE Restart
  <2>1. UNCHANGED <<deleted, client, crossed>>
    BY <1>6 DEF Restart
  <2>. QED BY <2>1
<1>7. CASE UNCHANGED vars
  <2>1. UNCHANGED <<deleted, client, crossed>>
    BY <1>7 DEF vars
  <2>. QED BY <2>1
<1>. QED BY <1>1, <1>2, <1>3, <1>4, <1>5, <1>6, <1>7 DEF Next

\* Nothing new is at work, and what changes, changes for a reason.
LEMMA ApartKept ==
    ASSUME Apart, \A o \in {"connect", "delete"} : AtWork(o)' => AtWork(o), Caused
    PROVE  Apart'
<1>1. /\ AtWork("connect")' => AtWork("connect")
      /\ AtWork("delete")' => AtWork("delete")
  OBVIOUS
<1>. QED BY <1>1 DEF Apart, Caused

\* A connect and a delete are never at work on the same service together.
LEMMA ApartStep ==
    TypeOK /\ StepsFit /\ Apart /\ KnownGone /\ [Next]_vars => Apart'
<1>. SUFFICES ASSUME TypeOK, StepsFit, Apart, KnownGone, [Next]_vars PROVE Apart'
  OBVIOUS
<1>1. CASE Begun
  <2>1. PICK r \in Requests, op \in Ops : Begin(r, op) BY <1>1 DEF Begun
  <2>2. /\ AtWork("connect")' => AtWork("connect") \/ op = "connect"
        /\ AtWork("delete")' => AtWork("delete") \/ op = "delete"
        /\ UNCHANGED <<deleted, client>> /\ ~deleted
        /\ ~crossed' => /\ ~crossed
                        /\ ~(op = "connect" /\ AtWork("delete"))
                        /\ ~(op = "delete" /\ AtWork("connect"))
    BY <2>1, BeginApart
  <2>. QED BY <2>2 DEF Apart
<1>2. CASE ~Begun
  <2>1. \A o \in {"connect", "delete"} : AtWork(o)' => AtWork(o)
    BY <1>2, WorkStep
  <2>2. Caused
    BY <1>2, CauseStep
  <2>. QED BY <2>1, <2>2, ApartKept
<1>. QED BY <1>1, <1>2

\* While a Connect is at work, alone, no Delete goes on.
LEMMA NoDeleteGoesOn ==
    ASSUME Apart, KnownGone, TypeOK, AtWork("connect"), ~crossed
    PROVE  /\ \A r \in Requests : ~(req[r].op = "delete" /\ req[r].pc # "idle")
           /\ \A x \in Slots : ~(job[x].op = "delete" /\ job[x].pc # "none")
BY DEF Apart, AtWork

\* Every step keeps a Delete right that goes on.
LEMMA GoneStep ==
    TypeOK /\ JobsFit /\ StepsFit /\ Apart /\ KnownGone /\ [Next]_vars => KnownGone'
<1>. SUFFICES ASSUME TypeOK, JobsFit, StepsFit, Apart, KnownGone, [Next]_vars
            PROVE KnownGone'
  OBVIOUS
<1>. USE DEF KnownGone, ToldGone
<1>t. /\ req \in [Requests -> ReqRecs] /\ job \in [Slots -> JobRecs]
      /\ Late \in Slots /\ Late \notin Requests /\ \A r \in Requests : r \in Slots
  BY Types DEF Slots
<1>r. /\ NoReq \in ReqRecs /\ NoReq.pc = "idle" /\ NoJob \in JobRecs /\ NoJob.pc = "none"
  BY RecordsTyped
<1>. USE <1>t, <1>r
<1>1. ASSUME NEW r \in Requests, Control(r)
      PROVE  KnownGone'
  <2>1. CASE Send(r)
    <3>1. PICK n \in ReqRecs, m \in JobRecs :
             /\ req' = [req EXCEPT ![r] = n] /\ n.pc = "wait"
             /\ job' = job \/ job' = [job EXCEPT ![r] = m]
             /\ m.pc = "call"
      BY <2>1, SendDoes
    <3>2. UNCHANGED <<client, crossed>> BY <2>1 DEF Send
    <3>. QED BY <3>1, <3>2
  <2>2. CASE Receive(r)
    <3>1. PICK n \in ReqRecs :
             /\ job[r].pc = "reply"
             /\ req' = [req EXCEPT ![r] = n] /\ job' = [job EXCEPT ![r] = NoJob]
             /\ n.pc \in {"drop", "row"} => n.op = req[r].op /\ job[r].result = "ok"
      BY <2>2, ReceiveDoes
    <3>2. UNCHANGED <<client, crossed>> BY <2>2 DEF Receive
    <3>3. job[r].op = req[r].op BY <3>1 DEF JobsFit
    <3>. QED BY <3>1, <3>2, <3>3
  <2>3. CASE Lose(r)
    <3>1. PICK n \in ReqRecs :
             /\ req' = [req EXCEPT ![r] = n] /\ n.pc \notin {"drop", "row"}
             /\ \/ job' = [job EXCEPT ![r] = NoJob]
                \/ job' = [job EXCEPT ![Late] = job[r], ![r] = NoJob]
      BY <2>3, LoseDoes
    <3>2. UNCHANGED <<client, crossed>> BY <2>3 DEF Lose
    <3>. QED BY <3>1, <3>2
  <2>4. CASE Save(r)
    <3>1. UNCHANGED <<client, crossed, job>> /\ req' = [req EXCEPT ![r] = NoReq]
      BY <2>4 DEF Save, Finish
    <3>. QED BY <3>1
  <2>5. CASE DropSnapshot(r)
    <3>1. PICK n \in ReqRecs : /\ req' = [req EXCEPT ![r] = n]
                               /\ n.pc = "idle" \/ n.op = req[r].op
      <4>1. CASE Goto(r, "row")
        BY <4>1, GotoDoes
      <4>2. CASE Finish(r)
        BY <4>2 DEF Finish
      <4>. QED BY <2>5, <4>1, <4>2 DEF DropSnapshot
    <3>2. req[r].pc = "drop" /\ UNCHANGED <<client, crossed, job>> BY <2>5 DEF DropSnapshot
    <3>. QED BY <3>1, <3>2
  <2>6. CASE DeleteRow(r)
    <3>1. UNCHANGED <<client, crossed, job>> /\ req' = [req EXCEPT ![r] = NoReq]
      BY <2>6 DEF DeleteRow, Finish
    <3>. QED BY <3>1
  <2>7. CASE Fallback(r)
    <3>1. UNCHANGED <<client, crossed, job>> /\ req' = [req EXCEPT ![r] = NoReq]
      BY <2>7 DEF Fallback, Finish
    <3>. QED BY <3>1
  <2>8. ASSUME NEW op \in Ops \ {"undo"}, Begin(r, op) PROVE KnownGone'
    <3>1. op \in Ops BY <2>8
    <3>2. PICK n \in ReqRecs : req' = [req EXCEPT ![r] = n] /\ n.pc = "send"
      BY <2>8, <3>1, BeginDoes
    <3>3. UNCHANGED <<client, job>> /\ (~crossed' => ~crossed)
      BY <2>8, <3>1, BeginApart
    <3>. QED BY <3>2, <3>3
  <2>. QED BY <1>1, <2>1, <2>2, <2>3, <2>4, <2>5, <2>6, <2>7, <2>8 DEF Control
<1>2. ASSUME NEW x \in Slots, Execute(x)
      PROVE  KnownGone'
  <2>1. CASE HandleConnect(x)
    <3>1. PICK m \in JobRecs :
             /\ job[x].pc = "call" /\ job' = [job EXCEPT ![x] = m]
             /\ m.pc = "none" \/ m.op = job[x].op
             /\ job[x].op = "delete" =>
                    \/ m.pc = "none" \/ ~client'
                    \/ m.pc = "reply" /\ m.result = "failed"
             /\ client' => client \/ job[x].op = "connect"
      BY <2>1, HandleDoes
    <3>2. UNCHANGED <<crossed, req>> BY <2>1 DEF HandleConnect
    <3>3. CASE job[x].op = "connect" /\ ~crossed
      <4>1. AtWork("connect") BY <3>1, <3>3 DEF AtWork
      <4>2. \A q \in Requests : ~(req[q].op = "delete" /\ req[q].pc # "idle")
        BY <4>1, <3>3, NoDeleteGoesOn
      <4>3. \A y \in Slots : ~(job[y].op = "delete" /\ job[y].pc # "none")
        BY <4>1, <3>3, NoDeleteGoesOn
      <4>. QED BY <3>1, <3>2, <3>3, <4>2, <4>3
    <3>4. CASE job[x].op # "connect"
      BY <3>1, <3>2, <3>4
    <3>. QED BY <3>2, <3>3, <3>4
  <2>2. CASE HandleDisconnect(x)
    <3>1. PICK m \in JobRecs :
             /\ job[x].pc = "call" /\ job' = [job EXCEPT ![x] = m]
             /\ m.pc = "none" \/ m.op = job[x].op
             /\ job[x].op = "delete" =>
                    \/ m.pc = "none" \/ ~client'
                    \/ m.pc = "reply" /\ m.result = "failed"
             /\ client' => client \/ job[x].op = "connect"
      BY <2>2, HandleDoes
    <3>2. UNCHANGED <<crossed, req>> BY <2>2 DEF HandleDisconnect
    <3>3. CASE job[x].op = "connect" /\ ~crossed
      <4>1. AtWork("connect") BY <3>1, <3>3 DEF AtWork
      <4>2. \A q \in Requests : ~(req[q].op = "delete" /\ req[q].pc # "idle")
        BY <4>1, <3>3, NoDeleteGoesOn
      <4>3. \A y \in Slots : ~(job[y].op = "delete" /\ job[y].pc # "none")
        BY <4>1, <3>3, NoDeleteGoesOn
      <4>. QED BY <3>1, <3>2, <3>3, <4>2, <4>3
    <3>4. CASE job[x].op # "connect"
      BY <3>1, <3>2, <3>4
    <3>. QED BY <3>2, <3>3, <3>4
  <2>3. CASE HandleStatus(x)
    <3>1. PICK m \in JobRecs :
             /\ job[x].pc = "call" /\ job' = [job EXCEPT ![x] = m]
             /\ m.pc = "none" \/ m.op = job[x].op
             /\ job[x].op = "delete" =>
                    \/ m.pc = "none" \/ ~client'
                    \/ m.pc = "reply" /\ m.result = "failed"
             /\ client' => client \/ job[x].op = "connect"
      BY <2>3, HandleDoes
    <3>2. UNCHANGED <<crossed, req>> BY <2>3 DEF HandleStatus
    <3>3. CASE job[x].op = "connect" /\ ~crossed
      <4>1. AtWork("connect") BY <3>1, <3>3 DEF AtWork
      <4>2. \A q \in Requests : ~(req[q].op = "delete" /\ req[q].pc # "idle")
        BY <4>1, <3>3, NoDeleteGoesOn
      <4>3. \A y \in Slots : ~(job[y].op = "delete" /\ job[y].pc # "none")
        BY <4>1, <3>3, NoDeleteGoesOn
      <4>. QED BY <3>1, <3>2, <3>3, <4>2, <4>3
    <3>4. CASE job[x].op # "connect"
      BY <3>1, <3>2, <3>4
    <3>. QED BY <3>2, <3>3, <3>4
  <2>4. CASE HandleUse(x)
    <3>1. PICK m \in JobRecs :
             /\ job[x].pc = "call" /\ job' = [job EXCEPT ![x] = m]
             /\ m.pc = "none" \/ m.op = job[x].op
             /\ job[x].op = "delete" =>
                    \/ m.pc = "none" \/ ~client'
                    \/ m.pc = "reply" /\ m.result = "failed"
             /\ client' => client \/ job[x].op = "connect"
      BY <2>4, HandleDoes
    <3>2. UNCHANGED <<crossed, req>> BY <2>4 DEF HandleUse
    <3>3. CASE job[x].op = "connect" /\ ~crossed
      <4>1. AtWork("connect") BY <3>1, <3>3 DEF AtWork
      <4>2. \A q \in Requests : ~(req[q].op = "delete" /\ req[q].pc # "idle")
        BY <4>1, <3>3, NoDeleteGoesOn
      <4>3. \A y \in Slots : ~(job[y].op = "delete" /\ job[y].pc # "none")
        BY <4>1, <3>3, NoDeleteGoesOn
      <4>. QED BY <3>1, <3>2, <3>3, <4>2, <4>3
    <3>4. CASE job[x].op # "connect"
      BY <3>1, <3>2, <3>4
    <3>. QED BY <3>2, <3>3, <3>4
  <2>5. CASE Persist(x)
    <3>1. PICK m \in JobRecs :
             /\ job[x].pc \in {"save", "drop"} /\ job' = [job EXCEPT ![x] = m]
             /\ m.pc = "none" \/ m.op = job[x].op
      BY <2>5, PersistDoes
    <3>2. job[x].op = "delete" => job[x].pc = "drop" BY <3>1 DEF StepsFit
    <3>3. UNCHANGED <<client, crossed, req>> BY <2>5 DEF Persist
    <3>. QED BY <3>1, <3>2, <3>3
  <2>. QED BY <1>2, <2>1, <2>2, <2>3, <2>4, <2>5 DEF Execute
<1>3. CASE Tick
  <2>1. \A r \in Requests : req'[r].pc = req[r].pc /\ req'[r].op = req[r].op
    BY <1>3 DEF Tick, ReqRecs
  <2>2. \A x \in Slots : /\ job'[x].pc = job[x].pc /\ job'[x].op = job[x].op
                        /\ job'[x].result = job[x].result
    BY <1>3 DEF Tick, JobRecs
  <2>3. UNCHANGED <<client, crossed>> BY <1>3 DEF Tick
  <2>. QED BY <2>1, <2>2, <2>3
<1>4. CASE DropUnhealthy BY <1>4 DEF DropUnhealthy
<1>5. CASE Crash BY <1>5 DEF Crash
<1>6. CASE Restart BY <1>6 DEF Restart
<1>7. CASE UNCHANGED vars BY <1>7 DEF vars
<1>. QED BY <1>1, <1>2, <1>3, <1>4, <1>5, <1>6, <1>7 DEF Next

-----------------------------------------------------------------------------
(* The theorems.                                                           *)

\* The initial states fit the invariant.
LEMMA InitFits == Init => IInv
<1>. SUFFICES ASSUME Init PROVE IInv
  OBVIOUS
<1>1. TypeOK BY RecordsTyped, Types DEF Init
<1>2. AgesFit BY RecordsTyped, ReadsDated DEF Init, AgesFit
<1>3. JobsFit BY RecordsTyped DEF Init, JobsFit, Slots
<1>4. StepsFit BY RecordsTyped DEF Init, StepsFit
<1>5. Apart BY RecordsTyped DEF Init, Apart, AtWork
<1>6. KnownGone BY RecordsTyped DEF Init, KnownGone
<1>. QED BY <1>1, <1>2, <1>3, <1>4, <1>5, <1>6 DEF IInv

\* Every step keeps the invariant.
LEMMA StepKeepsIInv == IInv /\ [Next]_vars => IInv'
<1>. SUFFICES ASSUME TypeOK, AgesFit, JobsFit, StepsFit, Apart, KnownGone, [Next]_vars
     PROVE  IInv'
  BY DEF IInv
<1>1. TypeOK' BY TypeStep
<1>2. AgesFit' BY ReqAges, JobAges, SnapAges DEF AgesFit
<1>. QED BY <1>1, <1>2, JobsStep, StepsStep, ApartStep, GoneStep DEF IInv

\* In every reachable state statuses are dated in time, the two sides of a
\* request fit, and a Delete that goes on is right (Client.doJSON,
\* MCPService.Delete, RemoteRuntimeAdapter.persistSnapshot).
THEOREM Invariant == Spec => []IInv
BY InitFits, StepKeepsIInv, PTL DEF Spec

\* Requests, jobs, statuses and the snapshot keep their shape.
THEOREM TypeCorrect == Spec => []TypeOK
<1>1. IInv => TypeOK
  BY DEF IInv
<1>. QED BY Invariant, <1>1, PTL

\* What isFreshSnapshot lets pass was read at the executor not longer ago than a
\* snapshot lives and a call may last, for every lifetime and every timeout.
THEOREM FreshMeansRecent == Spec => []FreshIsRecent
<1>1. IInv => FreshIsRecent
  <2>. SUFFICES ASSUME TypeOK, AgesFit, Fresh(snap) PROVE snap.read.seen <= TTL + Timeout
    BY DEF IInv, FreshIsRecent
  <2>1. snap.read.saved <= TTL /\ snap.read.seen <= snap.read.saved + Timeout
    BY DEF Fresh, AgesFit, Dated
  <2>2. snap.read.seen \in Nat /\ snap.read.saved \in Nat
    BY Types DEF Snaps, Reads
  <2>. QED BY <2>1, <2>2
<1>. QED BY Invariant, <1>1, PTL

\* A service whose row MCPService.Delete has removed has no connection at the
\* executor, unless a Connect was under way together with the Delete.
THEOREM DeletionCutsOff == Spec => []DeletedIsCutOff
<1>1. IInv => DeletedIsCutOff
  BY DEF IInv, Apart, DeletedIsCutOff
<1>. QED BY Invariant, <1>1, PTL

===============================================================================
