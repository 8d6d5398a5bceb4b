---------------------------- MODULE ServerProofs ----------------------------
(***************************************************************************)
(* Proofs about Server, for all sets of invocations and every choice of    *)
(* role, queues, workers and limits.                                       *)
(*                                                                         *)
(* That the history is kept hangs on the order of the clean-up.  The       *)
(* invariant says that what is left in cleanupFns is in the order in which *)
(* Build registers it, and has no gap below: while the history queue is    *)
(* there, so is the database its workers write to, and when the queue of   *)
(* the audit closes, the history queue has been drained.  A record is in   *)
(* that queue only while the queue is there.                               *)
(***************************************************************************)
EXTENDS Server, SequenceTheorems, TLAPS

\* The place of a clean-up function in the order of Build.
Rank(f) == CASE f = "db" -> 1 [] f = "audit" -> 2 [] f = "history" -> 3
             [] f = "invoke" -> 4 [] f = "health" -> 5 [] f = "cleanup" -> 6

Has(s, f) == \E i \in 1 .. Len(s) : s[i] = f
Sorted(s) == \A i, j \in 1 .. Len(s) : i < j => Rank(s[i]) < Rank(s[j])

\* What is left is in order, was wanted, and has all that was wanted below it.
OrderFits ==
    /\ Sorted(cleanupFns)
    /\ \A i \in 1 .. Len(cleanupFns) : Wanted(cleanupFns[i])
    /\ \A i \in 1 .. Len(cleanupFns), f \in Fns :
          Wanted(f) /\ Rank(f) < Rank(cleanupFns[i]) => There(f)

\* The record of an invocation that was answered has been handed over, and is
\* queued only as long as the queue is there.
HistoryFits(i) ==
    /\ hist[i] = "queued" => There("history")
    /\ hist[i] # "lost"
    /\ call[i] = "rpc" => ~RunsControlPlane
    /\ call[i] = "ok" /\ task[i] = "none" /\ RunsControlPlane => hist[i] # "none"
    /\ task[i] = "succeeded" => hist[i] # "none"

\* Nothing is registered before the database is open, or left at the end; a
\* panic of the health checker comes after the end of the history queue.
EndFits ==
    /\ health = "send" => cfg.audit
    /\ pc \in {"load", "open", "exited"} => cleanupFns = <<>>
    /\ pc = "crashed" => ~There("history")

IInv == TypeOK /\ OrderFits /\ EndFits /\ \A i \in Invocations : HistoryFits(i)

-----------------------------------------------------------------------------
(* The order of the clean-up.                                              *)

\* The registrations that have been made up to one of rank r.
UpTo(s, r) ==
    /\ s \in Seq(Fns) /\ Sorted(s)
    /\ \A i \in 1 .. Len(s) : Rank(s[i]) <= r /\ Wanted(s[i])
    /\ \A f \in Fns : Rank(f) <= r /\ Wanted(f) => Has(s, f)

\* The ranks are numbers, and different.
LEMMA Ranks == /\ \A f \in Fns : Rank(f) \in 1 .. 6
               /\ \A f, g \in Fns : Rank(f) = Rank(g) => f = g
<1>1. /\ Rank("db") = 1 /\ Rank("audit") = 2 /\ Rank("history") = 3
      /\ Rank("invoke") = 4 /\ Rank("health") = 5 /\ Rank("cleanup") = 6
  BY DEF Rank
<1>. QED BY <1>1 DEF Fns

\* There and Has are the same.
LEMMA ThereIsHas == cleanupFns \in Seq(Fns) => \A f : There(f) <=> Has(cleanupFns, f)
BY DEF There, Has

\* One more registration, if it is wanted.
LEMMA RegisterOne ==
    ASSUME NEW s, NEW r \in Nat, UpTo(s, r), NEW f \in Fns, Rank(f) = r + 1
    PROVE  UpTo(s \o IfWanted(f), r + 1)
<1>1. s \in Seq(Fns) /\ Len(s) \in Nat /\ \A i \in 1 .. Len(s) : s[i] \in Fns
  BY DEF UpTo
<1>2. \A g \in Fns : Rank(g) \in Nat /\ (Rank(g) = r + 1 => g = f)
  BY Ranks
<1>3. CASE Wanted(f)
  <2>. DEFINE t == s \o <<f>>
  <2>1. t \in Seq(Fns) /\ Len(t) = Len(s) + 1
        /\ \A i \in 1 .. Len(s) + 1 : t[i] = IF i <= Len(s) THEN s[i] ELSE f
    BY <1>1
  <2>2. s \o IfWanted(f) = t
    BY <1>3 DEF IfWanted
  <2>. HIDE DEF t
  <2>3. \A i \in 1 .. Len(t) : Rank(t[i]) <= r + 1 /\ Wanted(t[i])
    <3>. SUFFICES ASSUME NEW i \in 1 .. Len(t) PROVE Rank(t[i]) <= r + 1 /\ Wanted(t[i])
      OBVIOUS
    <3>1. CASE i <= Len(s)
      <4>1. t[i] = s[i] /\ i \in 1 .. Len(s) BY <1>1, <2>1, <3>1
      <4>2. Rank(s[i]) <= r /\ Wanted(s[i]) /\ Rank(s[i]) \in Nat BY <1>1, <1>2, <4>1 DEF UpTo
      <4>. QED BY <4>1, <4>2
    <3>2. CASE i = Len(s) + 1
      <4>1. t[i] = f BY <1>1, <2>1, <3>2
      <4>. QED BY <1>3, <4>1
    <3>. QED BY <1>1, <2>1, <3>1, <3>2
  <2>4. Sorted(t)
    <3>. SUFFICES ASSUME NEW i \in 1 .. Len(t), NEW j \in 1 .. Len(t), i < j
                  PROVE  Rank(t[i]) < Rank(t[j])
      BY DEF Sorted
    <3>1. CASE j <= Len(s)
      BY <1>1, <2>1, <3>1 DEF UpTo, Sorted
    <3>2. CASE j = Len(s) + 1
      <4>1. t[j] = f /\ i \in 1 .. Len(s) /\ t[i] = s[i]
        BY <1>1, <2>1, <3>2
      <4>2. Rank(s[i]) <= r /\ Rank(s[i]) \in Nat
        BY <1>1, <1>2, <4>1 DEF UpTo
      <4>. QED BY <4>1, <4>2
    <3>. QED BY <1>1, <2>1, <3>1, <3>2
  <2>5. \A g \in Fns : Rank(g) <= r + 1 /\ Wanted(g) => Has(t, g)
    <3>. SUFFICES ASSUME NEW g \in Fns, Rank(g) <= r + 1, Wanted(g) PROVE Has(t, g)
      OBVIOUS
    <3>1. CASE Rank(g) <= r
      <4>1. PICK i \in 1 .. Len(s) : s[i] = g BY <3>1 DEF UpTo, Has
      <4>2. i \in 1 .. Len(t) /\ t[i] = g BY <1>1, <2>1, <4>1
      <4>. QED BY <4>2 DEF Has
    <3>2. CASE g = f
      <4>1. Len(t) \in 1 .. Len(t) /\ t[Len(t)] = f BY <1>1, <2>1
      <4>. QED BY <3>2, <4>1 DEF Has
    <3>. QED BY <1>2, <3>1, <3>2
  <2>. QED BY <2>1, <2>2, <2>3, <2>4, <2>5 DEF UpTo
<1>4. CASE ~Wanted(f)
  <2>1. s \o IfWanted(f) = s
    BY <1>1, <1>4, ConcatEmptySeq DEF IfWanted
  <2>2. \A g \in Fns : Rank(g) <= r + 1 /\ Wanted(g) => Rank(g) <= r
    BY <1>2, <1>4
  <2>3. \A i \in 1 .. Len(s) : Rank(s[i]) <= r + 1
    BY <1>1, <1>2 DEF UpTo
  <2>. QED BY <2>1, <2>2, <2>3 DEF UpTo
<1>. QED BY <1>3, <1>4

\* Build registers all that is wanted, in order.
LEMMA RegisteredInOrder == UpTo(<<"db">>, 1) /\ UpTo(Registered, 6)
<1>1. UpTo(<<"db">>, 1)
  <2>. DEFINE s == <<"db">>
  <2>1. s \in Seq(Fns) /\ Len(s) = 1 /\ s[1] = "db"
    BY DEF Fns
  <2>2. Rank("db") = 1 /\ Wanted("db") /\ "db" \in Fns
    BY DEF Rank, Wanted, Fns
  <2>3. \A f \in Fns : Rank(f) <= 1 => f = "db"
    BY DEF Rank, Fns
  <2>. HIDE DEF s
  <2>. QED BY <2>1, <2>2, <2>3 DEF UpTo, Sorted, Has, s
<1>2. Rank("audit") = 2 /\ Rank("history") = 3 /\ Rank("invoke") = 4
      /\ Rank("health") = 5 /\ Rank("cleanup") = 6
  BY DEF Rank
<1>3. {"audit", "history", "invoke", "health", "cleanup"} \subseteq Fns
  BY DEF Fns
<1>4. IfWanted("invoke") = <<"invoke">>
  BY DEF IfWanted, Wanted
<1>5. UpTo(<<"db">> \o IfWanted("audit"), 2)
  BY <1>1, <1>2, <1>3, RegisterOne
<1>6. UpTo(<<"db">> \o IfWanted("audit") \o IfWanted("history"), 3)
  BY <1>2, <1>3, <1>5, RegisterOne
<1>7. UpTo(<<"db">> \o IfWanted("audit") \o IfWanted("history") \o <<"invoke">>, 4)
  BY <1>2, <1>3, <1>4, <1>6, RegisterOne
<1>8. UpTo(<<"db">> \o IfWanted("audit") \o IfWanted("history") \o <<"invoke">>
           \o IfWanted("health"), 5)
  BY <1>2, <1>3, <1>7, RegisterOne
<1>9. UpTo(Registered, 6)
  BY <1>2, <1>3, <1>8, RegisterOne DEF Registered
<1>. QED BY <1>1, <1>9

\* Cleanup takes the last of the functions away, and moves none.
LEMMA OthersAreFront ==
    ASSUME cleanupFns \in Seq(Fns), cleanupFns # <<>>
    PROVE  /\ Others \in Seq(Fns) /\ Len(Others) = Len(cleanupFns) - 1
           /\ \A i \in 1 .. Len(cleanupFns) - 1 : Others[i] = cleanupFns[i]
<1>. DEFINE n == Len(cleanupFns)
<1>1. n \in Nat \ {0} /\ \A i \in 1 .. n : cleanupFns[i] \in Fns
  BY EmptySeq
<1>. DEFINE front == SubSeq(cleanupFns, 1, n - 1)
<1>2. /\ front \in Seq(Fns) /\ Len(front) = n - 1
      /\ \A i \in 1 .. n - 1 : front[i] = cleanupFns[i]
  <2>1. 1 \in Int /\ n - 1 \in Int /\ \A i \in 1 .. n - 1 : cleanupFns[i] \in Fns
    BY <1>1
  <2>2. /\ front \in Seq(Fns) /\ Len(front) = IF 1 <= n - 1 THEN (n - 1) - 1 + 1 ELSE 0
        /\ \A i \in 1 .. (n - 1) - 1 + 1 : front[i] = cleanupFns[1 + i - 1]
    BY <2>1, SubSeqProperties
  <2>. HIDE DEF front
  <2>3. Len(front) = n - 1
    <3>1. n \in Nat \ {0} BY <1>1
    <3>. HIDE DEF n
    <3>. QED BY <2>2, <3>1
  <2>4. \A i \in 1 .. n - 1 : i \in 1 .. (n - 1) - 1 + 1 /\ 1 + i - 1 = i
    BY <1>1
  <2>5. \A i \in 1 .. n - 1 : front[i] = cleanupFns[i]
    BY <2>2, <2>4
  <2>. QED BY <2>2, <2>3, <2>5
<1>3. SubSeq(cleanupFns, n + 1, n) = <<>>
  BY <1>1, SubSeqEmpty
<1>4. Others = front
  BY <1>2, <1>3, ConcatEmptySeq DEF Others, Position
<1>. QED BY <1>2, <1>4

-----------------------------------------------------------------------------
(* The types.                                                              *)

Calls == {"none", "invoke", "invoke-async", "rpc", "call", "record", "ok", "error"}
Tasks == {"none", "queued", "run", "record", "succeeded", "failed"}
Rows == {"none", "queued", "written", "refused", "lost"}

\* A step of main, of a signal, and the health report that panics leave the
\* invocations alone; what serves them leaves main alone.
Mains == Main \/ Stop \/ Kill
Serving(i) == Handler(i) \/ Worker(i) \/ Write(i)

\* The steps, by what they may change.
LEMMA Steps ==
    ASSUME [Next]_vars
    PROVE  \/ Mains \/ Background \/ UNCHANGED vars
           \/ \E i \in Invocations : Serving(i)
BY DEF Next, Mains, Serving

\* main and the operating system only go on with the process itself.
LEMMA MainFrame == Mains => UNCHANGED <<cfg, call, task, hist, health>>
<1>1. Load \/ OpenDatabase \/ Assemble \/ Stop \/ Kill => UNCHANGED <<cfg, call, task, hist, health>>
  BY DEF Load, OpenDatabase, Assemble, Stop, Kill
<1>2. Migrate \/ EnsureAdmin \/ Reconcile => UNCHANGED <<cfg, call, task, hist, health>>
  BY DEF Migrate, EnsureAdmin, Reconcile, Prepared, Skipped
<1>3. Shutdown \/ Expire \/ Cleanup => UNCHANGED <<cfg, call, task, hist, health>>
  BY DEF Shutdown, Expire, Cleanup
<1>. QED BY <1>1, <1>2, <1>3 DEF Mains, Main

\* The names of the servers.
LEMMA NamesTyped == Names \in Seq({"http", "rpc"})
                    /\ \A i \in DOMAIN Names : Names[i] \in {"http", "rpc"}
<1>1. <<"http", "rpc">> \in Seq({"http", "rpc"}) /\ <<"http">> \in Seq({"http", "rpc"})
  OBVIOUS
<1>2. Names \in Seq({"http", "rpc"}) BY <1>1 DEF Names
<1>. QED BY <1>2

\* What main does to its own state is of its type.
LEMMA MainTyped == TypeOK /\ Mains => TypeOK'
<1>. SUFFICES ASSUME TypeOK, Mains PROVE TypeOK'
  OBVIOUS
<1>. DEFINE Pcs == {"load", "open", "migrate", "admin", "reconcile", "assemble", "serve",
                    "shutdown", "clean"} \cup Gone
            OwnTyped == /\ schema' \in BOOLEAN /\ pc' \in Pcs
                        /\ failed' \in BOOLEAN /\ closing' \in BOOLEAN /\ expired' \in BOOLEAN
                        /\ cleanupFns' \in Seq(Fns)
                        /\ listening' \subseteq {"http", "rpc"}
                        /\ servers' \in Seq({"http", "rpc"})
<1>1. CASE Load \/ OpenDatabase \/ Stop \/ Kill \/ Expire
  <2>1. <<"db">> \in Seq(Fns)
    BY DEF Fns
  <2>2. OwnTyped
    BY <1>1, <2>1 DEF Load, OpenDatabase, Stop, Kill, Expire, TypeOK, Gone
  <2>. QED BY <2>2, MainFrame DEF TypeOK
<1>2. CASE Migrate \/ EnsureAdmin \/ Reconcile
  <2>1. OwnTyped
    BY <1>2 DEF Migrate, EnsureAdmin, Reconcile, Prepared, Skipped, TypeOK, Gone
  <2>. QED BY <2>1, MainFrame DEF TypeOK
<1>3. CASE Assemble
  <2>1. Registered \in Seq(Fns)
    BY RegisteredInOrder DEF UpTo
  <2>2. {Names[i] : i \in DOMAIN Names} \subseteq {"http", "rpc"}
    BY NamesTyped
  <2>3. OwnTyped
    BY <1>3, <2>1, <2>2, NamesTyped DEF Assemble, TypeOK
  <2>. QED BY <2>3, MainFrame DEF TypeOK
<1>4. CASE Shutdown
  <2>1. servers # <<>> => Tail(servers) \in Seq({"http", "rpc"})
    BY HeadTailProperties DEF TypeOK
  <2>2. OwnTyped
    BY <1>4, <2>1 DEF Shutdown, TypeOK, Gone
  <2>. QED BY <2>2, MainFrame DEF TypeOK
<1>5. CASE Cleanup
  <2>1. cleanupFns # <<>> => Others \in Seq(Fns)
    BY OthersAreFront DEF TypeOK
  <2>2. OwnTyped
    BY <1>5, <2>1 DEF Cleanup, TypeOK, Gone
  <2>. QED BY <2>2, MainFrame DEF TypeOK
<1>. QED BY <1>1, <1>2, <1>3, <1>4, <1>5 DEF Mains, Main

\* A record is kept, or nothing happens to the history; it is queued only while
\* the queue is there.
LEMMA KeptEffect ==
    ASSUME TypeOK, NEW i \in Invocations, NEW ok \in BOOLEAN, Kept(i, ok)
    PROVE  /\ hist' \in [Invocations -> Rows]
           /\ \A j \in Invocations \ {i} : hist'[j] = hist[j]
           /\ ok => hist'[i] \in {"queued", "written"}
           /\ ~ok => hist'[i] = hist[i]
           /\ hist'[i] = "queued" => There("history") \/ hist[i] = "queued"
<1>1. hist \in [Invocations -> Rows]
  BY DEF TypeOK, Rows
<1>2. CASE ok /\ Open("history") /\ hist' = [hist EXCEPT ![i] = "queued"]
  BY <1>1, <1>2 DEF Open, Rows
<1>3. CASE ok /\ hist' = [hist EXCEPT ![i] = "written"]
  BY <1>1, <1>3 DEF Rows
<1>4. CASE ~ok /\ UNCHANGED hist
  BY <1>1, <1>4
<1>. QED BY <1>2, <1>3, <1>4 DEF Kept

\* What serving an invocation does: only to this invocation, and an answer that
\* is a success comes with a record, by the executor's RPC excepted.
LEMMA ServingEffect ==
    ASSUME TypeOK, NEW i \in Invocations, Serving(i)
    PROVE  /\ UNCHANGED main /\ UNCHANGED health /\ Alive
           /\ call' \in [Invocations -> Calls] /\ task' \in [Invocations -> Tasks]
           /\ hist' \in [Invocations -> Rows]
           /\ \A j \in Invocations \ {i} :
                 call'[j] = call[j] /\ task'[j] = task[j] /\ hist'[j] = hist[j]
           /\ hist[i] # "none" => hist'[i] # "none"
           /\ hist'[i] = "queued" => hist[i] = "queued" \/ There("history")
           /\ hist'[i] = "lost" => hist[i] = "lost" \/ (hist[i] = "queued" /\ ~There("db"))
           /\ call'[i] = "rpc" => call[i] = "rpc" \/ cfg.role = "executor"
           /\ call'[i] = "ok" => \/ call[i] \in {"ok", "rpc"}
                                 \/ hist'[i] \in {"queued", "written"}
                                 \/ task'[i] # "none"
           /\ task'[i] = "none" => task[i] = "none"
           /\ task'[i] = "succeeded" => \/ task[i] = "succeeded"
                                        \/ hist'[i] \in {"queued", "written"}
<1>. USE DEF Calls, Tasks, Rows
<1>1. /\ call \in [Invocations -> Calls] /\ task \in [Invocations -> Tasks]
      /\ hist \in [Invocations -> Rows]
  BY DEF TypeOK
<1>2. CASE \/ \E kind \in {"invoke", "invoke-async", "rpc"} : Receive(i, kind)
           \/ Refuse(i) \/ CallTool(i) \/ Invoke(i) \/ Return(i)
  <2>1. UNCHANGED <<main, task, hist, health>> /\ Alive
    BY <1>2 DEF Receive, Refuse, CallTool, Invoke, Return
  <2>2. PICK c \in Calls : /\ call' = [call EXCEPT ![i] = c]
                           /\ c = "rpc" => cfg.role = "executor"
                           /\ c = "ok" => call[i] = "rpc"
    BY <1>2 DEF Receive, Refuse, CallTool, Invoke, Return, Serves
  <2>. QED BY <1>1, <2>1, <2>2
<1>3. CASE InvokeAsync(i)
  <2>1. UNCHANGED <<main, hist, health>> /\ Alive
        /\ call' = [call EXCEPT ![i] = "ok"] /\ task' = [task EXCEPT ![i] = "queued"]
    BY <1>3 DEF InvokeAsync
  <2>. QED BY <1>1, <2>1
<1>4. CASE Record(i)
  <2>1. PICK ok \in BOOLEAN :
           /\ Kept(i, ok)
           /\ \E answer \in IF ok THEN {"ok", "error"} ELSE {"error"} :
                 call' = [call EXCEPT ![i] = answer]
    BY <1>4 DEF Record
  <2>2. UNCHANGED <<main, task, health>> /\ Alive
    BY <1>4 DEF Record
  <2>3. PICK answer \in {"ok", "error"} : call' = [call EXCEPT ![i] = answer] /\ (answer = "ok" => ok)
    BY <2>1
  <2>. QED BY <1>1, <2>1, <2>2, <2>3, KeptEffect
<1>5. CASE Start(i) \/ GiveUp(i) \/ Run(i)
  <2>1. UNCHANGED <<main, call, hist, health>> /\ Alive
    BY <1>5 DEF Start, GiveUp, Run
  <2>2. PICK t \in {"run", "failed", "record"} : task' = [task EXCEPT ![i] = t]
    BY <1>5 DEF Start, GiveUp, Run
  <2>. QED BY <1>1, <2>1, <2>2
<1>6. CASE Finish(i)
  <2>1. PICK ok \in BOOLEAN :
           /\ Kept(i, ok)
           /\ \E answer \in IF ok THEN {"succeeded", "failed"} ELSE {"failed"} :
                 task' = [task EXCEPT ![i] = answer]
    BY <1>6 DEF Finish
  <2>2. UNCHANGED <<main, call, health>> /\ Alive
    BY <1>6 DEF Finish
  <2>3. PICK answer \in {"succeeded", "failed"} :
           task' = [task EXCEPT ![i] = answer] /\ (answer = "succeeded" => ok)
    BY <2>1
  <2>. QED BY <1>1, <2>1, <2>2, <2>3, KeptEffect
<1>7. CASE Write(i)
  <2>1. UNCHANGED <<main, call, task, health>> /\ Alive /\ hist[i] = "queued"
    BY <1>7 DEF Write
  <2>2. PICK h \in {"written", "refused", "lost"} :
           hist' = [hist EXCEPT ![i] = h] /\ (h = "lost" => ~There("db"))
    BY <1>7 DEF Write
  <2>. QED BY <1>1, <2>1, <2>2
<1>. QED BY <1>2, <1>3, <1>4, <1>5, <1>6, <1>7 DEF Serving, Handler, Worker

\* The health checker changes its own state, and panics on a closed queue.
LEMMA BackgroundEffect ==
    ASSUME TypeOK, Background
    PROVE  /\ UNCHANGED <<cfg, schema, failed, cleanupFns, closing, listening, servers,
                          expired, call, task, hist>>
           /\ health' \in {"idle", "report", "send"} /\ Alive
           /\ pc' = pc \/ (pc' = "crashed" /\ health = "send" /\ ~Open("audit"))
           /\ health' = "send" => Open("audit")
BY DEF Background, Check, Report, Send, main, TypeOK

\* Every step keeps the types.
LEMMA NextTyped == TypeOK /\ [Next]_vars => TypeOK'
<1>. SUFFICES ASSUME TypeOK, [Next]_vars PROVE TypeOK'
  OBVIOUS
<1>1. CASE Mains BY <1>1, MainTyped
<1>2. CASE Background BY <1>2, BackgroundEffect DEF TypeOK, Gone
<1>3. ASSUME NEW i \in Invocations, Serving(i) PROVE TypeOK'
  BY <1>3, ServingEffect DEF TypeOK, Calls, Tasks, Rows, main
<1>4. CASE UNCHANGED vars BY <1>4 DEF TypeOK, vars
<1>. QED BY <1>1, <1>2, <1>3, <1>4, Steps

-----------------------------------------------------------------------------
(* The invariant.                                                          *)

\* Nothing has been asked and nothing is registered.
LEMMA InitInvariant == Init => IInv
<1>. SUFFICES ASSUME Init PROVE IInv
  OBVIOUS
<1>1. cleanupFns = <<>> /\ Len(cleanupFns) = 0
  BY DEF Init
<1>2. TypeOK
  <2>1. <<>> \in Seq(Fns) /\ <<>> \in Seq({"http", "rpc"})
    OBVIOUS
  <2>. QED BY <2>1 DEF Init, TypeOK
<1>3. OrderFits
  BY <1>1 DEF OrderFits, Sorted
<1>4. EndFits /\ \A i \in Invocations : HistoryFits(i)
  BY DEF Init, EndFits, HistoryFits
<1>. QED BY <1>2, <1>3, <1>4 DEF IInv

\* What is above the database is there only with it, and the history queue is
\* gone before the queue of the audit closes.
LEMMA OrderMeans ==
    ASSUME TypeOK, OrderFits
    PROVE  /\ There("history") => There("db")
           /\ cfg.audit /\ ~Open("audit") => ~There("history")
<1>. DEFINE n == Len(cleanupFns)
<1>1. n \in Nat /\ DOMAIN cleanupFns = 1 .. n
  BY DEF TypeOK
<1>2. Rank("db") = 1 /\ Rank("audit") = 2 /\ Rank("history") = 3
  BY DEF Rank
<1>3. {"db", "audit", "history"} \subseteq Fns /\ Wanted("db") /\ (cfg.audit => Wanted("audit"))
  BY DEF Fns, Wanted
<1>4. ASSUME There("history") PROVE There("db") /\ (cfg.audit => There("audit"))
  <2>1. PICK i \in 1 .. n : cleanupFns[i] = "history"
    BY <1>1, <1>4 DEF There
  <2>. QED BY <1>2, <1>3, <2>1 DEF OrderFits
<1>5. ASSUME There("history"), NextFn = "audit" PROVE FALSE
  <2>1. PICK i \in 1 .. n : cleanupFns[i] = "history"
    BY <1>1, <1>5 DEF There
  <2>2. cleanupFns[n] = "audit"
    BY <1>5 DEF NextFn, Position
  <2>. HIDE DEF n
  <2>3. i # n
    BY <2>1, <2>2
  <2>4. n \in Nat /\ i \in 1 .. n
    BY <1>1
  <2>5. i < n /\ n \in 1 .. n
    BY <2>3, <2>4
  <2>. USE DEF n
  <2>. QED BY <2>5, <1>2, <2>1, <2>2, <2>3 DEF OrderFits, Sorted
<1>. QED BY <1>4, <1>5 DEF Open

\* The order stays while neither the configuration nor cleanupFns change.
LEMMA OrderStays ==
    ASSUME OrderFits, UNCHANGED <<cfg, cleanupFns>>
    PROVE  OrderFits' /\ \A f : There(f)' <=> There(f)
BY DEF OrderFits, Sorted, There, Wanted, RunsControlPlane, RunsLocalRuntime

\* Start-up brings them into order, and the clean-up takes away from the end.
LEMMA OrderKept ==
    ASSUME TypeOK, OrderFits, Mains
    PROVE  OrderFits'
<1>1. UNCHANGED cfg BY MainFrame
<1>2. \A f : Wanted(f)' <=> Wanted(f)
  BY <1>1 DEF Wanted, RunsControlPlane, RunsLocalRuntime
<1>3. CASE UNCHANGED cleanupFns
  BY <1>1, <1>3, OrderStays
<1>4. ASSUME NEW r \in Nat, UpTo(cleanupFns', r) PROVE OrderFits'
  <2>. DEFINE s == cleanupFns'
  <2>1. s \in Seq(Fns) /\ Sorted(s) /\ Len(s) \in Nat /\ DOMAIN s = 1 .. Len(s)
    BY <1>4 DEF UpTo
  <2>2. \A i \in 1 .. Len(s) : Wanted(s[i]) /\ Rank(s[i]) \in Nat /\ Rank(s[i]) <= r
    BY <1>4, <2>1, Ranks DEF UpTo
  <2>3. \A i \in 1 .. Len(s), f \in Fns : Wanted(f) /\ Rank(f) < Rank(s[i]) => Has(s, f)
    <3>. SUFFICES ASSUME NEW i \in 1 .. Len(s), NEW f \in Fns, Wanted(f),
                         Rank(f) < Rank(s[i])
                  PROVE  Has(s, f)
      OBVIOUS
    <3>1. Rank(f) \in Nat /\ Rank(s[i]) \in Nat /\ Rank(s[i]) <= r BY <2>2, Ranks
    <3>2. Rank(f) <= r BY <3>1
    <3>. QED BY <1>4, <3>2 DEF UpTo
  <2>4. Sorted(cleanupFns)' /\ \A f : There(f)' <=> Has(s, f)
    BY <2>1 DEF Sorted, There, Has
  <2>. QED BY <1>2, <2>2, <2>3, <2>4 DEF OrderFits
<1>5. CASE OpenDatabase /\ cleanupFns' = <<"db">>
  BY <1>4, <1>5, RegisteredInOrder
<1>6. CASE cleanupFns' = Registered
  BY <1>4, <1>6, RegisteredInOrder
<1>7. CASE cleanupFns # <<>> /\ cleanupFns' = Others
  <2>. DEFINE n == Len(cleanupFns)
              s == cleanupFns'
  <2>1. /\ s \in Seq(Fns) /\ Len(s) = n - 1 /\ n \in Nat
        /\ \A i \in 1 .. n - 1 : s[i] = cleanupFns[i]
    BY <1>7, OthersAreFront DEF TypeOK
  <2>2. \A i \in 1 .. n - 1 : i \in 1 .. n
    BY <2>1
  <2>3. Sorted(cleanupFns)'
    BY <2>1, <2>2 DEF OrderFits, Sorted
  <2>4. \A i \in 1 .. Len(s) : Wanted(s[i])
    BY <2>1, <2>2 DEF OrderFits
  <2>5. ASSUME NEW i \in 1 .. Len(s), NEW f \in Fns, Wanted(f), Rank(f) < Rank(s[i])
        PROVE  There(f)'
    <3>1. i \in 1 .. n - 1 /\ s[i] = cleanupFns[i] /\ i \in 1 .. n
      BY <2>1, <2>2
    <3>2. PICK j \in 1 .. n : cleanupFns[j] = f
      BY <2>5, <3>1 DEF OrderFits, There, TypeOK
    <3>3. \A k \in 1 .. n : Rank(cleanupFns[k]) \in Nat
      <4>1. \A k \in 1 .. n : cleanupFns[k] \in Fns BY DEF TypeOK
      <4>. QED BY <4>1, Ranks
    <3>4. j < i
      <4>1. CASE j = i BY <2>5, <3>1, <3>2, <3>3, <4>1
      <4>2. CASE i < j
        <5>1. Rank(cleanupFns[i]) < Rank(cleanupFns[j])
          BY <3>1, <4>2 DEF OrderFits, Sorted
        <5>. QED BY <2>5, <3>1, <3>2, <3>3, <5>1
      <4>. QED BY <2>1, <4>1, <4>2
    <3>5. j \in 1 .. n - 1 /\ s[j] = f
      BY <2>1, <3>2, <3>4
    <3>6. DOMAIN s = 1 .. n - 1
      BY <2>1
    <3>. QED BY <3>5, <3>6 DEF There
  <2>. QED BY <1>2, <2>3, <2>4, <2>5 DEF OrderFits
<1>8. CASE Load \/ Stop \/ Kill \/ Shutdown \/ Expire \/ Migrate \/ EnsureAdmin \/ Reconcile
  <2>1. UNCHANGED cleanupFns
    BY <1>8 DEF Load, Stop, Kill, Shutdown, Expire, Migrate, EnsureAdmin, Reconcile,
         Prepared, Skipped
  <2>. QED BY <1>3, <2>1
<1>9. CASE OpenDatabase BY <1>3, <1>5, <1>9 DEF OpenDatabase
<1>10. CASE Assemble BY <1>6, <1>10 DEF Assemble
<1>11. CASE Cleanup BY <1>3, <1>7, <1>11 DEF Cleanup
<1>. QED BY <1>8, <1>9, <1>10, <1>11 DEF Mains, Main

\* The history queue comes with the assembly, before any record, and is taken
\* away when it is empty.
LEMMA MainKeeps ==
    ASSUME IInv, TypeOK', Mains, NEW i \in Invocations
    PROVE  HistoryFits(i)'
<1>1. UNCHANGED <<cfg, call, task, hist, health>> BY MainFrame
<1>2. ASSUME hist[i] = "queued" PROVE There("history")'
  <2>. DEFINE n == Len(cleanupFns)
  <2>1. There("history") /\ cleanupFns # <<>>
    BY <1>2 DEF IInv, HistoryFits, There
  <2>2. PICK j \in 1 .. n : cleanupFns[j] = "history"
    BY <2>1 DEF IInv, TypeOK, There
  <2>3. CASE UNCHANGED cleanupFns
    BY <2>1, <2>3 DEF There
  <2>4. CASE OpenDatabase
    BY <2>1, <2>4 DEF OpenDatabase, IInv, EndFits
  <2>5. CASE cleanupFns' = Registered
    <3>1. "history" \in Fns /\ Rank("history") <= 6 /\ Wanted("history")
      BY <2>2 DEF Fns, Rank, IInv, OrderFits
    <3>2. Has(Registered, "history") /\ Registered \in Seq(Fns)
      BY <3>1, RegisteredInOrder DEF UpTo
    <3>. QED BY <2>5, <3>2 DEF Has, There
  <2>6. CASE Done(NextFn) /\ cleanupFns' = Others
    <3>1. cleanupFns[n] # "history"
      BY <1>2, <2>6 DEF Done, NextFn, Position
    <3>2. /\ Others \in Seq(Fns) /\ Len(Others) = n - 1 /\ n \in Nat
          /\ \A k \in 1 .. n - 1 : Others[k] = cleanupFns[k]
      BY <2>1, OthersAreFront DEF IInv, TypeOK
    <3>3. j \in 1 .. n - 1
      BY <2>2, <3>1, <3>2
    <3>4. Others[j] = "history" /\ j \in DOMAIN Others
      BY <2>2, <3>2, <3>3
    <3>. QED BY <2>6, <3>4 DEF There
  <2>7. CASE Load \/ Stop \/ Kill \/ Shutdown \/ Expire \/ Migrate \/ EnsureAdmin \/ Reconcile
    <3>1. UNCHANGED cleanupFns
      BY <2>7 DEF Load, Stop, Kill, Shutdown, Expire, Migrate, EnsureAdmin, Reconcile,
           Prepared, Skipped
    <3>. QED BY <2>3, <3>1
  <2>8. CASE Assemble BY <2>5, <2>8 DEF Assemble
  <2>9. CASE Cleanup BY <2>3, <2>6, <2>9 DEF Cleanup
  <2>. QED BY <2>4, <2>7, <2>8, <2>9 DEF Mains, Main
<1>3. RunsControlPlane' <=> RunsControlPlane
  BY <1>1 DEF RunsControlPlane
<1>. QED BY <1>1, <1>2, <1>3 DEF IInv, HistoryFits

\* main exits when all is cleaned up.
LEMMA MainEnds ==
    ASSUME IInv, Mains
    PROVE  EndFits'
<1>1. UNCHANGED <<cfg, call, task, hist, health>> BY MainFrame
<1>2. pc' # "crashed" /\ (pc' \in {"load", "open", "exited"} => cleanupFns' = <<>>)
  <2>1. CASE Load
    BY <2>1 DEF Load, IInv, EndFits
  <2>2. CASE OpenDatabase \/ Assemble \/ Stop \/ Kill
    BY <2>2 DEF OpenDatabase, Assemble, Stop, Kill
  <2>3. CASE Shutdown \/ Expire
    BY <2>3 DEF Shutdown, Expire
  <2>4. CASE Migrate \/ EnsureAdmin \/ Reconcile
    BY <2>4 DEF Migrate, EnsureAdmin, Reconcile, Prepared, Skipped
  <2>5. CASE Cleanup
    BY <2>5 DEF Cleanup
  <2>. QED BY <2>1, <2>2, <2>3, <2>4, <2>5 DEF Mains, Main
<1>. QED BY <1>1, <1>2 DEF IInv, EndFits

\* Every step keeps the invariant.
LEMMA NextInvariant == IInv /\ [Next]_vars => IInv'
<1>. SUFFICES ASSUME IInv, [Next]_vars PROVE IInv'
  OBVIOUS
<1>1. TypeOK /\ OrderFits /\ TypeOK'
  BY NextTyped DEF IInv
<1>2. CASE Mains
  BY <1>1, <1>2, OrderKept, MainKeeps, MainEnds DEF IInv
<1>3. CASE Background
  <2>1. /\ UNCHANGED <<cfg, cleanupFns, call, task, hist>> /\ Alive
        /\ pc' = pc \/ (pc' = "crashed" /\ health = "send" /\ ~Open("audit"))
        /\ health' = "send" => Open("audit")
    BY <1>1, <1>3, BackgroundEffect
  <2>2. OrderFits' /\ \A f : There(f)' <=> There(f)
    BY <1>1, <2>1, OrderStays
  <2>3. Open("audit") => cfg.audit
    <3>. SUFFICES ASSUME Open("audit") PROVE cfg.audit
      OBVIOUS
    <3>1. PICK j \in DOMAIN cleanupFns : cleanupFns[j] = "audit" BY DEF Open, There
    <3>2. Wanted("audit") BY <1>1, <3>1 DEF OrderFits, TypeOK
    <3>. QED BY <3>2 DEF Wanted
  <2>4. EndFits'
    BY <1>1, <2>1, <2>2, <2>3, OrderMeans DEF IInv, EndFits
  <2>5. \A i \in Invocations : HistoryFits(i)'
    BY <2>1, <2>2 DEF IInv, HistoryFits, RunsControlPlane
  <2>. QED BY <1>1, <2>2, <2>4, <2>5 DEF IInv
<1>4. ASSUME NEW i \in Invocations, Serving(i) PROVE IInv'
  <2>1. UNCHANGED <<cfg, cleanupFns, pc, health>>
    BY <1>1, <1>4, ServingEffect DEF main
  <2>2. OrderFits' /\ \A f : There(f)' <=> There(f)
    BY <1>1, <2>1, OrderStays
  <2>3. RunsControlPlane' <=> RunsControlPlane
    BY <2>1 DEF RunsControlPlane
  <2>4. EndFits'
    BY <2>1, <2>2 DEF IInv, EndFits
  <2>5. ASSUME NEW j \in Invocations \ {i} PROVE HistoryFits(j)'
    BY <1>1, <1>4, <2>2, <2>3, ServingEffect DEF IInv, HistoryFits
  <2>6. HistoryFits(i)'
    <3>1. HistoryFits(i) /\ (There("history") => There("db"))
      BY <1>1, OrderMeans DEF IInv
    <3>2. cfg.role = "executor" => ~RunsControlPlane
      BY DEF RunsControlPlane
    <3>3. task[i] # "none" => task'[i] # "none"
      BY <1>1, <1>4, ServingEffect
    <3>4. call'[i] = "ok" /\ task'[i] = "none" /\ RunsControlPlane => hist'[i] # "none"
      BY <1>1, <1>4, <3>1, <3>3, ServingEffect DEF HistoryFits
    <3>5. task'[i] = "succeeded" => hist'[i] # "none"
      BY <1>1, <1>4, <3>1, ServingEffect DEF HistoryFits
    <3>6. call'[i] = "rpc" => ~RunsControlPlane
      BY <1>1, <1>4, <3>1, <3>2, ServingEffect DEF HistoryFits
    <3>7. hist'[i] # "lost" /\ (hist'[i] = "queued" => There("history"))
      BY <1>1, <1>4, <3>1, ServingEffect DEF HistoryFits
    <3>. QED BY <2>2, <2>3, <3>4, <3>5, <3>6, <3>7 DEF HistoryFits
  <2>7. \A j \in Invocations : HistoryFits(j)'
    BY <2>5, <2>6
  <2>. QED BY <1>1, <2>2, <2>4, <2>7 DEF IInv
<1>5. CASE UNCHANGED vars
  <2>1. UNCHANGED <<cfg, cleanupFns, pc, health, call, task, hist>>
    BY <1>5 DEF vars
  <2>2. OrderFits' /\ \A f : There(f)' <=> There(f)
    BY <1>1, <2>1, OrderStays
  <2>. QED BY <1>1, <2>1, <2>2 DEF IInv, EndFits, HistoryFits, RunsControlPlane
<1>. QED BY <1>2, <1>3, <1>4, <1>5, Steps

-----------------------------------------------------------------------------
(* What follows.                                                           *)

\* The invariant holds in every reachable state.
THEOREM Invariant == Spec => []IInv
BY InitInvariant, NextInvariant, PTL DEF Spec

\* The process, its clean-up functions, its servers and its invocations keep
\* their types through start-up, service and the way down.
THEOREM TypeCorrect == Spec => []TypeOK
<1>1. IInv => TypeOK BY DEF IInv
<1>. QED BY <1>1, Invariant, PTL

\* The clean-up in the reverse order of Build loses no record: whatever was
\* answered with a success is written, or the open database has refused it, when
\* the process has ended by its clean-up, also by a panic there.
THEOREM CleanupKeepsHistory == Spec => []HistoryIsKept
<1>1. IInv => HistoryIsKept
  <2>. SUFFICES ASSUME IInv, pc \in {"exited", "crashed"}, NEW i \in Invocations,
                       \/ call[i] = "ok" /\ task[i] = "none" /\ RunsControlPlane
                       \/ task[i] = "succeeded"
                PROVE  hist[i] \in {"written", "refused"}
    BY DEF HistoryIsKept
  <2>1. ~There("history")
    BY DEF IInv, EndFits, There
  <2>2. hist[i] \in {"none", "queued", "written", "refused", "lost"}
    BY DEF IInv, TypeOK
  <2>. QED BY <2>1, <2>2 DEF IInv, HistoryFits
<1>. QED BY <1>1, Invariant, PTL
=============================================================================
