---------------------------- MODULE TaskLifecycle ----------------------------
(***************************************************************************)
(* What the asynchronous invocation service promises its clients,          *)
(* independently of queue, workers and slots: an accepted task is worked   *)
(* on at most once, ends, and stays ended; a submission that is answered   *)
(* with an error is never worked on; and the service is only drained when  *)
(* no accepted task is left.                                               *)
(***************************************************************************)
CONSTANT Tasks

VARIABLES
    stage,    \* of every task
    service   \* "up", "stopping", "drained" or "abandoned"

lifecycleVars == <<stage, service>>

Stages == {"new", "accepted", "working", "ended", "dropped"}

LifecycleTypeOK ==
    /\ stage \in [Tasks -> Stages]
    /\ service \in {"up", "stopping", "drained", "abandoned"}

LifecycleInit ==
    /\ stage = [t \in Tasks |-> "new"]
    /\ service = "up"

Move(t, from, to) ==
    /\ stage[t] = from
    /\ stage' = [stage EXCEPT ![t] = to]
    /\ UNCHANGED service

Accept(t) == service = "up" /\ Move(t, "new", "accepted")

Drop(t) == Move(t, "new", "dropped")

\* A task is cancelled before anybody works on it ...
Revoke(t) == Move(t, "accepted", "ended")

\* ... or is taken up, once, ...
Begin(t) == Move(t, "accepted", "working")

\* ... and ends with the work.
Complete(t) == Move(t, "working", "ended")

BeginStop ==
    /\ service = "up"
    /\ service' = "stopping"
    /\ UNCHANGED stage

Drained ==
    /\ service = "stopping"
    /\ \A t \in Tasks : stage[t] \notin {"accepted", "working"}
    /\ service' = "drained"
    /\ UNCHANGED stage

Abandon ==
    /\ service = "stopping"
    /\ service' = "abandoned"
    /\ UNCHANGED stage

LifecycleNext ==
    \/ \E t \in Tasks : \/ Accept(t) \/ Drop(t) \/ Revoke(t)
                        \/ Begin(t) \/ Complete(t)
    \/ BeginStop \/ Drained \/ Abandon

LifecycleSpec == LifecycleInit /\ [][LifecycleNext]_lifecycleVars

LifecycleFairness ==
    /\ \A t \in Tasks : /\ WF_lifecycleVars(Revoke(t) \/ Begin(t))
                        /\ WF_lifecycleVars(Complete(t))
    /\ WF_lifecycleVars(Drained \/ Abandon)

LifecycleFairSpec == LifecycleSpec /\ LifecycleFairness

-----------------------------------------------------------------------------
\* Nobody works on a task again that has ended or was turned away.
EndsForGood ==
    [][\A t \in Tasks : stage[t] \in {"ended", "dropped"}
                            => stage'[t] = stage[t]]_lifecycleVars

\* Every accepted task ends.
AcceptedEnds == \A t \in Tasks : stage[t] = "accepted" ~> stage[t] = "ended"
=============================================================================
