------------------------------- MODULE Limits -------------------------------
(***************************************************************************)
(* The two windows of time in the program: the fixed windows in which      *)
(* InvokeController counts the calls of a service and of a user            *)
(* (invoke_control.go), and the silence after an alert of a service        *)
(* (alert_service.go).                                                     *)
(*                                                                         *)
(* Allow runs under the controller's lock, and so does the decision of     *)
(* NotifyServiceError; the mail is sent after its lock has been released.  *)
(* Time passes in ticks; ages are kept up to the length of the window, and *)
(* the count of a bucket up to the first value above its limit.  The       *)
(* history is the ages of as many of the latest calls and alerts as the    *)
(* properties speak of: as of one more than may fall into one window.      *)
(***************************************************************************)
EXTENDS Naturals

CONSTANTS
    Services, Users,
    ServiceLimit,  \* execution.service_rate_limit, 0: none
    UserLimit,     \* execution.user_rate_limit, 0: none
    Window,        \* execution.rate_limit_window
    Notifiers,     \* goroutines that report a service in error
    Silence        \* alert.silence_window

Nobody == "nobody"

ASSUME LimitsConstants ==
    /\ ServiceLimit \in Nat /\ UserLimit \in Nat
    /\ Window \in Nat \ {0} /\ Silence \in Nat \ {0}
    /\ Services \cap Users = {} /\ Nobody \notin Services

VARIABLES
    service,  \* the bucket of each service
    user,     \* the bucket of each user
    last,     \* the time since the last alert of a service, at most Silence
    notify,   \* the service a notifier is sending a mail for, or Nobody
    calls,    \* ages of the latest allowed calls of each service and user, the last first
    alerts    \* ages of the latest two alerts of each service, the last first

vars == <<service, user, last, notify, calls, alerts>>

Limit(k) == IF k \in Services THEN ServiceLimit ELSE UserLimit

\* A bucket whose window is over counts as none.
NoBucket == [age |-> Window, count |-> 0]

\* The bucket after one more call: a new one starts with the first call after
\* the window, and calls above the limit are counted too.
Counted(b, limit) ==
    IF b.age >= Window THEN [age |-> 0, count |-> 1]
    ELSE [b EXCEPT !.count = IF @ > limit THEN @ ELSE @ + 1]

\* Tested before the call is counted.
SlipWithin(b, limit) == b.count - 1 <= limit

Within(b, limit) == b.count <= limit

\* Without a limit nothing is counted.
Refused(b, limit) == limit > 0 /\ ~Within(Counted(b, limit), limit)
Charged(buckets, k) ==
    IF Limit(k) = 0 THEN buckets ELSE [buckets EXCEPT ![k] = Counted(@, Limit(k))]

SlipAfter(s, sent) == IF sent THEN last ELSE [last EXCEPT ![s] = Silence]

\* An alert that cannot be sent silences the service like one that can.
After(s, sent) == last

\* The history: ages that have reached the window are alike.
Latest(k) == 1 .. 2 * Limit(k) + 1
Recorded(ages) == [i \in DOMAIN ages |-> IF i = 1 THEN 0 ELSE ages[i - 1]]
Older(ages, w) == [i \in DOMAIN ages |-> IF ages[i] < w THEN ages[i] + 1 ELSE w]

Init ==
    /\ service = [s \in Services |-> NoBucket] /\ user = [u \in Users |-> NoBucket]
    /\ last = [s \in Services |-> Silence]
    /\ notify = [n \in Notifiers |-> Nobody]
    /\ calls = [k \in Services \cup Users |-> [i \in Latest(k) |-> Window]]
    /\ alerts = [s \in Services |-> [i \in 1..2 |-> Silence]]

\* The service is charged first, and stays charged if the user is refused.
Allow(s, u) ==
    /\ service' = Charged(service, s)
    /\ IF Refused(service[s], ServiceLimit) THEN UNCHANGED <<user, calls>>
       ELSE /\ user' = Charged(user, u)
            /\ calls' = IF Refused(user[u], UserLimit) THEN calls
                        ELSE [k \in DOMAIN calls |->
                                 IF k \in {s, u} /\ Limit(k) > 0 THEN Recorded(calls[k])
                                 ELSE calls[k]]
    /\ UNCHANGED <<last, notify, alerts>>

\* Test and set of the time of the last alert under the lock.  Within the
\* silence, or with alerts disabled, nothing happens.
NotifyServiceError(n, s) ==
    /\ notify[n] = Nobody /\ last[s] >= Silence
    /\ last' = [last EXCEPT ![s] = 0]
    /\ notify' = [notify EXCEPT ![n] = s]
    /\ alerts' = [alerts EXCEPT ![s] = Recorded(@)]
    /\ UNCHANGED <<service, user, calls>>

\* The mail may take any time, and may fail.
Send(n) ==
    /\ notify[n] # Nobody
    /\ \E sent \in BOOLEAN : last' = After(notify[n], sent)
    /\ notify' = [notify EXCEPT ![n] = Nobody]
    /\ UNCHANGED <<service, user, calls, alerts>>

Aged(b) == IF b.age + 1 >= Window THEN NoBucket ELSE [b EXCEPT !.age = @ + 1]

Tick ==
    /\ service' = [s \in Services |-> Aged(service[s])]
    /\ user' = [u \in Users |-> Aged(user[u])]
    /\ last' = [s \in Services |-> IF last[s] = Silence THEN Silence ELSE last[s] + 1]
    /\ calls' = [k \in DOMAIN calls |-> Older(calls[k], Window)]
    /\ alerts' = [s \in Services |-> Older(alerts[s], Silence)]
    /\ UNCHANGED notify

Next == \/ Tick
        \/ \E s \in Services, u \in Users : Allow(s, u)
        \/ \E n \in Notifiers, s \in Services : NotifyServiceError(n, s)
        \/ \E n \in Notifiers : Send(n)

Spec == Init /\ [][Next]_vars

-----------------------------------------------------------------------------
(* Properties.                                                             *)

Buckets(limit) == [age : 0 .. Window, count : 0 .. limit + 1]

TypeOK ==
    /\ service \in [Services -> Buckets(ServiceLimit)]
    /\ user \in [Users -> Buckets(UserLimit)]
    /\ last \in [Services -> 0 .. Silence]
    /\ notify \in [Notifiers -> Services \cup {Nobody}]
    /\ DOMAIN calls = Services \cup Users
    /\ \A k \in Services \cup Users : calls[k] \in [Latest(k) -> 0 .. Window]
    /\ alerts \in [Services -> [1..2 -> 0 .. Silence]]

\* Fixed windows let a burst pass on both sides of a boundary, but in no time
\* shorter than the window more than twice the limit, for a service and for a
\* user, whatever is refused in between: when as many have been allowed since,
\* a call is a window or more ago.
BurstIsBounded == \A k \in Services \cup Users : calls[k][2 * Limit(k) + 1] = Window

\* docs/MCP服务管理平台_编码任务序列_完整版.md:3468: alerts of a service are at
\* least the configured time apart; here however many goroutines report it, and
\* whether or not the mails can be sent.
AlertsAreSpaced == \A s \in Services : alerts[s][2] = Silence
=============================================================================
