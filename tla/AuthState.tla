------------------------------- MODULE AuthState -------------------------------
(***************************************************************************)
(* The login state of one user: the rows in users and auth_sessions, the   *)
(* caches of both in Redis, and the requests that read and write them one  *)
(* statement at a time (service/auth_service.go, auth_state_manager.go,    *)
(* auth_state_store.go, user_service.go and their repositories).           *)
(*                                                                         *)
(* A session row stands for its refresh token (found by its hash) and for  *)
(* the access token issued with it.  Any write to Redis may fail, an entry *)
(* may disappear, and a request may be cut off before any of its           *)
(* statements.  Abstracted: passwords, signatures, expiry times, e-mail    *)
(* and role values, audit records, the black list of access tokens.  The   *)
(* cached status of a session is only told apart as active or refused.     *)
(***************************************************************************)
EXTENDS Naturals, FiniteSets

CONSTANTS
    Sessions,    \* ids of auth_sessions
    Requests,    \* goroutines that serve HTTP requests
    MaxVersion,  \* bound: token_version is not raised above it
    MaxFaults,   \* bound: writes to Redis that fail, entries that vanish, and
                 \* requests that are cut off
    None

ASSUME AuthConstants ==
    /\ None \notin Sessions
    /\ MaxVersion \in Nat \ {0} /\ MaxFaults \in Nat

VARIABLES
    user,        \* the row in users
    sess,        \* auth_sessions
    vcache,      \* auth:user-version, 0 if there is none
    scache,      \* auth:session-status of each session
    faults,      \* so far
    req,         \* the request each goroutine serves
    presented,   \* sessions presented again after their rotation, less those
                 \* where that came to nothing (history only)
    overwritten  \* a Save has undone a later change of users (history only)

dbVars == <<user, sess>>
caches == <<vcache, scache, faults>>
history == <<presented, overwritten>>
vars == <<dbVars, caches, req, history>>

Versions == 1 .. MaxVersion
Statuses == {"active", "rotated", "revoked"}
Cached == {"none", "active", "refused"}
NoSession == [status |-> "none", version |-> 1, family |-> None, parent |-> None]
NoReq == [pc |-> "idle", session |-> None, fresh |-> None, version |-> 1,
          active |-> TRUE, status |-> "none", listed |-> {}]

Goto(r, pc) == req' = [req EXCEPT ![r].pc = pc]
Leave(r, pc) == req' = [req EXCEPT ![r] = [NoReq EXCEPT !.pc = pc]]
Answer(r)   == req' = [req EXCEPT ![r] = NoReq]
Begin(r, q) == /\ req[r].pc = "idle"
               /\ req' = [req EXCEPT ![r] = q]
               /\ UNCHANGED <<dbVars, caches, history>>

Fault == faults < MaxFaults /\ faults' = faults + 1

\* A write to Redis that succeeds, or fails.
Written(w) == IF w THEN UNCHANGED faults ELSE Fault

\* An id that no session and no request has taken (uuid.NewString).
Unused(s) == sess[s].status = "none" /\ \A r \in Requests : req[r].fresh # s

SlipCanRotate(s) == sess[s].status # "revoked"

\* The condition of the UPDATE in Rotate, besides the id and the hash.
CanRotate(s) == sess[s].status = "active"

SlipAfterLost(s) == "refuse"

\* Refresh reads the session again when it could not rotate it.
AfterLost(s) == IF sess[s].status = "rotated" THEN "reuse" ELSE "refuse"

\* What the cache is told of a session (IsUsable).
AsCached(s) == IF sess[s].status = "active" THEN "active" ELSE "refused"

SlipAfterList == "cache"

\* RevokeSessionsForUser writes the rows before it writes the cache.
AfterList == "revoke"

Init ==
    /\ user = [live |-> TRUE, active |-> TRUE, version |-> 1]
    /\ sess = [s \in Sessions |-> NoSession]
    /\ vcache = 0
    /\ scache = [s \in Sessions |-> "none"] /\ faults = 0
    /\ req = [r \in Requests |-> NoReq]
    /\ presented = {} /\ overwritten = FALSE

-----------------------------------------------------------------------------
(* Login and refresh.                                                      *)

Login(r) ==
    \E f \in Sessions :
        /\ user.live /\ user.active /\ Unused(f)
        /\ Begin(r, [NoReq EXCEPT !.pc = "create", !.fresh = f, !.version = user.version])

CreateSession(r) ==
    LET q == req[r] IN
    /\ q.pc = "create"
    /\ sess' = [sess EXCEPT ![q.fresh] = [status |-> "active", version |-> q.version,
                                         family |-> q.fresh, parent |-> None]]
    /\ Goto(r, "markNew")
    /\ UNCHANGED <<user, caches, history>>

\* GetByRefreshHash finds an active session and GetByID its user, whose version
\* must be that of the session.  The session is looked at again in Rotate only.
Refresh(r, s) ==
    \E f \in Sessions :
        /\ sess[s].status = "active" /\ sess[s].version = user.version
        /\ user.live /\ user.active /\ Unused(f)
        /\ Begin(r, [NoReq EXCEPT !.pc = "rotate", !.session = s, !.fresh = f,
                                 !.version = user.version])

\* A session that was rotated before is found as well.
RefreshAgain(r, s) ==
    /\ req[r].pc = "idle" /\ sess[s].status = "rotated"
    /\ req' = [req EXCEPT ![r] = [NoReq EXCEPT !.pc = "reuse", !.session = s]]
    /\ presented' = presented \cup {s}
    /\ UNCHANGED <<dbVars, caches, overwritten>>

\* One transaction: the old session is rotated and the new one inserted.
Rotate(r) ==
    LET q == req[r]  old == sess[q.session] IN
    /\ q.pc = "rotate"
    /\ IF CanRotate(q.session)
       THEN /\ sess' = [sess EXCEPT ![q.session].status = "rotated",
                                    ![q.fresh] = [status |-> "active", version |-> q.version,
                                                  family |-> old.family, parent |-> q.session]]
            /\ Goto(r, "markOld")
       ELSE /\ req' = [req EXCEPT ![r] = [NoReq EXCEPT !.pc = "lost", !.session = q.session]]
            /\ UNCHANGED sess
    /\ UNCHANGED <<user, caches, history>>

Reread(r) ==
    LET s == req[r].session IN
    /\ req[r].pc = "lost"
    /\ IF AfterLost(s) = "reuse" THEN Goto(r, "reuse") ELSE Answer(r)
    /\ presented' = IF sess[s].status = "rotated" THEN presented \cup {s} ELSE presented
    /\ UNCHANGED <<dbVars, caches, overwritten>>

\* Of the requests that notice the reuse one goes on to revoke.
MarkReuseDetected(r) ==
    LET s == req[r].session IN
    /\ req[r].pc = "reuse"
    /\ IF sess[s].status = "rotated"
       THEN /\ sess' = [sess EXCEPT ![s].status = "revoked"]
            /\ presented' = presented \cup {s}
            /\ Goto(r, "bump")
       ELSE Answer(r) /\ UNCHANGED <<sess, presented>>
    /\ UNCHANGED <<user, caches, overwritten>>

\* The cache after Rotate or Login; failures are ignored.
MarkStatus(r) ==
    \E written \in BOOLEAN :
        LET q == req[r]  s == IF q.pc = "markOld" THEN q.session ELSE q.fresh IN
        /\ q.pc \in {"markOld", "markNew"} /\ Written(written)
        /\ scache' = IF ~written THEN scache
                     ELSE [scache EXCEPT ![s] = IF q.pc = "markOld" THEN "refused" ELSE "active"]
        /\ req' = [req EXCEPT ![r] = IF q.pc = "markOld"
                                     THEN [q EXCEPT !.pc = "markNew", !.session = None]
                                     ELSE [NoReq EXCEPT !.pc = "warm", !.version = q.version]]
        /\ UNCHANGED <<dbVars, vcache, history>>

WarmVersion(r) ==
    \E written \in BOOLEAN :
        /\ req[r].pc = "warm" /\ Written(written)
        /\ vcache' = IF written THEN req[r].version ELSE vcache
        /\ Answer(r)
        /\ UNCHANGED <<dbVars, scache, history>>

-----------------------------------------------------------------------------
(* Revocation: of everything the user has, or of one session.              *)

\* The new version is read afterwards.  A deleted user is not found.
Bump(r, u) ==
    /\ IF user.live
       THEN /\ user.version < MaxVersion
            /\ user' = [u EXCEPT !.version = @ + 1]
            /\ Leave(r, "version")
       ELSE Answer(r) /\ UNCHANGED user
    /\ UNCHANGED <<sess, caches, history>>

BumpTokenVersion(r) == req[r].pc = "bump" /\ Bump(r, user)

\* The row of the user and its version in one transaction.
UpdateAndBump(r) ==
    req[r].pc = "update" /\ Bump(r, [user EXCEPT !.active = req[r].active])

GetTokenVersion(r) ==
    /\ req[r].pc = "version"
    /\ IF user.live THEN req' = [req EXCEPT ![r].pc = "publish", ![r].version = user.version]
       ELSE Answer(r)
    /\ UNCHANGED <<dbVars, caches, history>>

\* An error of Redis ends the request here, before the sessions are revoked.
PublishVersion(r) ==
    /\ req[r].pc = "publish"
    /\ \/ Written(TRUE)  /\ vcache' = req[r].version /\ Leave(r, "list")
       \/ Written(FALSE) /\ vcache' = vcache /\ Answer(r)
    /\ UNCHANGED <<dbVars, scache, history>>

ListActive(r) ==
    /\ req[r].pc = "list"
    /\ req' = [req EXCEPT ![r].pc = AfterList,
                          ![r].listed = {s \in Sessions : sess[s].status = "active"}]
    /\ UNCHANGED <<dbVars, caches, history>>

RevokeByUserID(r) ==
    /\ req[r].pc = "revoke"
    /\ sess' = [s \in Sessions |-> IF sess[s].status = "active"
                                   THEN [sess[s] EXCEPT !.status = "revoked"] ELSE sess[s]]
    /\ Goto(r, "cache")
    /\ UNCHANGED <<user, caches, history>>

\* RevokeSession of Logout writes whatever the status is by now.
Logout(r, s) ==
    /\ req[r].pc = "idle" /\ sess[s].status # "none"
    /\ sess' = [sess EXCEPT ![s].status = "revoked"]
    /\ presented' = IF sess[s].status = "rotated" THEN presented \ {s} ELSE presented
    /\ req' = [req EXCEPT ![r] = [NoReq EXCEPT !.pc = "cache", !.listed = {s}]]
    /\ UNCHANGED <<user, caches, overwritten>>

\* One write for each listed session; failures are logged.
CacheRevoked(r) ==
    /\ req[r].pc = "cache"
    /\ \/ req[r].listed = {} /\ Answer(r) /\ UNCHANGED <<scache, faults>>
       \/ \E s \in req[r].listed, written \in BOOLEAN :
             /\ Written(written)
             /\ scache' = IF written THEN [scache EXCEPT ![s] = "refused"] ELSE scache
             /\ req' = [req EXCEPT ![r].listed = @ \ {s}]
    /\ UNCHANGED <<dbVars, vcache, history>>

-----------------------------------------------------------------------------
(* Changes of the user.                                                    *)

ChangePassword(r) == user.live /\ Begin(r, [NoReq EXCEPT !.pc = "bump"])

\* A change of the role, which may come with any is_active, or one that disables
\* the user.
UpdateSecurity(r) ==
    \E a \in BOOLEAN : user.live /\ Begin(r, [NoReq EXCEPT !.pc = "update", !.active = a])

\* Other updates, among them one that enables the user, Save the whole row as
\* it was read; Save inserts the row again if it is gone (gorm.DB.Save).
UpdateProfile(r) ==
    \E a \in {user.active, TRUE} :
        user.live /\ Begin(r, [NoReq EXCEPT !.pc = "save", !.active = a, !.version = user.version])

SaveUser(r) ==
    LET q == req[r] IN
    /\ q.pc = "save"
    /\ user' = [live |-> TRUE, active |-> q.active, version |-> q.version]
    /\ overwritten' = (overwritten \/ ~user.live \/ user.version # q.version)
    /\ Answer(r)
    /\ UNCHANGED <<sess, caches, presented>>

DeleteUser(r) ==
    /\ req[r].pc = "idle" /\ user.live
    /\ user' = [user EXCEPT !.live = FALSE]
    /\ UNCHANGED <<sess, caches, req, history>>

-----------------------------------------------------------------------------
(* ValidateAccessToken: the version and then the session, each from the    *)
(* cache or else from the database, which fills the cache.                 *)

Validate(r, s) ==
    /\ sess[s].status # "none"
    /\ \/ /\ vcache # 0 /\ vcache = sess[s].version
          /\ Begin(r, [NoReq EXCEPT !.pc = "cachedStatus", !.session = s])
       \/ /\ vcache = 0 /\ user.live
          /\ Begin(r, [NoReq EXCEPT !.pc = "fillVersion", !.session = s,
                                   !.version = user.version])

FillVersion(r) ==
    \E written \in BOOLEAN :
        LET q == req[r] IN
        /\ q.pc = "fillVersion" /\ Written(written)
        /\ vcache' = IF written THEN q.version ELSE vcache
        /\ IF q.version = sess[q.session].version
           THEN req' = [req EXCEPT ![r] = [NoReq EXCEPT !.pc = "cachedStatus", !.session = q.session]]
           ELSE Answer(r)
        /\ UNCHANGED <<dbVars, scache, history>>

ReadStatus(r) ==
    LET s == req[r].session IN
    /\ req[r].pc = "cachedStatus"
    /\ \/ scache[s] # "none" /\ Answer(r)
       \/ /\ scache[s] = "none"
          /\ req' = [req EXCEPT ![r].pc = "fillStatus", ![r].status = AsCached(s)]
    /\ UNCHANGED <<dbVars, caches, history>>

FillStatus(r) ==
    \E written \in BOOLEAN :
        LET q == req[r] IN
        /\ q.pc = "fillStatus" /\ Written(written)
        /\ scache' = IF written THEN [scache EXCEPT ![q.session] = q.status] ELSE scache
        /\ Answer(r)
        /\ UNCHANGED <<dbVars, vcache, history>>

\* The request ends before its next statement: an error of the database, the end
\* of its context, or of the process.  Who has presented a rotated token goes
\* unpunished if that happens before the reuse is marked; and for good, since
\* the mark is not found again, if it happens between the mark and the bump.
CutOff(r) ==
    LET s == req[r].session IN
    /\ req[r].pc # "idle" /\ Fault
    /\ Answer(r)
    /\ presented' = IF \/ req[r].pc = "reuse" /\ sess[s].status = "rotated"
                       \/ req[r].pc = "bump"
                    THEN presented \ {s} ELSE presented
    /\ UNCHANGED <<dbVars, vcache, scache, overwritten>>

\* An entry expires, or Redis is flushed.
Evict ==
    /\ Fault
    /\ \/ vcache' = 0 /\ UNCHANGED scache
       \/ \E s \in Sessions : scache' = [scache EXCEPT ![s] = "none"] /\ UNCHANGED vcache
    /\ UNCHANGED <<dbVars, req, history>>

-----------------------------------------------------------------------------
Authenticate(r) == Login(r) \/ \E s \in Sessions :
    Refresh(r, s) \/ RefreshAgain(r, s) \/ Logout(r, s) \/ Validate(r, s)
Administer(r) ==
    ChangePassword(r) \/ UpdateSecurity(r) \/ UpdateProfile(r) \/ DeleteUser(r)
Serve(r) ==
    \/ CreateSession(r) \/ MarkStatus(r) \/ WarmVersion(r)
    \/ Rotate(r) \/ Reread(r) \/ MarkReuseDetected(r)
    \/ BumpTokenVersion(r) \/ UpdateAndBump(r) \/ GetTokenVersion(r) \/ PublishVersion(r)
    \/ ListActive(r) \/ RevokeByUserID(r) \/ CacheRevoked(r)
    \/ SaveUser(r)
    \/ FillVersion(r) \/ ReadStatus(r) \/ FillStatus(r)

Next ==
    \/ Evict
    \/ \E r \in Requests : Authenticate(r) \/ Administer(r) \/ Serve(r) \/ CutOff(r)

Spec == Init /\ [][Next]_vars

-----------------------------------------------------------------------------
(* Properties.                                                             *)

Pcs == {"idle", "create", "rotate", "lost", "reuse", "markOld", "markNew",
        "warm", "bump", "update", "version", "publish", "list", "revoke", "cache", "save",
        "fillVersion", "cachedStatus", "fillStatus"}

TypeOK ==
    /\ user \in [live : BOOLEAN, active : BOOLEAN, version : Versions]
    /\ sess \in [Sessions -> [status : Statuses \cup {"none"}, version : Versions,
                              family : Sessions \cup {None}, parent : Sessions \cup {None}]]
    /\ vcache \in 0 .. MaxVersion
    /\ scache \in [Sessions -> Cached]
    /\ faults \in 0 .. MaxFaults
    /\ req \in [Requests -> [pc : Pcs, session : Sessions \cup {None},
                             fresh : Sessions \cup {None}, version : Versions,
                             active : BOOLEAN, status : Cached,
                             listed : SUBSET Sessions]]
    /\ presented \subseteq Sessions /\ overwritten \in BOOLEAN

Children(s) == {d \in Sessions : sess[d].parent = s}
Usable(s) == /\ user.live /\ user.active
             /\ sess[s].status = "active" /\ sess[s].version = user.version

\* A refresh token is exchanged once, however many requests present it at the
\* same time: a session has one successor at most, of its own version, and is
\* not active once it has one.
RotatedOnce ==
    \A s \in Sessions :
        /\ Cardinality(Children(s)) <= 1
        /\ \A d \in Children(s) : sess[s].status # "active" /\ sess[d].version = sess[s].version

\* When a token was presented after its rotation and nobody is at work on that
\* any more, no session of its family can be refreshed: not the successor, and
\* none that a refresh in flight has added meanwhile.  Three things take this
\* away: a Save of the user that undoes the new version; a Logout of the rotated
\* session before the reuse is marked (RevokeByID, which overwrites the status
\* that MarkReuseDetected looks for); and a request that is cut off before it has
\* raised the version (auth_service.go:168-173, 223-228).
AtWork(s) == \E r \in Requests : req[r].session = s /\ req[r].pc \in {"reuse", "bump"}
ReuseEndsTheFamily ==
    \A s \in presented : ~overwritten /\ ~AtWork(s) =>
        \A d \in Sessions : sess[d].family = sess[s].family => ~Usable(d)

\* Whatever reads, failures and evictions cross, the caches only lag: the
\* version in the cache is not ahead of the one in the database, and a session
\* that is refused by the cache is not active in the database.
CachesOnlyLag ==
    /\ overwritten \/ vcache <= user.version
    /\ \A s \in Sessions : scache[s] = "refused" => sess[s].status # "active"
=============================================================================
