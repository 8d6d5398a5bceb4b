---------------------------- MODULE AuthStateProofs ----------------------------
(***************************************************************************)
(* The safety of AuthState for any number of sessions and requests, any    *)
(* number of versions and of faults.  IInv says what a request that is     *)
(* half done knows of the rows it has read, and how the rows hang          *)
(* together; each lemma ...Keeps shows that one kind of step keeps it.     *)
(***************************************************************************)
EXTENDS AuthState, FiniteSetTheorems, TLAPS

USE AuthConstants

-----------------------------------------------------------------------------
(* The inductive invariant.                                                *)

Known(s) == s \in Sessions /\ sess[s].status # "none"
Over(s)  == s \in Sessions /\ sess[s].status \in {"rotated", "revoked"}

\* The version has moved on, or there is no user any more.
Ended(s) == ~user.live \/ sess[s].version < user.version

\* An id that is taken belongs to one request, and has no row before it writes.
FreshFits ==
    /\ \A r \in Requests : req[r].pc \in {"create", "rotate"} =>
           req[r].fresh \in Sessions /\ sess[req[r].fresh].status = "none"
    /\ \A q, r \in Requests : req[q].fresh = req[r].fresh /\ req[q].fresh # None => q = r

\* What a request has read, and what of it still holds.
WorkFits ==
    \A r \in Requests :
        /\ req[r].pc \in {"rotate", "lost", "reuse", "fillVersion", "cachedStatus", "fillStatus"}
               => Known(req[r].session)
        /\ req[r].pc = "rotate" => req[r].version = sess[req[r].session].version
        /\ req[r].pc = "markOld" => Over(req[r].session)
        /\ req[r].pc = "fillStatus" /\ req[r].status = "refused" => Over(req[r].session)
        /\ req[r].pc = "revoke" => \A s \in req[r].listed : Known(s)
        /\ req[r].pc = "cache"  => \A s \in req[r].listed : Over(s)

\* A session is of the version of its family, and so is its one successor.
TreeFits ==
    /\ \A s \in Sessions : sess[s].status = "none" => sess[s] = NoSession
    /\ \A s \in Sessions : Known(s) =>
           /\ Known(sess[s].family)
           /\ sess[sess[s].family].version = sess[s].version
    /\ \A d \in Sessions : sess[d].parent # None =>
           Over(sess[d].parent) /\ sess[sess[d].parent].version = sess[d].version
    /\ \A d, e \in Sessions : sess[d].parent = sess[e].parent /\ sess[d].parent # None => d = e

\* Nothing that was read or written is ahead of the user's row.
VersionsFit ==
    ~overwritten =>
        /\ vcache <= user.version
        /\ \A r \in Requests : req[r].version <= user.version
        /\ \A s \in Sessions : sess[s].version <= user.version

CacheFits == \A s \in Sessions : scache[s] = "refused" => Over(s)

\* A token that was presented again is dealt with, or somebody is at it.
ReuseFits ==
    \A s \in presented :
        /\ Over(s)
        /\ sess[s].status = "rotated" =>
               \E r \in Requests : req[r].session = s /\ req[r].pc = "reuse"
        /\ sess[s].status = "revoked" /\ ~overwritten =>
               \/ Ended(s)
               \/ \E r \in Requests : req[r].session = s /\ req[r].pc = "bump"

IInv == /\ TypeOK /\ FreshFits /\ WorkFits /\ TreeFits /\ VersionsFit
        /\ CacheFits /\ ReuseFits

-----------------------------------------------------------------------------
(* Type correctness.                                                       *)

UserRows == [live : BOOLEAN, active : BOOLEAN, version : Versions]
SessionRows == [status : Statuses \cup {"none"}, version : Versions,
                family : Sessions \cup {None}, parent : Sessions \cup {None}]
RequestStates == [pc : Pcs, session : Sessions \cup {None},
                  fresh : Sessions \cup {None}, version : Versions,
                  active : BOOLEAN, status : Cached, listed : SUBSET Sessions]

RestOK ==
    /\ vcache \in 0 .. MaxVersion
    /\ scache \in [Sessions -> Cached]
    /\ faults \in 0 .. MaxFaults
    /\ presented \subseteq Sessions /\ overwritten \in BOOLEAN

\* The types of the three variables that hold records.
LEMMA Types ==
    ASSUME TypeOK
    PROVE  /\ user \in UserRows
           /\ sess \in [Sessions -> SessionRows]
           /\ req \in [Requests -> RequestStates]
BY DEF TypeOK, UserRows, SessionRows, RequestStates

\* A request that only goes on keeps its type.
LEMMA GotoTyped ==
    ASSUME TypeOK, NEW r \in Requests, NEW p \in Pcs, Goto(r, p)
    PROVE  req' \in [Requests -> RequestStates]
BY Types DEF Goto, RequestStates

\* An idle goroutine has its type.
LEMMA NoReqTyped == NoReq \in RequestStates
BY DEF NoReq, RequestStates, Pcs, Versions, Cached

\* One request that changes to a typed one keeps the type of them all.
LEMMA StepTyped ==
    ASSUME TypeOK, NEW r \in Requests, NEW q \in RequestStates,
           req' = [req EXCEPT ![r] = q]
    PROVE  req' \in [Requests -> RequestStates]
BY Types

\* What every step makes of the requests.
LEMMA ReqTyped ==
    TypeOK /\ [Next]_vars => (req \in [Requests -> RequestStates])'
<1>. SUFFICES ASSUME TypeOK, [Next]_vars
            PROVE (req \in [Requests -> RequestStates])'
  OBVIOUS
<1>. USE DEF AfterList
<1>1. ASSUME NEW r \in Requests, Authenticate(r) \/ Administer(r) \/ Serve(r) \/ CutOff(r)
      PROVE  (req \in [Requests -> RequestStates])'
  <2>1. CASE CreateSession(r) BY <2>1, GotoTyped DEF CreateSession, Pcs
  <2>2. CASE MarkStatus(r)
    <3>1. req[r] \in RequestStates
      BY Types
    <3>2. [req[r] EXCEPT !.pc = "markNew", !.session = None] \in RequestStates
      BY <3>1 DEF RequestStates, Pcs
    <3>3. [NoReq EXCEPT !.pc = "warm", !.version = req[r].version] \in RequestStates
      BY <3>1, NoReqTyped DEF RequestStates, Pcs
    <3>. QED BY <2>2, <3>2, <3>3, StepTyped DEF MarkStatus
  <2>3. CASE WarmVersion(r)
    BY <2>3, NoReqTyped, StepTyped DEF WarmVersion, Answer
  <2>4. CASE Rotate(r)
    <3>1. CASE Goto(r, "markOld") BY <3>1, GotoTyped DEF Pcs
    <3>2. [NoReq EXCEPT !.pc = "lost", !.session = req[r].session] \in RequestStates
      BY Types, NoReqTyped DEF RequestStates, Pcs
    <3>. QED BY <2>4, <3>1, <3>2, StepTyped DEF Rotate
  <2>5. CASE Reread(r)
    <3>1. CASE Answer(r) BY <3>1, NoReqTyped, StepTyped DEF Answer
    <3>2. ASSUME NEW p \in Pcs, Goto(r, p) PROVE req' \in [Requests -> RequestStates]
      BY <3>2, GotoTyped
    <3>. QED BY <2>5, <3>1, <3>2 DEF Reread, Pcs
  <2>6. CASE MarkReuseDetected(r)
    <3>1. CASE Answer(r) BY <3>1, NoReqTyped, StepTyped DEF Answer
    <3>2. ASSUME NEW p \in Pcs, Goto(r, p) PROVE req' \in [Requests -> RequestStates]
      BY <3>2, GotoTyped
    <3>. QED BY <2>6, <3>1, <3>2 DEF MarkReuseDetected, Pcs
  <2>7. CASE BumpTokenVersion(r) \/ UpdateAndBump(r)
    <3>1. [NoReq EXCEPT !.pc = "version"] \in RequestStates
      BY NoReqTyped DEF RequestStates, Pcs
    <3>. QED BY <2>7, <3>1, NoReqTyped, StepTyped
             DEF BumpTokenVersion, UpdateAndBump, Bump, Leave, Answer
  <2>8. CASE GetTokenVersion(r)
    <3>1. [req[r] EXCEPT !.pc = "publish", !.version = user.version]
             \in RequestStates
      <4>1. user.version \in Versions
        BY Types DEF UserRows
      <4>2. req[r] \in RequestStates
        BY Types
      <4>. QED BY <4>1, <4>2 DEF RequestStates, Pcs
    <3>2. req' = [req EXCEPT ![r] = [req[r] EXCEPT !.pc = "publish", !.version = user.version]]
              \/ Answer(r)
      BY <2>8, Types DEF GetTokenVersion, RequestStates
    <3>. QED BY <3>1, <3>2, NoReqTyped, StepTyped DEF Answer
  <2>9. CASE PublishVersion(r)
    <3>1. [NoReq EXCEPT !.pc = "list"]
             \in RequestStates
      BY <2>9, Types, NoReqTyped DEF PublishVersion, RequestStates, UserRows, Pcs
    <3>. QED BY <2>9, <3>1, NoReqTyped, StepTyped DEF PublishVersion, Begin, Leave, Answer
  <2>10. CASE ListActive(r)
    <3>. DEFINE n == [req[r] EXCEPT !.pc = "revoke",
                                    !.listed = {s \in Sessions : sess[s].status = "active"}]
    <3>1. n \in RequestStates
      <4>1. req[r] \in RequestStates
        BY Types
      <4>. QED BY <4>1 DEF RequestStates, Pcs
    <3>2. req' = [req EXCEPT ![r] = n]
      BY <2>10, Types DEF ListActive
    <3>. QED BY <3>1, <3>2, StepTyped
  <2>11. CASE RevokeByUserID(r) BY <2>11, GotoTyped DEF RevokeByUserID, Pcs
  <2>12. CASE CacheRevoked(r)
    <3>1. ASSUME NEW s PROVE [req[r] EXCEPT !.listed = req[r].listed \ {s}] \in RequestStates
      BY Types DEF RequestStates
    <3>. QED BY <2>12, <3>1, NoReqTyped, StepTyped DEF CacheRevoked, Answer
  <2>13. CASE SaveUser(r) BY <2>13, NoReqTyped, StepTyped DEF SaveUser, Answer
  <2>14. CASE FillVersion(r)
    <3>1. [NoReq EXCEPT !.pc = "cachedStatus", !.session = req[r].session]
             \in RequestStates
      BY <2>14, Types, NoReqTyped DEF FillVersion, RequestStates, UserRows, Pcs
    <3>. QED BY <2>14, <3>1, NoReqTyped, StepTyped DEF FillVersion, Begin, Leave, Answer
  <2>15. CASE ReadStatus(r)
    <3>1. [req[r] EXCEPT !.pc = "fillStatus",
                                                      !.status = AsCached(req[r].session)]
             \in RequestStates
      <4>1. req[r] \in RequestStates /\ AsCached(req[r].session) \in Cached
        BY Types DEF AsCached, Cached
      <4>. QED BY <4>1 DEF RequestStates, Pcs
    <3>2. req' = [req EXCEPT ![r] = [req[r] EXCEPT !.pc = "fillStatus",
                                                      !.status = AsCached(req[r].session)]]
              \/ Answer(r)
      BY <2>15, Types DEF ReadStatus, RequestStates
    <3>. QED BY <3>1, <3>2, NoReqTyped, StepTyped DEF Answer
  <2>16. CASE FillStatus(r)
    BY <2>16, NoReqTyped, StepTyped DEF FillStatus, Answer
  <2>17. CASE Login(r)
    <3>1. ASSUME NEW f \in Sessions
          PROVE  [NoReq EXCEPT !.pc = "create", !.fresh = f, !.version = user.version]
                     \in RequestStates
      BY Types, NoReqTyped DEF RequestStates, UserRows, Pcs
    <3>. QED BY <2>17, <3>1, StepTyped DEF Login, Begin
  <2>18. CASE ChangePassword(r)
    <3>1. [NoReq EXCEPT !.pc = "bump"] \in RequestStates
      BY NoReqTyped DEF RequestStates, Pcs
    <3>. QED BY <2>18, <3>1, StepTyped DEF ChangePassword, Begin
  <2>19. CASE UpdateSecurity(r)
    <3>1. ASSUME NEW a \in BOOLEAN
          PROVE  [NoReq EXCEPT !.pc = "update", !.active = a] \in RequestStates
      BY NoReqTyped DEF RequestStates, Pcs
    <3>. QED BY <2>19, <3>1, StepTyped DEF UpdateSecurity, Begin
  <2>20. CASE UpdateProfile(r)
    <3>1. ASSUME NEW a \in BOOLEAN
          PROVE  [NoReq EXCEPT !.pc = "save", !.active = a, !.version = user.version]
                     \in RequestStates
      BY Types, NoReqTyped DEF RequestStates, UserRows, Pcs
    <3>2. user.active \in BOOLEAN
      BY Types DEF UserRows
    <3>. QED BY <2>20, <3>1, <3>2, StepTyped DEF UpdateProfile, Begin
  <2>21. CASE DeleteUser(r) BY <2>21, Types DEF DeleteUser
  <2>22. ASSUME NEW s \in Sessions, Refresh(r, s) PROVE (req \in [Requests -> RequestStates])'
    <3>1. ASSUME NEW f \in Sessions
          PROVE  [NoReq EXCEPT !.pc = "rotate", !.session = s, !.fresh = f,
                               !.version = user.version] \in RequestStates
      BY Types, NoReqTyped DEF RequestStates, UserRows, Pcs
    <3>. QED BY <2>22, <3>1, StepTyped DEF Refresh, Begin
  <2>23. ASSUME NEW s \in Sessions, RefreshAgain(r, s) PROVE (req \in [Requests -> RequestStates])'
    <3>1. [NoReq EXCEPT !.pc = "reuse", !.session = s]
             \in RequestStates
      BY <2>23, Types, NoReqTyped DEF RefreshAgain, RequestStates, UserRows, Pcs
    <3>. QED BY <2>23, <3>1, NoReqTyped, StepTyped DEF RefreshAgain, Begin, Leave, Answer
  <2>24. ASSUME NEW s \in Sessions, Logout(r, s) PROVE (req \in [Requests -> RequestStates])'
    <3>1. [NoReq EXCEPT !.pc = "cache", !.listed = {s}]
             \in RequestStates
      BY <2>24, Types, NoReqTyped DEF Logout, RequestStates, UserRows, Pcs
    <3>. QED BY <2>24, <3>1, NoReqTyped, StepTyped DEF Logout, Begin, Leave, Answer
  <2>25. ASSUME NEW s \in Sessions, Validate(r, s) PROVE (req \in [Requests -> RequestStates])'
    <3>1. [NoReq EXCEPT !.pc = "cachedStatus", !.session = s]
             \in RequestStates
      BY Types, NoReqTyped DEF RequestStates, Pcs
    <3>2. [NoReq EXCEPT !.pc = "fillVersion", !.session = s, !.version = user.version] \in RequestStates
      BY <2>25, Types, NoReqTyped DEF RequestStates, Pcs, UserRows
    <3>. QED BY <2>25, <3>1, <3>2, NoReqTyped, StepTyped DEF Validate, Leave, Answer, Begin
  <2>26. CASE CutOff(r) BY <2>26, NoReqTyped, StepTyped DEF CutOff, Answer
  <2>. QED BY <1>1, <2>1, <2>2, <2>3, <2>4, <2>5, <2>6, <2>7, <2>8, <2>9,
              <2>10, <2>11, <2>12, <2>13, <2>14, <2>15, <2>16, <2>17, <2>18,
              <2>19, <2>20, <2>21, <2>22, <2>23, <2>24, <2>25, <2>26
              DEF Authenticate, Administer, Serve
<1>2. CASE Evict BY <1>2, Types DEF Evict
<1>3. CASE UNCHANGED vars BY <1>3, Types DEF vars
<1>. QED BY <1>1, <1>2, <1>3 DEF Next

\* What every step makes of the row in users.
LEMMA UserTyped ==
    TypeOK /\ [Next]_vars => (user \in UserRows)'
<1>. SUFFICES ASSUME TypeOK, [Next]_vars PROVE (user \in UserRows)'
  OBVIOUS
<1>. USE DEF UserRows, Begin, dbVars
<1>t. user \in UserRows /\ req \in [Requests -> RequestStates]
  BY Types
<1>. USE <1>t
<1>1. ASSUME NEW r \in Requests, Authenticate(r) \/ Administer(r) \/ Serve(r) \/ CutOff(r)
      PROVE  (user \in UserRows)'
  <2>1. CASE CreateSession(r) BY <2>1 DEF CreateSession
  <2>2. CASE MarkStatus(r) BY <2>2 DEF MarkStatus
  <2>3. CASE WarmVersion(r) BY <2>3 DEF WarmVersion
  <2>4. CASE Rotate(r) BY <2>4 DEF Rotate
  <2>5. CASE Reread(r) BY <2>5 DEF Reread
  <2>6. CASE MarkReuseDetected(r) BY <2>6 DEF MarkReuseDetected
  <2>7. CASE BumpTokenVersion(r) \/ UpdateAndBump(r)
    <3>1. req[r].active \in BOOLEAN
      BY DEF RequestStates
    <3>2. user.version < MaxVersion => user.version + 1 \in Versions
      BY DEF Versions
    <3>. QED BY <2>7, <3>1, <3>2 DEF BumpTokenVersion, UpdateAndBump, Bump
  <2>8. CASE GetTokenVersion(r) BY <2>8 DEF GetTokenVersion
  <2>9. CASE PublishVersion(r) BY <2>9 DEF PublishVersion
  <2>10. CASE ListActive(r) BY <2>10 DEF ListActive
  <2>11. CASE RevokeByUserID(r) BY <2>11 DEF RevokeByUserID
  <2>12. CASE CacheRevoked(r) BY <2>12 DEF CacheRevoked
  <2>13. CASE SaveUser(r) BY <2>13 DEF SaveUser, RequestStates
  <2>14. CASE FillVersion(r) BY <2>14 DEF FillVersion
  <2>15. CASE ReadStatus(r) BY <2>15 DEF ReadStatus
  <2>16. CASE FillStatus(r) BY <2>16 DEF FillStatus
  <2>17. CASE Login(r) BY <2>17 DEF Login
  <2>18. CASE ChangePassword(r) BY <2>18 DEF ChangePassword
  <2>19. CASE UpdateSecurity(r) BY <2>19 DEF UpdateSecurity
  <2>20. CASE UpdateProfile(r) BY <2>20 DEF UpdateProfile
  <2>21. CASE DeleteUser(r) BY <2>21 DEF DeleteUser
  <2>22. ASSUME NEW s \in Sessions, Refresh(r, s) PROVE (user \in UserRows)'
    BY <2>22 DEF Refresh
  <2>23. ASSUME NEW s \in Sessions, RefreshAgain(r, s) PROVE (user \in UserRows)'
    BY <2>23 DEF RefreshAgain
  <2>24. ASSUME NEW s \in Sessions, Logout(r, s) PROVE (user \in UserRows)'
    BY <2>24 DEF Logout
  <2>25. ASSUME NEW s \in Sessions, Validate(r, s) PROVE (user \in UserRows)'
    BY <2>25 DEF Validate
  <2>26. CASE CutOff(r) BY <2>26 DEF CutOff
  <2>. QED BY <1>1, <2>1, <2>2, <2>3, <2>4, <2>5, <2>6, <2>7, <2>8, <2>9,
              <2>10, <2>11, <2>12, <2>13, <2>14, <2>15, <2>16, <2>17, <2>18,
              <2>19, <2>20, <2>21, <2>22, <2>23, <2>24, <2>25, <2>26
              DEF Authenticate, Administer, Serve
<1>2. CASE Evict BY <1>2 DEF Evict
<1>3. CASE UNCHANGED vars BY <1>3 DEF vars
<1>. QED BY <1>1, <1>2, <1>3 DEF Next

\* What every step makes of the rows in auth_sessions.
LEMMA SessTyped ==
    TypeOK /\ WorkFits /\ [Next]_vars => (sess \in [Sessions -> SessionRows])'
<1>. SUFFICES ASSUME TypeOK, WorkFits, [Next]_vars
            PROVE (sess \in [Sessions -> SessionRows])'
  OBVIOUS
<1>. USE DEF SessionRows, Begin, dbVars, Statuses
<1>t. sess \in [Sessions -> SessionRows] /\ req \in [Requests -> RequestStates]
  BY Types
<1>. USE <1>t
<1>1. ASSUME NEW r \in Requests, Authenticate(r) \/ Administer(r) \/ Serve(r) \/ CutOff(r)
      PROVE  (sess \in [Sessions -> SessionRows])'
  <2>1. CASE CreateSession(r) BY <2>1 DEF CreateSession, RequestStates
  <2>2. CASE MarkStatus(r) BY <2>2 DEF MarkStatus
  <2>3. CASE WarmVersion(r) BY <2>3 DEF WarmVersion
  <2>4. CASE Rotate(r)
    <3>1. Known(req[r].session)
      BY <2>4 DEF Rotate, WorkFits
    <3>2. [status |-> "active", version |-> req[r].version,
           family |-> sess[req[r].session].family, parent |-> req[r].session]
              \in SessionRows
      BY <3>1 DEF Known, RequestStates
    <3>. QED BY <2>4, <3>1, <3>2 DEF Rotate, Known
  <2>5. CASE Reread(r) BY <2>5 DEF Reread
  <2>6. CASE MarkReuseDetected(r) BY <2>6 DEF MarkReuseDetected
  <2>7. CASE BumpTokenVersion(r) \/ UpdateAndBump(r)
    BY <2>7 DEF BumpTokenVersion, UpdateAndBump, Bump
  <2>8. CASE GetTokenVersion(r) BY <2>8 DEF GetTokenVersion
  <2>9. CASE PublishVersion(r) BY <2>9 DEF PublishVersion
  <2>10. CASE ListActive(r) BY <2>10 DEF ListActive
  <2>11. CASE RevokeByUserID(r) BY <2>11 DEF RevokeByUserID
  <2>12. CASE CacheRevoked(r) BY <2>12 DEF CacheRevoked
  <2>13. CASE SaveUser(r) BY <2>13 DEF SaveUser
  <2>14. CASE FillVersion(r) BY <2>14 DEF FillVersion
  <2>15. CASE ReadStatus(r) BY <2>15 DEF ReadStatus
  <2>16. CASE FillStatus(r) BY <2>16 DEF FillStatus
  <2>17. CASE Login(r) BY <2>17 DEF Login
  <2>18. CASE ChangePassword(r) BY <2>18 DEF ChangePassword
  <2>19. CASE UpdateSecurity(r) BY <2>19 DEF UpdateSecurity
  <2>20. CASE UpdateProfile(r) BY <2>20 DEF UpdateProfile
  <2>21. CASE DeleteUser(r) BY <2>21 DEF DeleteUser
  <2>22. ASSUME NEW s \in Sessions, Refresh(r, s) PROVE (sess \in [Sessions -> SessionRows])'
    BY <2>22 DEF Refresh
  <2>23. ASSUME NEW s \in Sessions, RefreshAgain(r, s) PROVE (sess \in [Sessions -> SessionRows])'
    BY <2>23 DEF RefreshAgain
  <2>24. ASSUME NEW s \in Sessions, Logout(r, s) PROVE (sess \in [Sessions -> SessionRows])'
    BY <2>24 DEF Logout
  <2>25. ASSUME NEW s \in Sessions, Validate(r, s) PROVE (sess \in [Sessions -> SessionRows])'
    BY <2>25 DEF Validate
  <2>26. CASE CutOff(r) BY <2>26 DEF CutOff
  <2>. QED BY <1>1, <2>1, <2>2, <2>3, <2>4, <2>5, <2>6, <2>7, <2>8, <2>9,
              <2>10, <2>11, <2>12, <2>13, <2>14, <2>15, <2>16, <2>17, <2>18,
              <2>19, <2>20, <2>21, <2>22, <2>23, <2>24, <2>25, <2>26
              DEF Authenticate, Administer, Serve
<1>2. CASE Evict BY <1>2 DEF Evict
<1>3. CASE UNCHANGED vars BY <1>3 DEF vars
<1>. QED BY <1>1, <1>2, <1>3 DEF Next

\* What every step makes of the caches and the history.
LEMMA RestTyped ==
    TypeOK /\ WorkFits /\ [Next]_vars => RestOK'
<1>. SUFFICES ASSUME TypeOK, WorkFits, [Next]_vars PROVE RestOK'
  OBVIOUS
<1>. USE DEF RestOK, Begin, caches, history, Written, Fault, Cached
<1>t. RestOK /\ req \in [Requests -> RequestStates]
  BY Types DEF TypeOK
<1>v. \A q \in Requests : req[q].version \in 0 .. MaxVersion /\ req[q].status \in Cached
  BY <1>t DEF RequestStates, Versions
<1>. USE <1>t, <1>v
<1>1. ASSUME NEW r \in Requests, Authenticate(r) \/ Administer(r) \/ Serve(r) \/ CutOff(r)
      PROVE  RestOK'
  <2>1. CASE CreateSession(r) BY <2>1 DEF CreateSession
  <2>2. CASE MarkStatus(r)
    <3>1. \A s : \A x \in Cached : [scache EXCEPT ![s] = x] \in [Sessions -> Cached]
      OBVIOUS
    <3>. QED BY <2>2, <3>1 DEF MarkStatus
  <2>3. CASE WarmVersion(r) BY <2>3 DEF WarmVersion
  <2>4. CASE Rotate(r) BY <2>4 DEF Rotate
  <2>5. CASE Reread(r) BY <2>5 DEF Reread, WorkFits, Known
  <2>6. CASE MarkReuseDetected(r) BY <2>6 DEF MarkReuseDetected, WorkFits, Known
  <2>7. CASE BumpTokenVersion(r) \/ UpdateAndBump(r)
    BY <2>7 DEF BumpTokenVersion, UpdateAndBump, Bump
  <2>8. CASE GetTokenVersion(r) BY <2>8 DEF GetTokenVersion
  <2>9. CASE PublishVersion(r) BY <2>9 DEF PublishVersion
  <2>10. CASE ListActive(r) BY <2>10 DEF ListActive
  <2>11. CASE RevokeByUserID(r) BY <2>11 DEF RevokeByUserID
  <2>12. CASE CacheRevoked(r) BY <2>12 DEF CacheRevoked
  <2>13. CASE SaveUser(r) BY <2>13 DEF SaveUser
  <2>14. CASE FillVersion(r) BY <2>14 DEF FillVersion
  <2>15. CASE ReadStatus(r) BY <2>15 DEF ReadStatus
  <2>16. CASE FillStatus(r)
    <3>1. \A s : \A x \in Cached : [scache EXCEPT ![s] = x] \in [Sessions -> Cached]
      OBVIOUS
    <3>. QED BY <2>16, <3>1 DEF FillStatus
  <2>17. CASE Login(r) BY <2>17 DEF Login
  <2>18. CASE ChangePassword(r) BY <2>18 DEF ChangePassword
  <2>19. CASE UpdateSecurity(r) BY <2>19 DEF UpdateSecurity
  <2>20. CASE UpdateProfile(r) BY <2>20 DEF UpdateProfile
  <2>21. CASE DeleteUser(r) BY <2>21 DEF DeleteUser
  <2>22. ASSUME NEW s \in Sessions, Refresh(r, s) PROVE RestOK'
    BY <2>22 DEF Refresh
  <2>23. ASSUME NEW s \in Sessions, RefreshAgain(r, s) PROVE RestOK'
    BY <2>23 DEF RefreshAgain
  <2>24. ASSUME NEW s \in Sessions, Logout(r, s) PROVE RestOK'
    BY <2>24 DEF Logout
  <2>25. ASSUME NEW s \in Sessions, Validate(r, s) PROVE RestOK'
    BY <2>25 DEF Validate
  <2>26. CASE CutOff(r) BY <2>26 DEF CutOff
  <2>. QED BY <1>1, <2>1, <2>2, <2>3, <2>4, <2>5, <2>6, <2>7, <2>8, <2>9,
              <2>10, <2>11, <2>12, <2>13, <2>14, <2>15, <2>16, <2>17, <2>18,
              <2>19, <2>20, <2>21, <2>22, <2>23, <2>24, <2>25, <2>26
              DEF Authenticate, Administer, Serve
<1>2. CASE Evict BY <1>2 DEF Evict
<1>3. CASE UNCHANGED vars BY <1>3 DEF vars
<1>. QED BY <1>1, <1>2, <1>3 DEF Next

-----------------------------------------------------------------------------
(* Steps that change a row and the request at once, field by field.        *)

RotateEffect(r, o, f) ==
    /\ o \in Sessions /\ f \in Sessions /\ o # f /\ UNCHANGED <<user, caches, history>>
    /\ req[r].pc = "rotate" /\ sess[o].status # "none" /\ sess[f].status = "none"
    /\ req[r].version = sess[o].version /\ req[r].fresh = f
    /\ \A q \in Requests \ {r} : req'[q] = req[q]
    /\ \/ /\ sess[o].status = "active" /\ sess'[o].status = "rotated"
          /\ sess'[o].version = sess[o].version /\ sess'[o].family = sess[o].family
          /\ sess'[o].parent = sess[o].parent
          /\ sess'[f].status = "active" /\ sess'[f].version = sess[o].version
          /\ sess'[f].family = sess[o].family /\ sess'[f].parent = o
          /\ \A s \in Sessions \ {o, f} : sess'[s] = sess[s]
          /\ req'[r].pc = "markOld" /\ req'[r].session = o /\ req'[r].fresh = f
          /\ req'[r].version = req[r].version
       \/ /\ UNCHANGED sess
          /\ req'[r].pc = "lost" /\ req'[r].session = o /\ req'[r].fresh = None
          /\ req'[r].version = 1

\* Rotate either exchanges the session or finds it no longer active.
LEMMA RotateDoes ==
    ASSUME TypeOK, FreshFits, WorkFits, NEW r \in Requests, Rotate(r)
    PROVE  RotateEffect(r, req[r].session, req[r].fresh)
<1>. DEFINE o == req[r].session
            f == req[r].fresh
<1>. USE DEF RotateEffect
<1>1. o \in Sessions /\ sess[o].status # "none" /\ req[r].version = sess[o].version
  BY DEF WorkFits, Known, Rotate
<1>2. f \in Sessions /\ sess[f].status = "none" /\ o # f
  BY <1>1 DEF FreshFits, Rotate
<1>3. /\ req[r].pc = "rotate" /\ UNCHANGED <<user, caches, history>>
      /\ \A q \in Requests \ {r} : req'[q] = req[q]
  BY Types DEF Rotate, Goto
<1>4. CASE CanRotate(o)
  <2>1. sess' = [sess EXCEPT ![o].status = "rotated",
                             ![f] = [status |-> "active", version |-> req[r].version,
                                     family |-> sess[o].family, parent |-> o]]
    BY <1>4 DEF Rotate
  <2>2. Goto(r, "markOld")
    BY <1>4 DEF Rotate
  <2>3. /\ req'[r].pc = "markOld" /\ req'[r].session = o /\ req'[r].fresh = f
        /\ req'[r].version = req[r].version
    BY <2>2, Types DEF Goto, RequestStates
  <2>4. /\ sess'[o] = [sess[o] EXCEPT !.status = "rotated"]
        /\ sess'[f] = [status |-> "active", version |-> req[r].version,
                       family |-> sess[o].family, parent |-> o]
        /\ \A s \in Sessions \ {o, f} : sess'[s] = sess[s]
    BY <1>1, <1>2, <2>1, Types
  <2>. QED BY <1>1, <1>2, <1>3, <1>4, <2>3, <2>4, Types DEF CanRotate, SessionRows
<1>5. CASE ~CanRotate(o)
  <2>1. UNCHANGED sess /\ req'[r] = [NoReq EXCEPT !.pc = "lost", !.session = o]
    BY <1>5, Types DEF Rotate
  <2>2. /\ req'[r].pc = "lost" /\ req'[r].session = o /\ req'[r].fresh = None
        /\ req'[r].version = 1
    BY <2>1 DEF NoReq
  <2>. QED BY <1>1, <1>2, <1>3, <2>1, <2>2
<1>. QED BY <1>4, <1>5

RereadEffect(r, o) ==
    /\ o \in Sessions /\ UNCHANGED <<dbVars, caches, overwritten>> /\ req[r].pc = "lost"
    /\ sess[o].status # "none" /\ req[r].session = o
    /\ \A q \in Requests \ {r} : req'[q] = req[q]
    /\ \/ /\ sess[o].status = "rotated" /\ presented' = presented \cup {o}
          /\ req'[r].pc = "reuse" /\ req'[r].session = o
          /\ req'[r].fresh = req[r].fresh /\ req'[r].version = req[r].version
       \/ /\ sess[o].status # "rotated" /\ UNCHANGED presented
          /\ req'[r].pc = "idle" /\ req'[r].fresh = None /\ req'[r].version = 1

\* The second look of Refresh.
LEMMA RereadDoes ==
    ASSUME TypeOK, WorkFits, NEW r \in Requests, Reread(r)
    PROVE  RereadEffect(r, req[r].session)
<1>1. req[r].session \in Sessions /\ sess[req[r].session].status # "none"
  BY DEF WorkFits, Known, Reread
<1>2. /\ UNCHANGED <<dbVars, caches, overwritten>> /\ req[r].pc = "lost"
      /\ \A q \in Requests \ {r} : req'[q] = req[q]
  BY Types DEF Reread, Goto, Answer
<1>3. CASE sess[req[r].session].status = "rotated"
  BY <1>1, <1>2, <1>3, Types DEF RereadEffect, Reread, AfterLost, Goto, RequestStates
<1>4. CASE sess[req[r].session].status # "rotated"
  BY <1>1, <1>2, <1>4, Types DEF RereadEffect, Reread, AfterLost, Answer, NoReq
<1>. QED BY <1>3, <1>4

MarkReuseEffect(r, o) ==
    /\ o \in Sessions /\ UNCHANGED <<user, caches, overwritten>> /\ req[r].pc = "reuse"
    /\ req[r].session = o /\ \A q \in Requests \ {r} : req'[q] = req[q]
    /\ \/ /\ sess[o].status = "rotated" /\ sess'[o].status = "revoked"
          /\ presented' = presented \cup {o}
          /\ sess'[o].version = sess[o].version /\ sess'[o].family = sess[o].family
          /\ sess'[o].parent = sess[o].parent
          /\ \A s \in Sessions \ {o} : sess'[s] = sess[s]
          /\ req'[r].pc = "bump" /\ req'[r].session = o
          /\ req'[r].fresh = req[r].fresh /\ req'[r].version = req[r].version
       \/ /\ sess[o].status # "rotated" /\ UNCHANGED <<sess, presented>>
          /\ req'[r].pc = "idle" /\ req'[r].fresh = None /\ req'[r].version = 1

\* One request wins the mark and goes on to bump.
LEMMA MarkReuseDoes ==
    ASSUME TypeOK, WorkFits, NEW r \in Requests, MarkReuseDetected(r)
    PROVE  MarkReuseEffect(r, req[r].session)
<1>1. req[r].session \in Sessions
  BY DEF WorkFits, Known, MarkReuseDetected
<1>2. /\ UNCHANGED <<user, caches, overwritten>> /\ req[r].pc = "reuse"
      /\ \A q \in Requests \ {r} : req'[q] = req[q]
  BY Types DEF MarkReuseDetected, Goto, Answer
<1>3. CASE sess[req[r].session].status = "rotated"
  <2>1. /\ Goto(r, "bump") /\ sess' = [sess EXCEPT ![req[r].session].status = "revoked"]
        /\ presented' = presented \cup {req[r].session}
    BY <1>3 DEF MarkReuseDetected
  <2>2. /\ req'[r].pc = "bump" /\ req'[r].session = req[r].session
        /\ req'[r].fresh = req[r].fresh /\ req'[r].version = req[r].version
    BY <2>1, Types DEF Goto, RequestStates
  <2>. QED BY <1>1, <1>2, <1>3, <2>1, <2>2, Types DEF MarkReuseEffect, SessionRows
<1>4. CASE sess[req[r].session].status # "rotated"
  BY <1>1, <1>2, <1>4, Types DEF MarkReuseEffect, MarkReuseDetected, Answer, NoReq
<1>. QED BY <1>3, <1>4

BumpEffect(r) ==
    /\ UNCHANGED <<sess, caches, history>> /\ \A q \in Requests \ {r} : req'[q] = req[q]
    /\ req[r].pc \in {"bump", "update"} /\ req'[r].pc \in {"version", "idle"}
    /\ req'[r].fresh = None /\ req'[r].version = 1 /\ user'.version \in Nat
    /\ \/ ~user.live /\ UNCHANGED user
       \/ user'.version = user.version + 1 /\ user'.live = user.live

\* The version of a user who is there is raised, whatever else is written.
LEMMA BumpDoes ==
    ASSUME TypeOK, NEW r \in Requests, BumpTokenVersion(r) \/ UpdateAndBump(r)
    PROVE  BumpEffect(r)
<1>. DEFINE n == [NoReq EXCEPT !.pc = "version"]
<1>1. PICK u : Bump(r, u) /\ u \in {user, [user EXCEPT !.active = req[r].active]}
               /\ req[r].pc \in {"bump", "update"}
  BY DEF BumpTokenVersion, UpdateAndBump
<1>2. /\ UNCHANGED <<sess, caches, history>> /\ req'[r] \in {NoReq, n}
      /\ \A q \in Requests \ {r} : req'[q] = req[q]
  BY <1>1, Types DEF Bump, Leave, Answer
<1>3. /\ n.pc = "version" /\ n.fresh = None /\ n.version = 1
      /\ NoReq.pc = "idle" /\ NoReq.fresh = None /\ NoReq.version = 1
  BY DEF NoReq
<1>4. /\ user'.version \in Nat
      /\ \/ ~user.live /\ UNCHANGED user
         \/ user'.version = user.version + 1 /\ user'.live = user.live
  <2>1. /\ user.version \in Nat /\ u.version = user.version /\ u.live = user.live
        /\ user \in UserRows /\ u \in {user, [user EXCEPT !.active = req[r].active]}
    BY <1>1, Types DEF UserRows, Versions
  <2>2. CASE user.live
    <3>1. user' = [u EXCEPT !.version = u.version + 1]
      BY <1>1, <2>2 DEF Bump
    <3>. QED BY <2>1, <3>1 DEF UserRows
  <2>3. CASE ~user.live BY <1>1, <2>1, <2>3 DEF Bump
  <2>. QED BY <2>2, <2>3
<1>. HIDE DEF n
<1>. QED BY <1>1, <1>2, <1>3, <1>4 DEF BumpEffect

CutOffEffect(r, o) ==
    /\ UNCHANGED <<dbVars, vcache, scache, overwritten>>
    /\ req[r].session = o /\ \A q \in Requests \ {r} : req'[q] = req[q]
    /\ req'[r].pc = "idle" /\ req'[r].fresh = None /\ req'[r].version = 1
    /\ presented' \subseteq presented
    /\ req[r].pc = "reuse" /\ sess[o].status = "rotated" => o \notin presented'
    /\ req[r].pc = "bump" => o \notin presented'
    /\ \A s \in presented : s # o => s \in presented'

\* A request that is cut off leaves everything but the history as it is.
LEMMA CutOffDoes ==
    ASSUME TypeOK, NEW r \in Requests, CutOff(r)
    PROVE  CutOffEffect(r, req[r].session)
<1>1. req'[r] = NoReq /\ \A q \in Requests \ {r} : req'[q] = req[q]
  BY Types DEF CutOff, Answer
<1>2. NoReq.pc = "idle" /\ NoReq.fresh = None /\ NoReq.version = 1
  BY DEF NoReq
<1>. QED BY <1>1, <1>2 DEF CutOffEffect, CutOff

CreateEffect(r, f) ==
    /\ f \in Sessions /\ UNCHANGED <<user, caches, history>> /\ req[r].pc = "create"
    /\ sess[f].status = "none" /\ sess'[f].status = "active" /\ req[r].fresh = f
    /\ sess'[f].version = req[r].version /\ sess'[f].family = f /\ sess'[f].parent = None
    /\ \A s \in Sessions \ {f} : sess'[s] = sess[s]
    /\ \A q \in Requests \ {r} : req'[q] = req[q]
    /\ req'[r].pc = "markNew" /\ req'[r].session = req[r].session
    /\ req'[r].fresh = f /\ req'[r].version = req[r].version

\* A login writes the row its id was kept for.
LEMMA CreateDoes ==
    ASSUME TypeOK, FreshFits, NEW r \in Requests, CreateSession(r)
    PROVE  CreateEffect(r, req[r].fresh)
<1>1. req[r].fresh \in Sessions /\ sess[req[r].fresh].status = "none"
  BY DEF FreshFits, CreateSession
<1>2. /\ req'[r].pc = "markNew" /\ req'[r].session = req[r].session
      /\ req'[r].fresh = req[r].fresh /\ req'[r].version = req[r].version
      /\ \A q \in Requests \ {r} : req'[q] = req[q]
  BY Types DEF CreateSession, Goto, RequestStates
<1>. QED BY <1>1, <1>2, Types DEF CreateEffect, CreateSession

RevokeEffect(r) ==
    /\ UNCHANGED <<user, caches, history>> /\ req[r].pc = "revoke"
    /\ \A q \in Requests \ {r} : req'[q] = req[q]
    /\ req'[r].pc = "cache" /\ req'[r].session = req[r].session
    /\ req'[r].fresh = req[r].fresh /\ req'[r].version = req[r].version
    /\ req'[r].listed = req[r].listed
    /\ \A s \in Sessions :
           /\ sess'[s].version = sess[s].version /\ sess'[s].family = sess[s].family
           /\ sess'[s].parent = sess[s].parent
           /\ IF sess[s].status = "active" THEN sess'[s].status = "revoked"
              ELSE sess'[s] = sess[s]

\* RevokeByUserID ends the active rows and leaves the others.
LEMMA RevokeDoes ==
    ASSUME TypeOK, NEW r \in Requests, RevokeByUserID(r)
    PROVE  RevokeEffect(r)
<1>1. /\ req'[r].pc = "cache" /\ req'[r].session = req[r].session
      /\ req'[r].fresh = req[r].fresh /\ req'[r].version = req[r].version
      /\ req'[r].listed = req[r].listed
      /\ \A q \in Requests \ {r} : req'[q] = req[q]
  BY Types DEF RevokeByUserID, Goto, RequestStates
<1>2. \A s \in Sessions :
           /\ sess'[s].version = sess[s].version /\ sess'[s].family = sess[s].family
           /\ sess'[s].parent = sess[s].parent
           /\ IF sess[s].status = "active" THEN sess'[s].status = "revoked"
              ELSE sess'[s] = sess[s]
  BY Types DEF RevokeByUserID, SessionRows
<1>. QED BY <1>1, <1>2 DEF RevokeEffect, RevokeByUserID

ReadStatusEffect(r, s) ==
    /\ UNCHANGED <<dbVars, caches, history>> /\ req[r].pc = "cachedStatus"
    /\ \A q \in Requests \ {r} : req'[q] = req[q]
    /\ \/ req'[r].pc = "idle" /\ req'[r].fresh = None /\ req'[r].version = 1
       \/ /\ req'[r].pc = "fillStatus" /\ req'[r].session = s
          /\ req'[r].status = AsCached(s)
          /\ req'[r].fresh = req[r].fresh /\ req'[r].version = req[r].version

\* A validation asks the cache, then the row.
LEMMA ReadStatusDoes ==
    ASSUME TypeOK, NEW r \in Requests, ReadStatus(r)
    PROVE  ReadStatusEffect(r, req[r].session)
<1>1. CASE Answer(r)
  BY <1>1, Types DEF ReadStatusEffect, ReadStatus, Answer, NoReq
<1>2. CASE ~Answer(r)
  BY <1>2, Types DEF ReadStatusEffect, ReadStatus, RequestStates
<1>. QED BY <1>1, <1>2

FillVersionEffect(r) ==
    /\ UNCHANGED <<dbVars, scache, history>> /\ vcache' \in {vcache, req[r].version}
    /\ req[r].pc = "fillVersion" /\ \A q \in Requests \ {r} : req'[q] = req[q]
    /\ req'[r].fresh = None /\ req'[r].version = 1
    /\ \/ req'[r].pc = "idle"
       \/ req'[r].pc = "cachedStatus" /\ req'[r].session = req[r].session

\* A validation that had to read the version goes on or is refused.
LEMMA FillVersionDoes ==
    ASSUME TypeOK, NEW r \in Requests, FillVersion(r)
    PROVE  FillVersionEffect(r)
<1>. DEFINE n == [NoReq EXCEPT !.pc = "cachedStatus", !.session = req[r].session]
<1>1. req'[r] = NoReq \/ req'[r] = n
  BY Types DEF FillVersion, Answer
<1>2. /\ n.fresh = None /\ n.pc = "cachedStatus" /\ n.session = req[r].session
      /\ n.version = 1 /\ NoReq.fresh = None /\ NoReq.pc = "idle" /\ NoReq.version = 1
  BY DEF NoReq
<1>3. UNCHANGED <<dbVars, scache, history>> /\ vcache' \in {vcache, req[r].version}
  BY DEF FillVersion
<1>4. req[r].pc = "fillVersion" /\ \A q \in Requests \ {r} : req'[q] = req[q]
  BY Types DEF FillVersion, Answer
<1>. HIDE DEF n
<1>. QED BY <1>1, <1>2, <1>3, <1>4 DEF FillVersionEffect

ValidateEffect(r, s) ==
    /\ UNCHANGED <<dbVars, caches, history>> /\ sess[s].status # "none"
    /\ req[r].pc = "idle" /\ \A q \in Requests \ {r} : req'[q] = req[q]
    /\ req'[r].fresh = None /\ req'[r].session = s
    /\ \/ req'[r].pc = "cachedStatus" /\ req'[r].version = 1
       \/ req'[r].pc = "fillVersion" /\ req'[r].version = user.version

\* A validation starts from the cache or from the database.
LEMMA ValidateDoes ==
    ASSUME TypeOK, NEW r \in Requests, NEW s \in Sessions, Validate(r, s)
    PROVE  ValidateEffect(r, s)
<1>. DEFINE m == [NoReq EXCEPT !.pc = "cachedStatus", !.session = s]
            n == [NoReq EXCEPT !.pc = "fillVersion", !.session = s,
                               !.version = user.version]
<1>1. req'[r] = m \/ req'[r] = n
  BY Types DEF Validate, Begin
<1>2. /\ m.fresh = None /\ m.pc = "cachedStatus" /\ m.session = s /\ m.version = 1
      /\ n.fresh = None /\ n.pc = "fillVersion" /\ n.session = s
      /\ n.version = user.version
  BY DEF NoReq
<1>3. UNCHANGED <<dbVars, caches, history>> /\ sess[s].status # "none"
  BY DEF Validate, Begin
<1>4. req[r].pc = "idle" /\ \A q \in Requests \ {r} : req'[q] = req[q]
  BY Types DEF Validate, Begin
<1>. HIDE DEF m, n
<1>. QED BY <1>1, <1>2, <1>3, <1>4 DEF ValidateEffect

-----------------------------------------------------------------------------
(* Every part of IInv is kept by every step.                              *)

\* An id stays with one request until its row is written.
LEMMA FreshFitsKeeps ==
    TypeOK /\ WorkFits /\ FreshFits /\ [Next]_vars => FreshFits'
<1>. SUFFICES ASSUME TypeOK, WorkFits, FreshFits, [Next]_vars PROVE FreshFits'
  OBVIOUS
<1>. USE DEF dbVars, caches, history, Goto, Leave, Answer, Begin, NoReq,
            Written, Fault, RequestStates, SessionRows, AfterList, Known, Over,
            FreshFits, Unused
<1>t. /\ user \in UserRows /\ sess \in [Sessions -> SessionRows]
      /\ req \in [Requests -> RequestStates]
  BY Types
<1>. USE <1>t
<1>1. ASSUME NEW r \in Requests, Authenticate(r) \/ Administer(r) \/ Serve(r) \/ CutOff(r)
      PROVE  FreshFits'
  <2>1. CASE CreateSession(r)
    <3>1. CreateEffect(r, req[r].fresh)
      BY <2>1, CreateDoes
    <3>. HIDE DEF RequestStates, SessionRows, NoReq
    <3>. QED BY <3>1 DEF CreateEffect
  <2>2. CASE MarkStatus(r) BY <2>2 DEF MarkStatus
  <2>3. CASE WarmVersion(r) BY <2>3 DEF WarmVersion
  <2>4. CASE Rotate(r)
    <3>1. RotateEffect(r, req[r].session, req[r].fresh)
      BY <2>4, RotateDoes
    <3>. HIDE DEF RequestStates, SessionRows, NoReq
    <3>. QED BY <3>1 DEF RotateEffect
  <2>5. CASE Reread(r)
    <3>1. RereadEffect(r, req[r].session)
      BY <2>5, RereadDoes
    <3>. HIDE DEF RequestStates, SessionRows, NoReq
    <3>. QED BY <3>1 DEF RereadEffect
  <2>6. CASE MarkReuseDetected(r)
    <3>1. MarkReuseEffect(r, req[r].session)
      BY <2>6, MarkReuseDoes
    <3>. HIDE DEF RequestStates, SessionRows, NoReq
    <3>. QED BY <3>1 DEF MarkReuseEffect
  <2>7. CASE BumpTokenVersion(r) \/ UpdateAndBump(r)
    <3>1. BumpEffect(r)
      BY <2>7, BumpDoes
    <3>. HIDE DEF RequestStates, SessionRows, NoReq
    <3>. QED BY <3>1 DEF BumpEffect
  <2>8. CASE GetTokenVersion(r)
    <3>1. /\ req'[r].pc \in {"publish", "idle"} /\ req'[r].fresh \in {req[r].fresh, None}
          /\ \A q \in Requests \ {r} : req'[q] = req[q]
      BY <2>8 DEF GetTokenVersion
    <3>2. UNCHANGED sess
      BY <2>8 DEF GetTokenVersion
    <3>. HIDE DEF RequestStates, SessionRows, NoReq
    <3>. QED BY <3>1, <3>2
  <2>9. CASE PublishVersion(r) BY <2>9 DEF PublishVersion
  <2>10. CASE ListActive(r) BY <2>10 DEF ListActive
  <2>11. CASE RevokeByUserID(r)
    <3>1. RevokeEffect(r)
      BY <2>11, RevokeDoes
    <3>. HIDE DEF RequestStates, SessionRows, NoReq
    <3>. QED BY <3>1 DEF RevokeEffect
  <2>12. CASE CacheRevoked(r) BY <2>12 DEF CacheRevoked
  <2>13. CASE SaveUser(r) BY <2>13 DEF SaveUser
  <2>14. CASE FillVersion(r)
    <3>1. FillVersionEffect(r)
      BY <2>14, FillVersionDoes
    <3>. HIDE DEF RequestStates, SessionRows, NoReq
    <3>. QED BY <3>1 DEF FillVersionEffect
  <2>15. CASE ReadStatus(r)
    <3>1. ReadStatusEffect(r, req[r].session)
      BY <2>15, ReadStatusDoes
    <3>. HIDE DEF RequestStates, SessionRows, NoReq
    <3>. QED BY <3>1 DEF ReadStatusEffect
  <2>16. CASE FillStatus(r) BY <2>16 DEF FillStatus
  <2>17. CASE Login(r) BY <2>17 DEF Login
  <2>18. CASE ChangePassword(r) BY <2>18 DEF ChangePassword
  <2>19. CASE UpdateSecurity(r) BY <2>19 DEF UpdateSecurity
  <2>20. CASE UpdateProfile(r) BY <2>20 DEF UpdateProfile
  <2>21. CASE DeleteUser(r) BY <2>21 DEF DeleteUser
  <2>22. ASSUME NEW s \in Sessions, Refresh(r, s) PROVE FreshFits'
    BY <2>22 DEF Refresh
  <2>23. ASSUME NEW s \in Sessions, RefreshAgain(r, s) PROVE FreshFits'
    BY <2>23 DEF RefreshAgain
  <2>24. ASSUME NEW s \in Sessions, Logout(r, s) PROVE FreshFits'
    BY <2>24 DEF Logout
  <2>25. ASSUME NEW s \in Sessions, Validate(r, s) PROVE FreshFits'
    <3>1. ValidateEffect(r, s)
      BY <2>25, ValidateDoes
    <3>. HIDE DEF RequestStates, SessionRows, NoReq
    <3>. QED BY <3>1 DEF ValidateEffect
  <2>26. CASE CutOff(r)
    <3>1. CutOffEffect(r, req[r].session)
      BY <2>26, CutOffDoes
    <3>. HIDE DEF RequestStates, SessionRows, NoReq
    <3>. QED BY <3>1 DEF CutOffEffect
  <2>. QED BY <1>1, <2>1, <2>2, <2>3, <2>4, <2>5, <2>6, <2>7, <2>8, <2>9,
              <2>10, <2>11, <2>12, <2>13, <2>14, <2>15, <2>16, <2>17, <2>18,
              <2>19, <2>20, <2>21, <2>22, <2>23, <2>24, <2>25, <2>26
              DEF Authenticate, Administer, Serve
<1>2. CASE Evict BY <1>2 DEF Evict
<1>3. CASE UNCHANGED vars BY <1>3 DEF vars
<1>. QED BY <1>1, <1>2, <1>3 DEF Next

\* What a request knows of the rows survives the steps of all others.
LEMMA WorkFitsKeeps ==
    TypeOK /\ FreshFits /\ WorkFits /\ [Next]_vars => WorkFits'
<1>. SUFFICES ASSUME TypeOK, FreshFits, WorkFits, [Next]_vars PROVE WorkFits'
  OBVIOUS
<1>. USE DEF dbVars, caches, history, Goto, Leave, Answer, Begin, NoReq,
            Written, Fault, RequestStates, SessionRows, AfterList, Known, Over,
            WorkFits, Unused, AsCached
<1>t. /\ user \in UserRows /\ sess \in [Sessions -> SessionRows]
      /\ req \in [Requests -> RequestStates]
  BY Types
<1>. USE <1>t
<1>1. ASSUME NEW r \in Requests, Authenticate(r) \/ Administer(r) \/ Serve(r) \/ CutOff(r)
      PROVE  WorkFits'
  <2>1. CASE CreateSession(r)
    <3>1. CreateEffect(r, req[r].fresh)
      BY <2>1, CreateDoes
    <3>. HIDE DEF RequestStates, SessionRows, NoReq
    <3>. QED BY <3>1 DEF CreateEffect
  <2>2. CASE MarkStatus(r) BY <2>2 DEF MarkStatus
  <2>3. CASE WarmVersion(r) BY <2>3 DEF WarmVersion
  <2>4. CASE Rotate(r)
    <3>1. RotateEffect(r, req[r].session, req[r].fresh)
      BY <2>4, RotateDoes
    <3>. HIDE DEF RequestStates, SessionRows, NoReq
    <3>. QED BY <3>1 DEF RotateEffect
  <2>5. CASE Reread(r)
    <3>1. RereadEffect(r, req[r].session)
      BY <2>5, RereadDoes
    <3>. HIDE DEF RequestStates, SessionRows, NoReq
    <3>. QED BY <3>1 DEF RereadEffect
  <2>6. CASE MarkReuseDetected(r)
    <3>1. MarkReuseEffect(r, req[r].session)
      BY <2>6, MarkReuseDoes
    <3>. HIDE DEF RequestStates, SessionRows, NoReq
    <3>. QED BY <3>1 DEF MarkReuseEffect
  <2>7. CASE BumpTokenVersion(r) \/ UpdateAndBump(r)
    <3>1. BumpEffect(r)
      BY <2>7, BumpDoes
    <3>. HIDE DEF RequestStates, SessionRows, NoReq
    <3>. QED BY <3>1 DEF BumpEffect
  <2>8. CASE GetTokenVersion(r)
    <3>1. req'[r].pc \in {"publish", "idle"} /\ \A q \in Requests \ {r} : req'[q] = req[q]
      BY <2>8 DEF GetTokenVersion
    <3>2. UNCHANGED sess
      BY <2>8 DEF GetTokenVersion
    <3>. HIDE DEF RequestStates, SessionRows, NoReq
    <3>. QED BY <3>1, <3>2
  <2>9. CASE PublishVersion(r) BY <2>9 DEF PublishVersion
  <2>10. CASE ListActive(r) BY <2>10 DEF ListActive
  <2>11. CASE RevokeByUserID(r)
    <3>1. RevokeEffect(r)
      BY <2>11, RevokeDoes
    <3>2. \A x \in Sessions : sess[x].status \in {"none", "active", "rotated", "revoked"}
      BY DEF SessionRows, Statuses
    <3>. HIDE DEF RequestStates, SessionRows, NoReq
    <3>. QED BY <3>1, <3>2 DEF RevokeEffect
  <2>12. CASE CacheRevoked(r) BY <2>12 DEF CacheRevoked
  <2>13. CASE SaveUser(r) BY <2>13 DEF SaveUser
  <2>14. CASE FillVersion(r)
    <3>1. FillVersionEffect(r)
      BY <2>14, FillVersionDoes
    <3>. HIDE DEF RequestStates, SessionRows, NoReq
    <3>. QED BY <3>1 DEF FillVersionEffect
  <2>15. CASE ReadStatus(r)
    <3>1. ReadStatusEffect(r, req[r].session)
      BY <2>15, ReadStatusDoes
    <3>2. \A x \in Sessions : sess[x].status \in {"none", "active", "rotated", "revoked"}
      BY DEF SessionRows, Statuses
    <3>. HIDE DEF RequestStates, SessionRows, NoReq
    <3>. QED BY <3>1, <3>2 DEF ReadStatusEffect
  <2>16. CASE FillStatus(r) BY <2>16 DEF FillStatus
  <2>17. CASE Login(r) BY <2>17 DEF Login
  <2>18. CASE ChangePassword(r) BY <2>18 DEF ChangePassword
  <2>19. CASE UpdateSecurity(r) BY <2>19 DEF UpdateSecurity
  <2>20. CASE UpdateProfile(r) BY <2>20 DEF UpdateProfile
  <2>21. CASE DeleteUser(r) BY <2>21 DEF DeleteUser
  <2>22. ASSUME NEW s \in Sessions, Refresh(r, s) PROVE WorkFits'
    BY <2>22 DEF Refresh
  <2>23. ASSUME NEW s \in Sessions, RefreshAgain(r, s) PROVE WorkFits'
    BY <2>23 DEF RefreshAgain
  <2>24. ASSUME NEW s \in Sessions, Logout(r, s) PROVE WorkFits'
    BY <2>24 DEF Logout
  <2>25. ASSUME NEW s \in Sessions, Validate(r, s) PROVE WorkFits'
    <3>1. ValidateEffect(r, s)
      BY <2>25, ValidateDoes
    <3>. HIDE DEF RequestStates, SessionRows, NoReq
    <3>. QED BY <3>1 DEF ValidateEffect
  <2>26. CASE CutOff(r)
    <3>1. CutOffEffect(r, req[r].session)
      BY <2>26, CutOffDoes
    <3>. HIDE DEF RequestStates, SessionRows, NoReq
    <3>. QED BY <3>1 DEF CutOffEffect
  <2>. QED BY <1>1, <2>1, <2>2, <2>3, <2>4, <2>5, <2>6, <2>7, <2>8, <2>9,
              <2>10, <2>11, <2>12, <2>13, <2>14, <2>15, <2>16, <2>17, <2>18,
              <2>19, <2>20, <2>21, <2>22, <2>23, <2>24, <2>25, <2>26
              DEF Authenticate, Administer, Serve
<1>2. CASE Evict BY <1>2 DEF Evict
<1>3. CASE UNCHANGED vars BY <1>3 DEF vars
<1>. QED BY <1>1, <1>2, <1>3 DEF Next

\* Rotation keeps the tree of sessions.
LEMMA TreeFitsKeeps ==
    TypeOK /\ WorkFits /\ FreshFits /\ TreeFits /\ [Next]_vars => TreeFits'
<1>. SUFFICES ASSUME TypeOK, WorkFits, FreshFits, TreeFits, [Next]_vars
            PROVE TreeFits'
  OBVIOUS
<1>. USE DEF dbVars, caches, history, Goto, Leave, Answer, Begin, NoReq,
            Written, Fault, RequestStates, SessionRows, AfterList, Known, Over,
            TreeFits, NoSession
<1>t. /\ user \in UserRows /\ sess \in [Sessions -> SessionRows]
      /\ req \in [Requests -> RequestStates]
  BY Types
<1>. USE <1>t
<1>1. ASSUME NEW r \in Requests, Authenticate(r) \/ Administer(r) \/ Serve(r) \/ CutOff(r)
      PROVE  TreeFits'
  <2>1. CASE CreateSession(r)
    <3>1. CreateEffect(r, req[r].fresh)
      BY <2>1, CreateDoes
    <3>. HIDE DEF RequestStates, SessionRows, NoReq
    <3>. QED BY <3>1 DEF CreateEffect
  <2>2. CASE MarkStatus(r) BY <2>2 DEF MarkStatus
  <2>3. CASE WarmVersion(r) BY <2>3 DEF WarmVersion
  <2>4. CASE Rotate(r)
    <3>. DEFINE o == req[r].session
                f == req[r].fresh
    <3>1. RotateEffect(r, o, f)
      BY <2>4, RotateDoes
    <3>. HIDE DEF RequestStates, SessionRows, NoReq
    <3>2. CASE sess' = sess
      BY <3>2
    <3>3. CASE sess' # sess
      <4>1. /\ o \in Sessions /\ f \in Sessions /\ o # f
            /\ sess[o].status = "active" /\ sess'[o].status = "rotated"
            /\ sess'[o].version = sess[o].version /\ sess'[o].family = sess[o].family
            /\ sess'[o].parent = sess[o].parent /\ sess[f].status = "none"
            /\ sess'[f].status = "active" /\ sess'[f].version = sess[o].version
            /\ sess'[f].family = sess[o].family /\ sess'[f].parent = o
            /\ \A s \in Sessions \ {o, f} : sess'[s] = sess[s]
        BY <3>1, <3>3 DEF RotateEffect
      <4>. HIDE DEF o, f
      <4>2. \A s \in Sessions : sess'[s].status = "none" => sess'[s] = NoSession
        BY <4>1
      <4>3. \A s \in Sessions : sess[s].status # "none" =>
               /\ sess'[s].family = sess[s].family /\ sess'[s].version = sess[s].version
               /\ sess'[s].status # "none"
        BY <4>1
      <4>4. \A s \in Sessions : sess'[s].status # "none" =>
               /\ sess'[s].family \in Sessions /\ sess'[sess'[s].family].status # "none"
               /\ sess'[sess'[s].family].version = sess'[s].version
        BY <4>1, <4>3
      <4>5. \A s \in Sessions : sess[s].parent # None =>
               sess'[s].parent = sess[s].parent /\ s # f
        BY <4>1 DEF NoSession
      <4>6. \A d \in Sessions : sess'[d].parent # None =>
               Over(sess[d].parent)' /\ sess'[sess'[d].parent].version = sess'[d].version
        <5>. SUFFICES ASSUME NEW d \in Sessions, sess'[d].parent # None
                      PROVE  /\ Over(sess[d].parent)'
                             /\ sess'[sess'[d].parent].version = sess'[d].version
          OBVIOUS
        <5>1. CASE d = f
          BY <4>1, <5>1
        <5>2. CASE d # f
          <6>1. sess'[d].parent = sess[d].parent /\ sess'[d].version = sess[d].version
            BY <4>1, <5>2
          <6>2. Over(sess[d].parent) /\ sess[sess[d].parent].version = sess[d].version
            BY <6>1
          <6>3. sess[d].parent # o /\ sess[d].parent # f
            BY <4>1, <6>2
          <6>. QED BY <4>1, <6>1, <6>2, <6>3
        <5>. QED BY <5>1, <5>2
      <4>7. \A d, e \in Sessions :
               sess'[d].parent = sess'[e].parent /\ sess'[d].parent # None => d = e
        BY <4>1, <4>5
      <4>8. \A s \in Sessions : Known(s)' =>
               Known(sess[s].family)' /\ sess'[sess'[s].family].version = sess'[s].version
        BY <4>4
      <4>. QED
        <5>. HIDE DEF Known, Over
        <5>. QED BY <4>2, <4>6, <4>7, <4>8
    <3>. QED BY <3>2, <3>3
  <2>5. CASE Reread(r)
    <3>1. RereadEffect(r, req[r].session)
      BY <2>5, RereadDoes
    <3>. HIDE DEF RequestStates, SessionRows, NoReq
    <3>. QED BY <3>1 DEF RereadEffect
  <2>6. CASE MarkReuseDetected(r)
    <3>1. MarkReuseEffect(r, req[r].session)
      BY <2>6, MarkReuseDoes
    <3>. HIDE DEF RequestStates, SessionRows, NoReq
    <3>2. CASE sess' = sess
      BY <3>2
    <3>3. CASE sess' # sess
      <4>1. \A s \in Sessions :
               /\ sess'[s].version = sess[s].version /\ sess'[s].family = sess[s].family
               /\ sess'[s].parent = sess[s].parent
               /\ \/ sess'[s] = sess[s]
                  \/ sess[s].status = "rotated" /\ sess'[s].status = "revoked"
        BY <3>1, <3>3 DEF MarkReuseEffect
      <4>. QED BY <4>1
    <3>. QED BY <3>2, <3>3
  <2>7. CASE BumpTokenVersion(r) \/ UpdateAndBump(r)
    <3>1. BumpEffect(r)
      BY <2>7, BumpDoes
    <3>. HIDE DEF RequestStates, SessionRows, NoReq
    <3>. QED BY <3>1 DEF BumpEffect
  <2>8. CASE GetTokenVersion(r) BY <2>8 DEF GetTokenVersion
  <2>9. CASE PublishVersion(r) BY <2>9 DEF PublishVersion
  <2>10. CASE ListActive(r) BY <2>10 DEF ListActive
  <2>11. CASE RevokeByUserID(r)
    <3>1. RevokeEffect(r)
      BY <2>11, RevokeDoes
    <3>. HIDE DEF RequestStates, SessionRows, NoReq
    <3>. QED BY <3>1 DEF RevokeEffect
  <2>12. CASE CacheRevoked(r) BY <2>12 DEF CacheRevoked
  <2>13. CASE SaveUser(r) BY <2>13 DEF SaveUser
  <2>14. CASE FillVersion(r)
    <3>1. FillVersionEffect(r)
      BY <2>14, FillVersionDoes
    <3>. HIDE DEF RequestStates, SessionRows, NoReq
    <3>. QED BY <3>1 DEF FillVersionEffect
  <2>15. CASE ReadStatus(r)
    <3>1. ReadStatusEffect(r, req[r].session)
      BY <2>15, ReadStatusDoes
    <3>. HIDE DEF RequestStates, SessionRows, NoReq
    <3>. QED BY <3>1 DEF ReadStatusEffect
  <2>16. CASE FillStatus(r) BY <2>16 DEF FillStatus
  <2>17. CASE Login(r) BY <2>17 DEF Login
  <2>18. CASE ChangePassword(r) BY <2>18 DEF ChangePassword
  <2>19. CASE UpdateSecurity(r) BY <2>19 DEF UpdateSecurity
  <2>20. CASE UpdateProfile(r) BY <2>20 DEF UpdateProfile
  <2>21. CASE DeleteUser(r) BY <2>21 DEF DeleteUser
  <2>22. ASSUME NEW s \in Sessions, Refresh(r, s) PROVE TreeFits'
    BY <2>22 DEF Refresh
  <2>23. ASSUME NEW s \in Sessions, RefreshAgain(r, s) PROVE TreeFits'
    BY <2>23 DEF RefreshAgain
  <2>24. ASSUME NEW s \in Sessions, Logout(r, s) PROVE TreeFits'
    BY <2>24 DEF Logout
  <2>25. ASSUME NEW s \in Sessions, Validate(r, s) PROVE TreeFits'
    <3>1. ValidateEffect(r, s)
      BY <2>25, ValidateDoes
    <3>. HIDE DEF RequestStates, SessionRows, NoReq
    <3>. QED BY <3>1 DEF ValidateEffect
  <2>26. CASE CutOff(r)
    <3>1. CutOffEffect(r, req[r].session)
      BY <2>26, CutOffDoes
    <3>. HIDE DEF RequestStates, SessionRows, NoReq
    <3>. QED BY <3>1 DEF CutOffEffect
  <2>. QED BY <1>1, <2>1, <2>2, <2>3, <2>4, <2>5, <2>6, <2>7, <2>8, <2>9,
              <2>10, <2>11, <2>12, <2>13, <2>14, <2>15, <2>16, <2>17, <2>18,
              <2>19, <2>20, <2>21, <2>22, <2>23, <2>24, <2>25, <2>26
              DEF Authenticate, Administer, Serve
<1>2. CASE Evict BY <1>2 DEF Evict
<1>3. CASE UNCHANGED vars BY <1>3 DEF vars
<1>. QED BY <1>1, <1>2, <1>3 DEF Next

\* No write puts a refusal of an active session in the cache.
LEMMA CacheFitsKeeps ==
    TypeOK /\ WorkFits /\ FreshFits /\ CacheFits /\ [Next]_vars => CacheFits'
<1>. SUFFICES ASSUME TypeOK, WorkFits, FreshFits, CacheFits, [Next]_vars
            PROVE CacheFits'
  OBVIOUS
<1>. USE DEF dbVars, caches, history, Goto, Leave, Answer, Begin, NoReq,
            Written, Fault, RequestStates, SessionRows, AfterList, Known, Over,
            CacheFits
<1>t. /\ user \in UserRows /\ sess \in [Sessions -> SessionRows]
      /\ req \in [Requests -> RequestStates]
  BY Types
<1>. USE <1>t
<1>s. scache \in [Sessions -> Cached]
  BY DEF TypeOK
<1>. USE <1>s
<1>1. ASSUME NEW r \in Requests, Authenticate(r) \/ Administer(r) \/ Serve(r) \/ CutOff(r)
      PROVE  CacheFits'
  <2>1. CASE CreateSession(r)
    <3>1. CreateEffect(r, req[r].fresh)
      BY <2>1, CreateDoes
    <3>. HIDE DEF RequestStates, SessionRows, NoReq
    <3>. QED BY <3>1 DEF CreateEffect
  <2>2. CASE MarkStatus(r)
    <3>1. \A s \in Sessions : scache'[s] = "refused" =>
              \/ scache[s] = "refused"
              \/ req[r].pc = "markOld" /\ s = req[r].session
      <4>1. \/ UNCHANGED scache
            \/ req[r].pc = "markOld" /\ scache' = [scache EXCEPT ![req[r].session] = "refused"]
            \/ scache' = [scache EXCEPT ![req[r].fresh] = "active"]
        BY <2>2 DEF MarkStatus
      <4>. HIDE DEF SessionRows, RequestStates, NoReq
      <4>. QED BY <4>1
    <3>. QED BY <2>2, <3>1 DEF MarkStatus, WorkFits
  <2>3. CASE WarmVersion(r) BY <2>3 DEF WarmVersion
  <2>4. CASE Rotate(r)
    <3>1. RotateEffect(r, req[r].session, req[r].fresh)
      BY <2>4, RotateDoes
    <3>. HIDE DEF RequestStates, SessionRows, NoReq
    <3>. QED BY <3>1 DEF RotateEffect
  <2>5. CASE Reread(r)
    <3>1. RereadEffect(r, req[r].session)
      BY <2>5, RereadDoes
    <3>. HIDE DEF RequestStates, SessionRows, NoReq
    <3>. QED BY <3>1 DEF RereadEffect
  <2>6. CASE MarkReuseDetected(r)
    <3>1. MarkReuseEffect(r, req[r].session)
      BY <2>6, MarkReuseDoes
    <3>. HIDE DEF RequestStates, SessionRows, NoReq
    <3>. QED BY <3>1 DEF MarkReuseEffect
  <2>7. CASE BumpTokenVersion(r) \/ UpdateAndBump(r)
    <3>1. BumpEffect(r)
      BY <2>7, BumpDoes
    <3>. HIDE DEF RequestStates, SessionRows, NoReq
    <3>. QED BY <3>1 DEF BumpEffect
  <2>8. CASE GetTokenVersion(r) BY <2>8 DEF GetTokenVersion
  <2>9. CASE PublishVersion(r) BY <2>9 DEF PublishVersion
  <2>10. CASE ListActive(r) BY <2>10 DEF ListActive
  <2>11. CASE RevokeByUserID(r)
    <3>1. RevokeEffect(r)
      BY <2>11, RevokeDoes
    <3>. HIDE DEF RequestStates, SessionRows, NoReq
    <3>. QED BY <3>1 DEF RevokeEffect
  <2>12. CASE CacheRevoked(r)
    <3>1. \A s \in Sessions : scache'[s] = "refused" =>
              \/ scache[s] = "refused"
              \/ req[r].pc = "cache" /\ s \in req[r].listed
      <4>1. \/ UNCHANGED scache
            \/ /\ req[r].pc = "cache"
               /\ \E t \in req[r].listed : scache' = [scache EXCEPT ![t] = "refused"]
        BY <2>12 DEF CacheRevoked
      <4>. HIDE DEF SessionRows, RequestStates, NoReq
      <4>. QED BY <4>1
    <3>. QED BY <2>12, <3>1 DEF CacheRevoked, WorkFits
  <2>13. CASE SaveUser(r) BY <2>13 DEF SaveUser
  <2>14. CASE FillVersion(r)
    <3>1. FillVersionEffect(r)
      BY <2>14, FillVersionDoes
    <3>. HIDE DEF RequestStates, SessionRows, NoReq
    <3>. QED BY <3>1 DEF FillVersionEffect
  <2>15. CASE ReadStatus(r)
    <3>1. ReadStatusEffect(r, req[r].session)
      BY <2>15, ReadStatusDoes
    <3>. HIDE DEF RequestStates, SessionRows, NoReq
    <3>. QED BY <3>1 DEF ReadStatusEffect
  <2>16. CASE FillStatus(r)
    <3>1. \A s \in Sessions : scache'[s] = "refused" =>
              \/ scache[s] = "refused"
              \/ req[r].pc = "fillStatus" /\ req[r].status = "refused" /\ s = req[r].session
      BY <2>16 DEF FillStatus
    <3>. QED BY <2>16, <3>1 DEF FillStatus, WorkFits
  <2>17. CASE Login(r) BY <2>17 DEF Login
  <2>18. CASE ChangePassword(r) BY <2>18 DEF ChangePassword
  <2>19. CASE UpdateSecurity(r) BY <2>19 DEF UpdateSecurity
  <2>20. CASE UpdateProfile(r) BY <2>20 DEF UpdateProfile
  <2>21. CASE DeleteUser(r) BY <2>21 DEF DeleteUser
  <2>22. ASSUME NEW s \in Sessions, Refresh(r, s) PROVE CacheFits'
    BY <2>22 DEF Refresh
  <2>23. ASSUME NEW s \in Sessions, RefreshAgain(r, s) PROVE CacheFits'
    BY <2>23 DEF RefreshAgain
  <2>24. ASSUME NEW s \in Sessions, Logout(r, s) PROVE CacheFits'
    BY <2>24 DEF Logout
  <2>25. ASSUME NEW s \in Sessions, Validate(r, s) PROVE CacheFits'
    <3>1. ValidateEffect(r, s)
      BY <2>25, ValidateDoes
    <3>. HIDE DEF RequestStates, SessionRows, NoReq
    <3>. QED BY <3>1 DEF ValidateEffect
  <2>26. CASE CutOff(r)
    <3>1. CutOffEffect(r, req[r].session)
      BY <2>26, CutOffDoes
    <3>. HIDE DEF RequestStates, SessionRows, NoReq
    <3>. QED BY <3>1 DEF CutOffEffect
  <2>. QED BY <1>1, <2>1, <2>2, <2>3, <2>4, <2>5, <2>6, <2>7, <2>8, <2>9,
              <2>10, <2>11, <2>12, <2>13, <2>14, <2>15, <2>16, <2>17, <2>18,
              <2>19, <2>20, <2>21, <2>22, <2>23, <2>24, <2>25, <2>26
              DEF Authenticate, Administer, Serve
<1>2. CASE Evict BY <1>2 DEF Evict
<1>3. CASE UNCHANGED vars BY <1>3 DEF vars
<1>. QED BY <1>1, <1>2, <1>3 DEF Next

\* No step reads or writes a version ahead of the row.
LEMMA VersionsFitKeeps ==
    TypeOK /\ WorkFits /\ FreshFits /\ VersionsFit /\ [Next]_vars => VersionsFit'
<1>. SUFFICES ASSUME TypeOK, WorkFits, FreshFits, VersionsFit, [Next]_vars
            PROVE VersionsFit'
  OBVIOUS
<1>. USE DEF dbVars, caches, history, Goto, Leave, Answer, Begin, NoReq,
            Written, Fault, RequestStates, SessionRows, AfterList, Known, Over,
            VersionsFit
<1>t. /\ user \in UserRows /\ sess \in [Sessions -> SessionRows]
      /\ req \in [Requests -> RequestStates]
  BY Types
<1>. USE <1>t
<1>n. /\ user.version \in Nat /\ user.version >= 1 /\ vcache \in Nat
      /\ \A q \in Requests : req[q].version \in Nat
      /\ \A s \in Sessions : sess[s].version \in Nat
  BY DEF TypeOK, Versions
<1>. USE <1>n
<1>1. ASSUME NEW r \in Requests, Authenticate(r) \/ Administer(r) \/ Serve(r) \/ CutOff(r)
      PROVE  VersionsFit'
  <2>1. CASE CreateSession(r)
    <3>1. CreateEffect(r, req[r].fresh)
      BY <2>1, CreateDoes
    <3>. HIDE DEF RequestStates, SessionRows, NoReq
    <3>. QED BY <3>1 DEF CreateEffect
  <2>2. CASE MarkStatus(r) BY <2>2 DEF MarkStatus
  <2>3. CASE WarmVersion(r) BY <2>3 DEF WarmVersion
  <2>4. CASE Rotate(r)
    <3>1. RotateEffect(r, req[r].session, req[r].fresh)
      BY <2>4, RotateDoes
    <3>. HIDE DEF RequestStates, SessionRows, NoReq
    <3>. QED BY <3>1 DEF RotateEffect
  <2>5. CASE Reread(r)
    <3>1. RereadEffect(r, req[r].session)
      BY <2>5, RereadDoes
    <3>. HIDE DEF RequestStates, SessionRows, NoReq
    <3>. QED BY <3>1 DEF RereadEffect
  <2>6. CASE MarkReuseDetected(r)
    <3>1. MarkReuseEffect(r, req[r].session)
      BY <2>6, MarkReuseDoes
    <3>. HIDE DEF RequestStates, SessionRows, NoReq
    <3>. QED BY <3>1 DEF MarkReuseEffect
  <2>7. CASE BumpTokenVersion(r) \/ UpdateAndBump(r)
    <3>1. BumpEffect(r)
      BY <2>7, BumpDoes
    <3>. HIDE DEF RequestStates, SessionRows, NoReq
    <3>. QED BY <3>1 DEF BumpEffect, VersionsFit
  <2>8. CASE GetTokenVersion(r) BY <2>8 DEF GetTokenVersion
  <2>9. CASE PublishVersion(r) BY <2>9 DEF PublishVersion
  <2>10. CASE ListActive(r) BY <2>10 DEF ListActive
  <2>11. CASE RevokeByUserID(r)
    <3>1. RevokeEffect(r)
      BY <2>11, RevokeDoes
    <3>. HIDE DEF RequestStates, SessionRows, NoReq
    <3>. QED BY <3>1 DEF RevokeEffect
  <2>12. CASE CacheRevoked(r) BY <2>12 DEF CacheRevoked
  <2>13. CASE SaveUser(r) BY <2>13 DEF SaveUser
  <2>14. CASE FillVersion(r)
    <3>1. FillVersionEffect(r)
      BY <2>14, FillVersionDoes
    <3>. HIDE DEF RequestStates, SessionRows, NoReq
    <3>. QED BY <3>1 DEF FillVersionEffect
  <2>15. CASE ReadStatus(r)
    <3>1. ReadStatusEffect(r, req[r].session)
      BY <2>15, ReadStatusDoes
    <3>. HIDE DEF RequestStates, SessionRows, NoReq
    <3>. QED BY <3>1 DEF ReadStatusEffect
  <2>16. CASE FillStatus(r) BY <2>16 DEF FillStatus
  <2>17. CASE Login(r) BY <2>17 DEF Login
  <2>18. CASE ChangePassword(r) BY <2>18 DEF ChangePassword
  <2>19. CASE UpdateSecurity(r) BY <2>19 DEF UpdateSecurity
  <2>20. CASE UpdateProfile(r) BY <2>20 DEF UpdateProfile
  <2>21. CASE DeleteUser(r) BY <2>21 DEF DeleteUser
  <2>22. ASSUME NEW s \in Sessions, Refresh(r, s) PROVE VersionsFit'
    BY <2>22 DEF Refresh
  <2>23. ASSUME NEW s \in Sessions, RefreshAgain(r, s) PROVE VersionsFit'
    BY <2>23 DEF RefreshAgain
  <2>24. ASSUME NEW s \in Sessions, Logout(r, s) PROVE VersionsFit'
    BY <2>24 DEF Logout
  <2>25. ASSUME NEW s \in Sessions, Validate(r, s) PROVE VersionsFit'
    <3>1. ValidateEffect(r, s)
      BY <2>25, ValidateDoes
    <3>. HIDE DEF RequestStates, SessionRows, NoReq
    <3>. QED BY <3>1 DEF ValidateEffect
  <2>26. CASE CutOff(r)
    <3>1. CutOffEffect(r, req[r].session)
      BY <2>26, CutOffDoes
    <3>. HIDE DEF RequestStates, SessionRows, NoReq
    <3>. QED BY <3>1 DEF CutOffEffect
  <2>. QED BY <1>1, <2>1, <2>2, <2>3, <2>4, <2>5, <2>6, <2>7, <2>8, <2>9,
              <2>10, <2>11, <2>12, <2>13, <2>14, <2>15, <2>16, <2>17, <2>18,
              <2>19, <2>20, <2>21, <2>22, <2>23, <2>24, <2>25, <2>26
              DEF Authenticate, Administer, Serve
<1>2. CASE Evict BY <1>2 DEF Evict
<1>3. CASE UNCHANGED vars BY <1>3 DEF vars
<1>. QED BY <1>1, <1>2, <1>3 DEF Next

\* A reuse that was noticed is not dropped before the version is raised.
LEMMA ReuseFitsKeeps ==
    TypeOK /\ WorkFits /\ FreshFits /\ VersionsFit /\ ReuseFits /\ [Next]_vars => ReuseFits'
<1>. SUFFICES ASSUME TypeOK, WorkFits, FreshFits, VersionsFit, ReuseFits,
            [Next]_vars PROVE ReuseFits'
  OBVIOUS
<1>. USE DEF dbVars, caches, history, Goto, Leave, Answer, Begin, NoReq,
            Written, Fault, RequestStates, SessionRows, AfterList, Known, Over,
            ReuseFits, Ended
<1>t. /\ user \in UserRows /\ sess \in [Sessions -> SessionRows]
      /\ req \in [Requests -> RequestStates]
  BY Types
<1>. USE <1>t
<1>n. /\ user.version \in Nat /\ user.version >= 1 /\ presented \subseteq Sessions
      /\ \A q \in Requests : req[q].version \in Nat
      /\ \A s \in Sessions : sess[s].version \in Nat
  BY DEF TypeOK, Versions
<1>. USE <1>n
<1>1. ASSUME NEW r \in Requests, Authenticate(r) \/ Administer(r) \/ Serve(r) \/ CutOff(r)
      PROVE  ReuseFits'
  <2>1. CASE CreateSession(r)
    <3>1. CreateEffect(r, req[r].fresh)
      BY <2>1, CreateDoes
    <3>. HIDE DEF RequestStates, SessionRows, NoReq
    <3>. QED BY <3>1 DEF CreateEffect
  <2>2. CASE MarkStatus(r) BY <2>2 DEF MarkStatus
  <2>3. CASE WarmVersion(r) BY <2>3 DEF WarmVersion
  <2>4. CASE Rotate(r)
    <3>1. RotateEffect(r, req[r].session, req[r].fresh)
      BY <2>4, RotateDoes
    <3>. HIDE DEF RequestStates, SessionRows, NoReq
    <3>. QED BY <3>1 DEF RotateEffect
  <2>5. CASE Reread(r)
    <3>1. RereadEffect(r, req[r].session)
      BY <2>5, RereadDoes
    <3>. HIDE DEF RequestStates, SessionRows, NoReq
    <3>. QED BY <3>1 DEF RereadEffect
  <2>6. CASE MarkReuseDetected(r)
    <3>1. MarkReuseEffect(r, req[r].session)
      BY <2>6, MarkReuseDoes
    <3>. HIDE DEF RequestStates, SessionRows, NoReq
    <3>. QED BY <3>1 DEF MarkReuseEffect
  <2>7. CASE BumpTokenVersion(r) \/ UpdateAndBump(r)
    <3>1. BumpEffect(r)
      BY <2>7, BumpDoes
    <3>. HIDE DEF RequestStates, SessionRows, NoReq
    <3>. QED BY <3>1 DEF BumpEffect, VersionsFit
  <2>8. CASE GetTokenVersion(r)
    <3>1. /\ UNCHANGED <<sess, history>>
          /\ \A q \in Requests : req[q].pc \in {"reuse", "bump"} => req'[q] = req[q]
      BY <2>8 DEF GetTokenVersion
    <3>2. UNCHANGED user
      BY <2>8 DEF GetTokenVersion
    <3>. HIDE DEF SessionRows, RequestStates, NoReq
    <3>. QED BY <3>1, <3>2
  <2>9. CASE PublishVersion(r) BY <2>9 DEF PublishVersion
  <2>10. CASE ListActive(r)
    <3>1. UNCHANGED <<dbVars, history>> /\ req[r].pc = "list"
      BY <2>10 DEF ListActive
    <3>2. \A q \in Requests \ {r} : req'[q] = req[q]
      BY <2>10 DEF ListActive
    <3>. HIDE DEF SessionRows, RequestStates, NoReq
    <3>. QED BY <3>1, <3>2
  <2>11. CASE RevokeByUserID(r)
    <3>1. RevokeEffect(r)
      BY <2>11, RevokeDoes
    <3>. HIDE DEF RequestStates, SessionRows, NoReq
    <3>. QED BY <3>1 DEF RevokeEffect
  <2>12. CASE CacheRevoked(r)
    <3>1. /\ UNCHANGED <<sess, history>>
          /\ \A q \in Requests : req[q].pc \in {"reuse", "bump"} => req'[q] = req[q]
      BY <2>12 DEF CacheRevoked
    <3>2. UNCHANGED user
      BY <2>12 DEF CacheRevoked
    <3>. HIDE DEF SessionRows, RequestStates, NoReq
    <3>. QED BY <3>1, <3>2
  <2>13. CASE SaveUser(r)
    <3>1. /\ UNCHANGED <<sess, presented>>
          /\ \A q \in Requests : req[q].pc \in {"reuse", "bump"} => req'[q] = req[q]
      BY <2>13 DEF SaveUser
    <3>2. \/ overwritten'
          \/ ~overwritten /\ user.live /\ user'.live /\ user'.version = user.version
      BY <2>13 DEF SaveUser
    <3>. HIDE DEF SessionRows, RequestStates, NoReq
    <3>. QED BY <3>1, <3>2
  <2>14. CASE FillVersion(r)
    <3>1. FillVersionEffect(r)
      BY <2>14, FillVersionDoes
    <3>. HIDE DEF RequestStates, SessionRows, NoReq
    <3>. QED BY <3>1 DEF FillVersionEffect
  <2>15. CASE ReadStatus(r)
    <3>1. ReadStatusEffect(r, req[r].session)
      BY <2>15, ReadStatusDoes
    <3>. HIDE DEF RequestStates, SessionRows, NoReq
    <3>. QED BY <3>1 DEF ReadStatusEffect
  <2>16. CASE FillStatus(r) BY <2>16 DEF FillStatus
  <2>17. CASE Login(r) BY <2>17 DEF Login
  <2>18. CASE ChangePassword(r) BY <2>18 DEF ChangePassword
  <2>19. CASE UpdateSecurity(r) BY <2>19 DEF UpdateSecurity
  <2>20. CASE UpdateProfile(r) BY <2>20 DEF UpdateProfile
  <2>21. CASE DeleteUser(r) BY <2>21 DEF DeleteUser
  <2>22. ASSUME NEW s \in Sessions, Refresh(r, s) PROVE ReuseFits'
    BY <2>22 DEF Refresh
  <2>23. ASSUME NEW s \in Sessions, RefreshAgain(r, s) PROVE ReuseFits'
    BY <2>23 DEF RefreshAgain
  <2>24. ASSUME NEW s \in Sessions, Logout(r, s) PROVE ReuseFits'
    BY <2>24 DEF Logout
  <2>25. ASSUME NEW s \in Sessions, Validate(r, s) PROVE ReuseFits'
    <3>1. ValidateEffect(r, s)
      BY <2>25, ValidateDoes
    <3>. HIDE DEF RequestStates, SessionRows, NoReq
    <3>. QED BY <3>1 DEF ValidateEffect
  <2>26. CASE CutOff(r)
    <3>1. CutOffEffect(r, req[r].session)
      BY <2>26, CutOffDoes
    <3>. HIDE DEF RequestStates, SessionRows, NoReq
    <3>. QED BY <3>1 DEF CutOffEffect
  <2>. QED BY <1>1, <2>1, <2>2, <2>3, <2>4, <2>5, <2>6, <2>7, <2>8, <2>9,
              <2>10, <2>11, <2>12, <2>13, <2>14, <2>15, <2>16, <2>17, <2>18,
              <2>19, <2>20, <2>21, <2>22, <2>23, <2>24, <2>25, <2>26
              DEF Authenticate, Administer, Serve
<1>2. CASE Evict BY <1>2 DEF Evict
<1>3. CASE UNCHANGED vars BY <1>3 DEF vars
<1>. QED BY <1>1, <1>2, <1>3 DEF Next

-----------------------------------------------------------------------------
(* Theorems.                                                               *)

\* The initial state satisfies IInv.
LEMMA InitFits == Init => IInv
<1>. SUFFICES ASSUME Init PROVE IInv
  OBVIOUS
<1>1. NoReq \in RequestStates /\ NoSession \in SessionRows
  BY NoReqTyped DEF NoSession, SessionRows, Versions
<1>2. TypeOK
  <2>1. sess \in [Sessions -> SessionRows] /\ req \in [Requests -> RequestStates]
    BY <1>1 DEF Init
  <2>3. RestOK
    <3>1. 0 \in 0 .. MaxVersion /\ 0 \in 0 .. MaxFaults
      OBVIOUS
    <3>. QED BY <3>1 DEF Init, RestOK, Cached
  <2>2. user \in UserRows
    BY DEF Init, UserRows, Versions
  <2>. QED BY <2>1, <2>2, <2>3 DEF TypeOK, RestOK, UserRows, SessionRows, RequestStates
<1>3. FreshFits /\ WorkFits
  BY DEF Init, FreshFits, WorkFits, NoReq
<1>4. TreeFits /\ CacheFits /\ ReuseFits
  BY DEF Init, TreeFits, CacheFits, ReuseFits, NoSession, Known
<1>5. VersionsFit
  BY DEF Init, VersionsFit, NoSession, NoReq
<1>. QED BY <1>2, <1>3, <1>4, <1>5 DEF IInv

\* IInv is inductive: each part is kept by its own lemma.
LEMMA StepKeepsIInv == IInv /\ [Next]_vars => IInv'
<1>. SUFFICES ASSUME IInv, [Next]_vars PROVE IInv'
  OBVIOUS
<1>. USE DEF IInv
<1>1. TypeOK'
  <2>1. /\ user' \in UserRows /\ sess' \in [Sessions -> SessionRows]
        /\ req' \in [Requests -> RequestStates] /\ RestOK'
    BY UserTyped, SessTyped, ReqTyped, RestTyped
  <2>. QED BY <2>1 DEF TypeOK, RestOK, UserRows, SessionRows, RequestStates
<1>2. FreshFits' BY FreshFitsKeeps
<1>3. WorkFits' BY WorkFitsKeeps
<1>4. TreeFits' BY TreeFitsKeeps
<1>5. VersionsFit' BY VersionsFitKeeps
<1>6. CacheFits' BY CacheFitsKeeps
<1>7. ReuseFits' BY ReuseFitsKeeps
<1>. QED BY <1>1, <1>2, <1>3, <1>4, <1>5, <1>6, <1>7

\* In every reachable state the variables have their types, and what a request
\* knows and how the rows and the cache hang together is as IInv says.
THEOREM Invariant == Spec => []IInv
<1>1. Init => IInv
  BY InitFits
<1>2. IInv /\ [Next]_vars => IInv'
  BY StepKeepsIInv
<1>. QED BY <1>1, <1>2, PTL DEF Spec

\* The variables have their types in every reachable state, whatever is half done.
THEOREM TypeCorrect == Spec => []TypeOK
BY Invariant, PTL DEF IInv

\* Rotate exchanges a refresh token once: the UPDATE that asks for an active
\* row lets one of any number of refreshes through.
THEOREM RefreshTokenRotatesOnce == Spec => []RotatedOnce
<1>1. IInv => RotatedOnce
  <2>. SUFFICES ASSUME IInv, NEW s \in Sessions
                PROVE  /\ Cardinality(Children(s)) <= 1
                       /\ \A d \in Children(s) :
                             sess[s].status # "active" /\ sess[d].version = sess[s].version
    BY DEF RotatedOnce
  <2>1. Cardinality(Children(s)) <= 1
    <3>1. CASE Children(s) = {}
      BY <3>1, FS_EmptySet
    <3>2. CASE Children(s) # {}
      <4>1. PICK d : d \in Children(s)
        BY <3>2
      <4>2. Children(s) = {d}
        BY <4>1 DEF IInv, TreeFits, Children
      <4>. QED BY <4>2, FS_Singleton
    <3>. QED BY <3>1, <3>2
  <2>2. \A d \in Children(s) :
           sess[s].status # "active" /\ sess[d].version = sess[s].version
    BY DEF IInv, TreeFits, Children, Over
  <2>. QED BY <2>1, <2>2
<1>. QED BY <1>1, Invariant, PTL

\* The caches of the version and of the sessions only lag behind the rows, for
\* every interleaving of requests, failures of Redis and evictions.
THEOREM CachesLag == Spec => []CachesOnlyLag
<1>1. IInv => CachesOnlyLag
  BY DEF IInv, VersionsFit, CacheFits, Over, CachesOnlyLag
<1>. QED BY <1>1, Invariant, PTL

\* Once the reuse of a refresh token has been dealt with, nothing of its family
\* can be refreshed, the sessions that a refresh in flight has added included;
\* dealt with means by a request that was not cut off before it had raised the
\* version.
THEOREM ReuseEnds == Spec => []ReuseEndsTheFamily
<1>1. IInv => ReuseEndsTheFamily
  <2>. SUFFICES ASSUME IInv, NEW s \in presented, ~overwritten, ~AtWork(s),
                       NEW d \in Sessions, sess[d].family = sess[s].family
                PROVE  ~Usable(d)
    BY DEF ReuseEndsTheFamily
  <2>1. s \in Sessions /\ sess[s].status = "revoked" /\ Ended(s)
    BY DEF IInv, ReuseFits, AtWork, Over
  <2>2. CASE sess[d].status = "none"
    BY <2>2 DEF Usable
  <2>3. CASE sess[d].status # "none"
    <3>1. sess[d].version = sess[s].version
      BY <2>1, <2>3 DEF IInv, TreeFits, Known
    <3>2. sess[d].version \in Nat /\ user.version \in Nat
      BY Types DEF IInv, SessionRows, UserRows, Versions
    <3>. QED BY <2>1, <3>1, <3>2 DEF Usable, Ended
  <2>. QED BY <2>2, <2>3
<1>. QED BY <1>1, Invariant, PTL
===============================================================================
