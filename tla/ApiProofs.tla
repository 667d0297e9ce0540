----------------------------- MODULE ApiProofs -----------------------------
(***************************************************************************)
(* Proofs about Access that rest on those about its components: what       *)
(* Sessions and Account promise, the API keeps; and what a temporary token *)
(* is good for.                                                            *)
(***************************************************************************)
EXTENDS AnswerProofs

SP == INSTANCE SessionsProofs WITH User <- {Owner}, pc <- spc, dirty <- sdirty
AP == INSTANCE AccountProofs WITH pc <- apc, dirty <- adirty

-----------------------------------------------------------------------------
(* The proofs are about the components as their own modules define them; each *)
(* action of Sessions and Account is the same here and there.               *)

LEMMA SessionsCount == ASSUME NEW X PROVE S!Cardinality(X) = SP!Cardinality(X)
BY DEF S!Cardinality, SP!Cardinality, S!IsFiniteSet, SP!IsFiniteSet

LEMMA AccountCount == ASSUME NEW X PROVE A!Cardinality(X) = AP!Cardinality(X)
BY DEF A!Cardinality, AP!Cardinality, A!IsFiniteSet, AP!IsFiniteSet

LEMMA SameSessions == S!Next => SP!Next
<1> USE DEF S!Goto, SP!Goto, S!Answer, SP!Answer, S!Arrive, SP!Arrive, S!InFlight,
     SP!InFlight, S!Working, SP!Working, S!LiveOf, SP!LiveOf, S!Live, SP!Live,
     S!Stored, SP!Stored, S!Subject, SP!Subject
<1>1. ASSUME NEW r, S!LockedOut(r) PROVE SP!LockedOut(r)
    BY <1>1 DEF S!LockedOut, SP!LockedOut
<1>2. ASSUME NEW r, S!Refresh(r) PROVE SP!Refresh(r)
    BY <1>2 DEF S!Refresh, SP!Refresh, S!ByAuthUser, SP!ByAuthUser
<1>3. ASSUME NEW r, S!FindCurrent(r) PROVE SP!FindCurrent(r)
    BY <1>3 DEF S!FindCurrent, SP!FindCurrent, S!OneOf, SP!OneOf, S!CurrentSessions,
     SP!CurrentSessions, S!ContextMatches, SP!ContextMatches
<1>4. ASSUME NEW r, S!CountSessions(r) PROVE SP!CountSessions(r)
    BY <1>4, SessionsCount DEF S!CountSessions, SP!CountSessions
<1>5. ASSUME NEW r, S!Limit(r) PROVE SP!Limit(r)
    BY <1>5 DEF S!Limit, SP!Limit
<1>6. ASSUME NEW r, S!Create(r) PROVE SP!Create(r)
    BY <1>6 DEF S!Create, SP!Create
<1>7. ASSUME NEW r, S!MarkRead(r) PROVE SP!MarkRead(r)
    BY <1>7 DEF S!MarkRead, SP!MarkRead, S!SaveRead, SP!SaveRead, S!Differs,
     SP!Differs, S!Column, SP!Column
<1>8. ASSUME NEW r, S!MarkWrite(r) PROVE SP!MarkWrite(r)
    BY <1>8 DEF S!MarkWrite, SP!MarkWrite, S!SaveWrite, SP!SaveWrite, S!Updated,
     SP!Updated
<1>9. ASSUME NEW r, S!TokenRead(r) PROVE SP!TokenRead(r)
    BY <1>9 DEF S!TokenRead, SP!TokenRead, S!SaveRead, SP!SaveRead, S!Differs,
     SP!Differs, S!Column, SP!Column, S!SetHashedToken, SP!SetHashedToken
<1>10. ASSUME NEW r, S!TokenWrite(r) PROVE SP!TokenWrite(r)
    BY <1>10 DEF S!TokenWrite, SP!TokenWrite, S!SaveWrite, SP!SaveWrite, S!Updated,
     SP!Updated
<1>11. ASSUME NEW r, S!Respond(r) PROVE SP!Respond(r)
    BY <1>11 DEF S!Respond, SP!Respond
<1>12. ASSUME NEW r, S!Delete(r) PROVE SP!Delete(r)
    BY <1>12 DEF S!Delete, SP!Delete, S!SoftDelete, SP!SoftDelete, S!SetDeleted,
     SP!SetDeleted
<1>13. ASSUME NEW r, S!RevokeRead(r) PROVE SP!RevokeRead(r)
    BY <1>13 DEF S!RevokeRead, SP!RevokeRead, S!SaveRead, SP!SaveRead, S!Differs,
     SP!Differs, S!Column, SP!Column, S!SetRevoked, SP!SetRevoked
<1>14. ASSUME NEW r, S!RevokeWrite(r) PROVE SP!RevokeWrite(r)
    BY <1>14 DEF S!RevokeWrite, SP!RevokeWrite, S!SaveWrite, SP!SaveWrite,
     S!Updated, SP!Updated
<1>15. ASSUME NEW r, NEW u, NEW c, S!Login(r, u, c) PROVE SP!Login(r, u, c)
    BY <1>15, SessionsCount DEF S!Login, SP!Login, S!OneOf, SP!OneOf,
     S!ContextMatches, SP!ContextMatches
<1>16. ASSUME NEW r, NEW t, NEW c, S!RefreshValid(r, t, c) PROVE SP!RefreshValid(r, t, c)
    BY <1>16, SessionsCount DEF S!RefreshValid, SP!RefreshValid, S!ByAuthUser,
     SP!ByAuthUser
<1>17. ASSUME NEW r, NEW t, S!RefreshInvalid(r, t) PROVE SP!RefreshInvalid(r, t)
    BY <1>17, SessionsCount DEF S!RefreshInvalid, SP!RefreshInvalid
<1>18. ASSUME NEW r, NEW t, S!Logout(r, t) PROVE SP!Logout(r, t)
    BY <1>18, SessionsCount DEF S!Logout, SP!Logout, S!ByAuthUser, SP!ByAuthUser
<1>19. ASSUME NEW r, NEW t, NEW ids, S!DeleteSessions(r, t, ids) PROVE SP!DeleteSessions(r, t, ids)
    BY <1>19, SessionsCount DEF S!DeleteSessions, SP!DeleteSessions, S!SoftDelete,
     SP!SoftDelete, S!SetDeleted, SP!SetDeleted
<1>20. ASSUME NEW r, NEW t, S!UpdateOrDeleteUser(r, t) PROVE SP!UpdateOrDeleteUser(r, t)
    BY <1>20, SessionsCount DEF S!UpdateOrDeleteUser, SP!UpdateOrDeleteUser,
     S!ByAuthUser, SP!ByAuthUser
<1>21. ASSUME NEW r, S!Fail(r) PROVE SP!Fail(r)
    BY <1>21 DEF S!Fail, SP!Fail
<1>22. QED
    BY <1>1, <1>2, <1>3, <1>4, <1>5, <1>6, <1>7, <1>8, <1>9, <1>10, <1>11, <1>12,
     <1>13, <1>14, <1>15, <1>16, <1>17, <1>18, <1>19, <1>20, <1>21 DEF S!Next,
     SP!Next, S!Request, SP!Request, S!Step, SP!Step, S!Context, SP!Context

LEMMA SameAccount == A!Next => AP!Next
<1> USE DEF A!Goto, AP!Goto, A!Keep, AP!Keep, A!Answer, AP!Answer, A!Nothing,
     AP!Nothing, A!NoStates, AP!NoStates, A!Save, AP!Save, A!IsActive, AP!IsActive,
     A!Stored, AP!Stored, A!ActiveOf, AP!ActiveOf
<1>1. ASSUME NEW r, A!Verified(r) PROVE AP!Verified(r)
    BY <1>1 DEF A!Verified, AP!Verified, A!HasState, AP!HasState
<1>2. ASSUME NEW r, A!Locked(r) PROVE AP!Locked(r)
    BY <1>2 DEF A!Locked, AP!Locked, A!HasState, AP!HasState
<1>3. ASSUME NEW r, A!Mismatch(r) PROVE AP!Mismatch(r)
    BY <1>3 DEF A!Mismatch, AP!Mismatch
<1>4. ASSUME NEW r, A!Record(r) PROVE AP!Record(r)
    BY <1>4 DEF A!Record, AP!Record
<1>5. ASSUME NEW r, A!Count(r) PROVE AP!Count(r)
    BY <1>5, AccountCount DEF A!Count, AP!Count, A!Recent, AP!Recent
<1>6. ASSUME NEW r, A!LockFind(r) PROVE AP!LockFind(r)
    BY <1>6 DEF A!LockFind, AP!LockFind, A!OneOf, AP!OneOf, A!SetLock, AP!SetLock,
     A!HasState, AP!HasState
<1>7. ASSUME NEW r, A!LockInsert(r) PROVE AP!LockInsert(r)
    BY <1>7 DEF A!LockInsert, AP!LockInsert, A!SetLock, AP!SetLock, A!HasState,
     AP!HasState
<1>8. ASSUME NEW r, A!ResolveFind(r) PROVE AP!ResolveFind(r)
    BY <1>8 DEF A!ResolveFind, AP!ResolveFind
<1>9. ASSUME NEW r, A!LimitInsert(r) PROVE AP!LimitInsert(r)
    BY <1>9 DEF A!LimitInsert, AP!LimitInsert
<1>10. ASSUME NEW r, A!TempUser(r) PROVE AP!TempUser(r)
    BY <1>10 DEF A!TempUser, AP!TempUser, A!HasState, AP!HasState, A!UserWithStates,
     AP!UserWithStates
<1>11. ASSUME NEW r, A!NothingDeleted(r) PROVE AP!NothingDeleted(r)
    BY <1>11 DEF A!NothingDeleted, AP!NothingDeleted
<1>12. ASSUME NEW r, A!Clear(r) PROVE AP!Clear(r)
    BY <1>12 DEF A!Clear, AP!Clear
<1>13. ASSUME NEW r, A!Delete(r) PROVE AP!Delete(r)
    BY <1>13 DEF A!Delete, AP!Delete
<1>14. ASSUME NEW r, A!SaveRead(r) PROVE AP!SaveRead(r)
    BY <1>14 DEF A!SaveRead, AP!SaveRead, A!UserDiffers, AP!UserDiffers,
     A!UserColumn, AP!UserColumn, A!StatesDiffer, AP!StatesDiffer, A!StateColumn,
     AP!StateColumn, A!Orphans, AP!Orphans
<1>15. ASSUME NEW r, A!SaveWrite(r) PROVE AP!SaveWrite(r)
    BY <1>15 DEF A!SaveWrite, AP!SaveWrite, A!UserColumn, AP!UserColumn, A!After,
     AP!After
<1>16. ASSUME NEW r, A!Reject(r) PROVE AP!Reject(r)
    BY <1>16 DEF A!Reject, AP!Reject
<1>17. ASSUME NEW r, A!Load(r) PROVE AP!Load(r)
    BY <1>17, AccountCount DEF A!Load, AP!Load, A!Arrive, AP!Arrive, A!InFlight,
     AP!InFlight, A!Working, AP!Working, A!UserWithStates, AP!UserWithStates
<1>18. ASSUME NEW r, A!DeleteSessions(r) PROVE AP!DeleteSessions(r)
    BY <1>18, AccountCount DEF A!DeleteSessions, AP!DeleteSessions, A!Arrive,
     AP!Arrive, A!InFlight, AP!InFlight, A!Working, AP!Working
<1>19. ASSUME NEW r, A!UpdateUser(r) PROVE AP!UpdateUser(r)
    BY <1>19, AccountCount DEF A!UpdateUser, AP!UpdateUser, A!Arrive, AP!Arrive,
     A!InFlight, AP!InFlight, A!Working, AP!Working
<1>20. ASSUME NEW r, A!DeleteUser(r) PROVE AP!DeleteUser(r)
    BY <1>20, AccountCount DEF A!DeleteUser, AP!DeleteUser, A!Arrive, AP!Arrive,
     A!InFlight, AP!InFlight, A!Working, AP!Working
<1>21. ASSUME NEW r, NEW t, A!DeleteWithTempToken(r, t) PROVE AP!DeleteWithTempToken(r, t)
    BY <1>21, AccountCount DEF A!DeleteWithTempToken, AP!DeleteWithTempToken,
     A!Arrive, AP!Arrive, A!InFlight, AP!InFlight, A!Working, AP!Working
<1>22. ASSUME NEW r, A!Fail(r) PROVE AP!Fail(r)
    BY <1>22 DEF A!Fail, AP!Fail, A!InFlight, AP!InFlight, A!Working, AP!Working
<1>23. ASSUME NEW d, A!Pass(d) PROVE AP!Pass(d)
    BY <1>23 DEF A!Pass, AP!Pass
<1>24. ASSUME NEW r, A!Age(r) PROVE AP!Age(r)
    BY <1>24 DEF A!Age, AP!Age
<1>25. QED
    BY <1>1, <1>2, <1>3, <1>4, <1>5, <1>6, <1>7, <1>8, <1>9, <1>10, <1>11, <1>12,
     <1>13, <1>14, <1>15, <1>16, <1>17, <1>18, <1>19, <1>20, <1>21, <1>22, <1>23,
     <1>24 DEF A!Next, AP!Next, A!Request, AP!Request, A!Step, AP!Step

LEMMA SessionsSafety == Spec => SP!Safety
<1>1. S!Init => SP!Init
  BY DEF S!Init, SP!Init
<1>2. [S!Next]_svars => [SP!Next]_(SP!vars)
  BY SameSessions DEF svars, SP!vars
<1>3. QED
  BY <1>1, <1>2, ImplementsComponents, PTL DEF SP!Safety

LEMMA AccountSafety == Spec => AP!Spec
<1>1. A!Init => AP!Init
  BY DEF A!Init, AP!Init, A!NoStates, AP!NoStates, A!Nothing, AP!Nothing
<1>2. [A!Next]_avars => [AP!Next]_(AP!vars)
  BY SameAccount DEF avars, AP!vars
<1>3. QED
  BY <1>1, <1>2, ImplementsComponents, PTL DEF AP!Spec

\* What Sessions and Account assume of their constants.
LEMMA SessionsAssumptions == SP!NoneAssumption /\ SP!BoundAssumption
BY NoneAssumption, BoundAssumption
   DEF SP!NoneAssumption, SP!BoundAssumption, S!Context, SP!Context, S!Row, SP!Row, S!Call,
       SP!Call, S!Kind, SP!Kind

LEMMA AccountAssumptions == AP!NoneAssumption /\ AP!BoundAssumption
BY NoneAssumption, BoundAssumption
   DEF AP!NoneAssumption, AP!BoundAssumption, A!StateRow, AP!StateRow, A!UserRow,
       AP!UserRow

-----------------------------------------------------------------------------
(* What the components promise, the API keeps.                              *)

\* Requests to the API, whatever else they do, exceed the limit on sessions by
\* less than their number, leave live sessions with a token that works, change no
\* session but their user's, and bring none back but one they loaded before.
THEOREM SessionsPromises ==
  Spec => []SP!SessionLimit /\ []SP!FreshToken /\ SP!OwnSessionsOnly /\ SP!LifecycleSafety
<1>1. SP!Safety => []SP!SessionLimit
  BY SP!SafeLimit, SessionsAssumptions
<1>2. SP!Safety => []SP!FreshToken
  BY SP!SafeTokens, SessionsAssumptions
<1>3. SP!Safety => SP!OwnSessionsOnly
  BY SP!SafeOwn, SessionsAssumptions
<1>4. SP!Safety => SP!LifecycleSafety
  BY SP!SafeLifecycle, SessionsAssumptions
<1>5. QED
  BY <1>1, <1>2, <1>3, <1>4, SessionsSafety, PTL

\* Nor do they lock the account without enough wrong passwords, or miss a lock
\* when there are enough; they hand out no more working temporary tokens than
\* there are logins at the same time; no login passes the lock before it expires;
\* and the deletion of the account is final.
THEOREM AccountPromises ==
  Spec => /\ []AP!LockNeedsFailures /\ []AP!FailuresLock /\ []AP!TempTokensBounded
          /\ AP!LockKeepsOut /\ AP!DeletionSettles
<1>1. AP!Spec => []AP!LockNeedsFailures
  BY AP!NeedsFailures, AccountAssumptions
<1>2. AP!Spec => []AP!FailuresLock
  BY AP!FailuresAlwaysLock, AccountAssumptions
<1>3. AP!Spec => []AP!TempTokensBounded
  BY AP!TokensBounded, AccountAssumptions
<1>4. AP!Spec => AP!LockKeepsOut
  BY AP!LockedStaysOut, AccountAssumptions
<1>5. AP!Spec => AP!DeletionSettles
  BY AP!DeletionFinal, AccountAssumptions
<1>6. QED
  BY <1>1, <1>2, <1>3, <1>4, <1>5, AccountSafety, PTL

\* Every request, answer and row is one of those the API knows.
THEOREM TypesCorrect == Spec => []TypeOK
<1>1. SP!Safety => []SP!Shape
  BY SP!SafeShape, SessionsAssumptions
<1>2. AP!Spec => []AP!TypeOK
  BY AP!TypeCorrect, AccountAssumptions
<1>3. SP!Shape /\ AP!TypeOK /\ ApiInv => TypeOK
  <2>1. SP!Shape => S!TypeOK
    BY DEF SP!Shape, SP!TypeOK, S!TypeOK, SP!Row, S!Row, SP!Call, S!Call, SP!Context,
       S!Context, SP!Kind, S!Kind, SP!Phase, S!Phase, SP!Working, S!Working,
       SP!Answered, S!Answered, SP!Column, S!Column
  <2>2. AP!TypeOK => A!TypeOK
    BY DEF AP!TypeOK, A!TypeOK, AP!UserRow, A!UserRow, AP!StateRow, A!StateRow, AP!Phase,
       A!Phase, AP!Working, A!Working, AP!Answered, A!Answered, AP!Column, A!Column,
       AP!UserColumn, A!UserColumn, AP!StateColumn, A!StateColumn, AP!AuditLog,
       A!AuditLog, AP!Goal, A!Goal, AP!Memory, A!Memory
  <2>3. QED
    BY <2>1, <2>2 DEF ApiInv, ApiShape, TypeOK
<1>4. QED
  BY <1>1, <1>2, <1>3, InitApi, NextApi, SessionsSafety, AccountSafety, PTL DEF Spec

-----------------------------------------------------------------------------
(* What the answers say of the account. *)

\* r deletes sessions.
Deleting(r) == apc[r] \in {"tempUser", "clear"} \/ goal[r] = "clear"

\* A temporary token is handed out by both components at once, and by no request
\* answered before.
Limits(r) ==
    /\ spc[r] = "limited" <=> apc[r] = "limited"
    /\ reply[r] = "SESSION_LIMIT_REACHED" => apc[r] = "limited"
    /\ Over(r) => reply[r] = None

\* The requests that delete sessions are those that were asked to.
Deletes(r) ==
    /\ Deleting(r) => reply[r] = None /\ IsDeletionEndpoint(request[r].endpoint)
    /\ IsDeletion(r) => /\ Deleting(r) /\ spc[r] \in {"idle", "ended"}
                        /\ spc[r] = "ended" => apc[r] # "tempUser"
    /\ r \in InFlight /\ request[r].reported => IsDeletion(r) /\ spc[r] = "ended"

LEMMA InFlightLinks ==
  ASSUME ApiInv, GoalShape, NEW r \in Req, LinksOf(r), Limits(r), Deletes(r),
         r \in InFlight, Step(r) \/ Fail(r)
  PROVE  Limits(r)' /\ Deletes(r)'
<1> USE NoneAssumption DEF Saving
<1> DEFINE e == request[r].endpoint
           Goal == Limits(r)' /\ Deletes(r)'
           BothLimited == spc'[r] = "limited" <=> apc'[r] = "limited"
<1>1. request[r] \in Received /\ request[r] # None /\ reply[r] = None
  BY DEF InFlight, ApiInv, ApiShape
<1>2. Acts(r) /\ Moves(r)
  BY InFlightActs, StepComponents, AccountMoves DEF ApiInv
<1>3. /\ apc[r] \in Saving <=> goal[r] # "none"
      /\ apc'[r] \in Saving <=> goal'[r] # "none"
  BY <1>2 DEF Moves, GoalShape
<1>4. /\ \A phase : S!Goto(r, phase) => spc'[r] = phase
      /\ \A phase : A!Goto(r, phase) => apc'[r] = phase
      /\ \A g : goal' = [goal EXCEPT ![r] = g] => goal'[r] = g
  BY DEF S!Goto, A!Goto, GoalShape, ApiInv, SessionsShape, AccountShape
<1>5. /\ IsDeletion(r) <=> IsDeletionEndpoint(e)
      /\ Deleting(r) <=> IsDeletion(r)
      /\ spc[r] = "limited" <=> apc[r] = "limited"
  BY DEF IsDeletion, Deletes, Limits
\* It goes on.
<1>6. ASSUME Waits, BothLimited, Deleting(r)' <=> Deleting(r),
             Deleting(r) => spc'[r] = spc[r] /\ (apc'[r] = "tempUser" => apc[r] = "tempUser")
      PROVE  Goal
  <2>1. request' = request /\ reply' = reply
    BY <1>6 DEF Waits
  <2>2. Limits(r)'
    BY <1>1, <1>6, <2>1 DEF Limits, Code, Success
  <2>3. InFlight' = InFlight
    BY <2>1 DEF InFlight
  <2>4. IsDeletion(r)' <=> IsDeletion(r)
    BY <2>1, <2>3 DEF IsDeletion
  <2>5. QED
    BY <1>1, <1>5, <1>6, <2>1, <2>2, <2>3, <2>4 DEF Deletes
\* It answers.
<1>7. ASSUME NEW c \in Code, Reply(r, e, c), BothLimited,
             c = "SESSION_LIMIT_REACHED" => apc'[r] = "limited", ~Deleting(r)'
      PROVE  Goal
  <2>1. reply'[r] = c /\ c # None
    BY <1>7 DEF Reply, ApiInv, ApiShape
  <2>2. Over(r)' => reply'[r] = None
    BY <1>2 DEF Acts
  <2>3. r \notin InFlight'
    BY <2>1 DEF InFlight
  <2>4. QED
    BY <1>7, <2>1, <2>2, <2>3 DEF Limits, Deletes, IsDeletion
<1>8. /\ "SESSION_NOT_FOUND" \in Code /\ "INVALID_CREDENTIALS" \in Code
      /\ "RESOURCE_NOT_FOUND" \in Code /\ "failed" \in Code
      /\ "RESOURCE_ALREADY_EXISTS" \in Code
      /\ Deleted(r) \in Code /\ Deleted(r) # "SESSION_LIMIT_REACHED"
  BY DEF Code, Error, Success, Deleted
<1>9. ASSUME NEW c \in S!Context, Authenticated(r, c) PROVE Goal
  <2>1. /\ Waits /\ spc'[r] = "find" /\ apc[r] = "verify" /\ apc'[r] = "verify"
    BY <1>4, <1>9 DEF Authenticated, S!Login, avars
  <2>2. QED
    BY <1>3, <1>6, <2>1 DEF Deleting
<1>10. CASE Rejected(r)
  <2>1. /\ spc[r] = "idle" /\ spc'[r] = "idle" /\ apc[r] = "verify"
        /\ apc'[r] \in {"refused", "record"}
        /\ Goes(apc'[r], A!Working, r, "INVALID_CREDENTIALS")
    BY <1>4, <1>10 DEF Rejected, A!Mismatch, A!Locked, A!Answer, svars
  <2>2. QED
    BY <1>3, <1>6, <1>7, <1>8, <2>1 DEF Deleting, Goes
<1>11. CASE RefreshLocked(r)
  <2>1. /\ spc'[r] = "ended" /\ apc'[r] = "refused" /\ Reply(r, e, "INVALID_CREDENTIALS")
    BY <1>4, <1>11 DEF RefreshLocked, Is, S!LockedOut, S!Answer, A!Locked, A!Answer
  <2>2. QED
    BY <1>3, <1>7, <1>8, <2>1 DEF Deleting
<1>12. CASE RefreshChecked(r)
  <2>1. /\ apc[r] = "verify" /\ apc'[r] \in {"verify", "done"}
        /\ spc'[r] \in {"ended", "revokeRead", "find"}
        /\ Goes(spc'[r], S!Working, r, "SESSION_NOT_FOUND")
    BY <1>4, <1>12 DEF RefreshChecked, S!Refresh, S!Answer, A!Verified, avars, ApiInv,
       Linked, OnItsWay
  <2>2. QED
    BY <1>3, <1>6, <1>7, <1>8, <2>1 DEF Deleting, Goes
<1>13. CASE OverLimit(r)
  <2>1. /\ spc'[r] = "limiting" /\ Waits /\ apc[r] = "verify" /\ apc'[r] = "resolveFind"
    BY <1>13 DEF OverLimit, A!Verified, svars
  <2>2. QED
    BY <1>3, <1>6, <2>1 DEF Deleting
<1>14. CASE Granted(r)
  <2>1. /\ spc'[r] = "granted" /\ apc'[r] = "granted"
        /\ \E c \in {"AUTHENTICATED", "TOKENS_REFRESHED"} : Reply(r, e, c)
    BY <1>4, <1>14 DEF Granted, S!Respond, S!Answer
  <2>2. QED
    BY <1>3, <1>7, <2>1 DEF Deleting, Code, Success
<1>15. CASE TempUser(r)
  <2>1. /\ apc[r] = "tempUser" /\ apc'[r] \in {"refused", "clear"} /\ spc'[r] = spc[r]
        /\ Goes(apc'[r], A!Working, r, IF user.deleted THEN "RESOURCE_NOT_FOUND"
                                                       ELSE "INVALID_CREDENTIALS")
    BY <1>4, <1>15 DEF TempUser, A!TempUser, A!Answer, svars
  <2>2. CASE apc'[r] = "refused"
    BY <1>3, <1>5, <1>7, <1>8, <2>1, <2>2 DEF Deleting, Goes, A!Working
  <2>3. CASE apc'[r] = "clear"
    BY <1>5, <1>6, <2>1, <2>3 DEF Deleting, Goes, A!Working
  <2>4. QED
    BY <2>1, <2>2, <2>3
<1>16. CASE DeleteRows(r) \/ Report(r)
  <2>1. /\ UNCHANGED <<avars, reply>> /\ IsDeletion(r) /\ spc'[r] = "ended"
        /\ apc[r] # "tempUser"
    BY <1>4, <1>16 DEF DeleteRows, Report, S!DeleteSessions, IsDeletion,
       IsDeletionEndpoint, Is, svars, Deletes
  <2>2. /\ request'[r] # None /\ request'[r].endpoint = e
    BY <1>1, <1>2, <1>16, StepTalk, TalkAsks DEF Asks, ApiInv, AccountShape
  <2>3. r \in InFlight' /\ IsDeletion(r)'
    BY <1>1, <1>5, <2>1, <2>2 DEF InFlight, IsDeletion
  <2>4. /\ apc' = apc /\ goal' = goal /\ reply' = reply
    BY <2>1 DEF avars
  <2>5. Limits(r)' /\ Deletes(r)'
    <3>1. apc[r] # "limited"
      BY <1>3, <1>5, <2>1 DEF Deleting
    <3>2. Limits(r)'
      BY <1>1, <2>1, <2>4, <3>1 DEF Limits, Code, Success
    <3>3. QED
      BY <1>1, <1>5, <2>1, <2>2, <2>3, <2>4, <3>2 DEF Deletes, Deleting
  <2>6. QED
    BY <2>5
<1>17. CASE Cleared(r)
  <2>1. /\ apc[r] = "clear" /\ spc'[r] = spc[r]
        /\ \/ apc'[r] = "done"
           \/ apc'[r] = "saveRead" /\ goal'[r] = "clear"
        /\ Goes(apc'[r], A!Working, r, Deleted(r))
    BY <1>4, <1>17 DEF Cleared, A!NothingDeleted, A!Clear, A!Answer, A!Save, svars
  <2>2. QED
    BY <1>3, <1>5, <1>6, <1>7, <1>8, <2>1 DEF Deleting, Goes, A!Working
<1>18. CASE FindSessionToRevoke(r)
  <2>1. ~Deleting(r)
    BY <1>5, <1>18 DEF FindSessionToRevoke, Is, IsDeletionEndpoint
  <2>2. /\ spc[r] = "idle" /\ spc'[r] \in {"ended", "revokeRead"}
        /\ Goes(spc'[r], S!Working, r, "SESSION_NOT_FOUND")
        /\ \/ UNCHANGED avars
           \/ apc'[r] = "refused"
    BY <1>4, <1>18 DEF FindSessionToRevoke, S!UpdateOrDeleteUser
  <2>3. ~Deleting(r)' /\ BothLimited
    BY <1>3, <1>5, <2>1, <2>2 DEF Deleting, avars
  <2>4. QED
    BY <1>6, <1>7, <1>8, <2>1, <2>2, <2>3 DEF Goes
<1>19. CASE DeleteUser(r)
  <2>1. /\ Waits /\ spc'[r] = "revokeRead" /\ apc[r] = "delete" /\ apc'[r] = "done"
    BY <1>19 DEF DeleteUser, A!Delete, svars
  <2>2. QED
    BY <1>3, <1>6, <2>1 DEF Deleting
<1>20. CASE SessionStep(r)
  <2>1. /\ spc[r] \notin {"idle", "ended", "limited"} /\ spc'[r] # "limited"
        /\ UNCHANGED avars
    BY <1>4, <1>20 DEF SessionStep, S!FindCurrent, S!CountSessions, S!Create, S!MarkRead,
       S!MarkWrite, S!TokenRead, S!TokenWrite, S!Delete, S!RevokeRead, S!RevokeWrite,
       S!Answer
  <2>2. ~Deleting(r) /\ ~Deleting(r)' /\ BothLimited
    BY <1>5, <2>1 DEF Deletes, Deleting, avars
  <2>3. PICK c \in Code \ {"SESSION_LIMIT_REACHED"} : Goes(spc'[r], S!Working, r, c)
    BY <1>20 DEF SessionStep, Code, Success, Error
  <2>4. QED
    BY <1>6, <1>7, <2>2, <2>3 DEF Goes
<1>21. CASE AccountStep(r)
  <2>1. apc[r] \in {"record", "count", "lockFind", "lockInsert", "resolveFind",
                    "limitInsert", "saveRead", "saveWrite", "reject"}
    BY <1>21 DEF AccountStep, A!Record, A!Count, A!LockFind, A!LockInsert,
       A!ResolveFind, A!LimitInsert, A!SaveRead, A!SaveWrite, A!Reject
  <2>2. /\ apc'[r] \in A!Working \cup {"limited", "refused", "done", "rejected"}
        /\ apc'[r] \notin {"tempUser", "clear"}
        /\ apc'[r] \in A!Working => (goal'[r] = "clear" <=> goal[r] = "clear")
        /\ apc'[r] \notin A!Working => goal'[r] = "none"
    BY <1>3, <1>4, <1>21 DEF AccountStep, A!Record, A!Count, A!LockFind, A!LockInsert,
       A!SetLock, A!ResolveFind, A!LimitInsert, A!SaveRead, A!SaveWrite, A!After,
       A!Reject, A!Save, A!Answer, A!Working
  <2>3. BothLimited
    <3>1. spc[r] # "limited"
      BY <1>5, <2>1
    <3>2. CASE apc'[r] = "limited"
      BY <1>4, <1>21, <3>2 DEF AccountStep, S!Limit, S!Answer
    <3>3. CASE apc'[r] # "limited"
      BY <1>4, <1>21, <3>1, <3>3 DEF AccountStep, S!Fail, S!Answer, svars
    <3>4. QED
      BY <3>2, <3>3
  <2>4. CASE apc'[r] \in A!Working
    <3>1. Waits /\ UNCHANGED svars
      BY <1>21, <2>4 DEF AccountStep, A!Working
    <3>2. QED
      BY <1>6, <2>1, <2>2, <2>3, <2>4, <3>1 DEF Deleting, svars
  <2>5. CASE apc'[r] \notin A!Working
    <3>1. ~Deleting(r)'
      BY <2>2, <2>5 DEF Deleting
    <3>2. CASE Is(r, "updateUser") /\ apc'[r] = "done"
      <4>1. Waits
        BY <1>21, <3>2 DEF AccountStep
      <4>2. ~Deleting(r)
        BY <1>5, <3>2 DEF Is, IsDeletionEndpoint
      <4>3. QED
        BY <1>6, <2>3, <3>1, <4>1, <4>2
    <3>3. CASE ~(Is(r, "updateUser") /\ apc'[r] = "done")
      <4>1. Reply(r, e, AccountCode(r, apc'[r]))
        BY <1>21, <2>5, <3>3 DEF AccountStep
      <4>2. apc'[r] \in {"limited", "refused", "done", "rejected"}
        BY <2>2, <2>5
      <4>3. /\ AccountCode(r, apc'[r]) \in Code
            /\ AccountCode(r, apc'[r]) = "SESSION_LIMIT_REACHED" => apc'[r] = "limited"
        BY <1>8, <4>2 DEF AccountCode, Code, Success, Error
      <4>4. QED
        BY <1>7, <2>3, <3>1, <4>1, <4>3
    <3>4. QED
      BY <3>2, <3>3
  <2>6. QED
    BY <2>4, <2>5
<1>22. CASE Fail(r)
  <2>1. /\ apc'[r] = "failed" \/ (apc'[r] = apc[r] /\ apc[r] \notin A!Working)
        /\ goal'[r] = "none"
    BY <1>3, <1>4, <1>22 DEF Fail, A!Fail, A!Answer, A!InFlight, A!Working, avars
  <2>2. spc'[r] = "failed" \/ spc'[r] = spc[r]
    BY <1>4, <1>22 DEF Fail, S!Fail, S!Answer, svars
  <2>3. PICK c \in Code \ {"SESSION_LIMIT_REACHED"} : Reply(r, e, c)
    BY <1>8, <1>22 DEF Fail, When
  <2>4. ~Deleting(r)'
    BY <2>1 DEF Deleting, A!Working
  <2>5. CASE spc[r] = "limited"
    BY <1>5, <1>7, <1>22, <2>1, <2>3, <2>4, <2>5 DEF Fail, S!InFlight, S!Working, svars,
       A!InFlight, A!Working, avars
  <2>6. CASE spc[r] # "limited"
    BY <1>5, <1>7, <2>1, <2>2, <2>3, <2>4, <2>6
  <2>7. QED
    BY <2>5, <2>6
<1>23. QED
  BY <1>9, <1>10, <1>11, <1>12, <1>13, <1>14, <1>15, <1>16, <1>17, <1>18, <1>19, <1>20,
     <1>21, <1>22 DEF Step

\* A request that comes in deletes sessions if it was asked to, and presents a
\* token that was handed out.
LEMMA RequestLinks ==
  ASSUME ApiInv, GoalShape, NEW r \in Req, LinksOf(r), Request(r)
  PROVE  /\ Limits(r)' /\ Deletes(r)'
         /\ goal'[r] # "clear" /\ ~request'[r].reported
         /\ request'[r].token # None =>
              request'[r].token \in Req /\ spc[request'[r].token] \in {"granted", "limited"}
<1> USE NoneAssumption DEF Saving
<1> DEFINE Goal == /\ Limits(r)' /\ Deletes(r)'
                   /\ goal'[r] # "clear" /\ ~request'[r].reported
                   /\ request'[r].token # None =>
                        /\ request'[r].token \in Req
                        /\ spc[request'[r].token] \in {"granted", "limited"}
<1>1. spc[r] = "idle" /\ apc[r] = "idle" /\ reply[r] = None /\ goal[r] = "none"
  <2>1. request[r] = None
    BY RequestEnters DEF Enters
  <2>2. QED
    BY <2>1 DEF LinksOf, GoalShape
<1>2. Enters(r) /\ Moves(r)
  BY RequestEnters, StepComponents, AccountMoves DEF ApiInv
<1>3. apc'[r] \in Saving <=> goal'[r] # "none"
  BY <1>2 DEF Moves, GoalShape
<1>4. /\ \A phase : S!Goto(r, phase) => spc'[r] = phase
      /\ \A phase : A!Goto(r, phase) => apc'[r] = phase
      /\ \A g : goal' = [goal EXCEPT ![r] = g] => goal'[r] = g
  BY DEF S!Goto, A!Goto, GoalShape, ApiInv, SessionsShape, AccountShape
\* It is received.
<1>5. ASSUME NEW e \in Endpoint, NEW t \in Req \cup {None}, Receive(r, e, t),
             t # None => spc[t] \in {"granted", "limited"},
             spc'[r] # "limited", apc'[r] # "limited", goal'[r] # "clear",
             apc'[r] \in {"tempUser", "clear"} <=> IsDeletionEndpoint(e),
             IsDeletionEndpoint(e) => spc'[r] = "idle"
      PROVE  Goal
  <2> DEFINE new == [endpoint |-> e, token |-> t, rows |-> {}, reported |-> FALSE]
  <2>1. new \in Received /\ new.endpoint = e /\ new.token = t /\ ~new.reported
    BY DEF Received
  <2>2. request'[r] = new /\ reply'[r] = None
    BY <1>1, <1>5 DEF Receive, ApiInv, ApiShape
  <2> HIDE DEF new
  <2>3. r \in InFlight'
    BY <2>1, <2>2 DEF InFlight
  <2>4. ~Over(r)'
    BY <1>2 DEF Enters
  <2>5. Limits(r)'
    BY <1>5, <2>2, <2>4 DEF Limits, Code, Success
  <2>6. Deletes(r)'
    BY <1>5, <2>1, <2>2, <2>3 DEF Deletes, Deleting, IsDeletion
  <2>7. QED
    BY <1>5, <2>1, <2>2, <2>5, <2>6
<1> USE DEF Endpoint, SessionsEndpoint, AccessEndpoint, IsDeletionEndpoint
<1>6. CASE PostLogin(r)
  <2>1. Receive(r, "login", None) /\ spc'[r] = "idle" /\ apc'[r] = "verify"
    BY <1>1, <1>4, <1>6 DEF PostLogin, A!Load, svars
  <2>2. QED
    BY <1>3, <1>5, <2>1
<1>7. ASSUME NEW t \in Req, NEW c \in S!Context, PostRefresh(r, t, c) PROVE Goal
  <2>1. /\ Receive(r, "refresh", t) /\ spc'[r] = "refresh" /\ apc'[r] = "verify"
        /\ spc[t] = "granted"
    BY <1>4, <1>7 DEF PostRefresh, A!Load, S!RefreshValid
  <2>2. QED
    BY <1>3, <1>5, <2>1
<1>8. ASSUME NEW t \in Req, PostLogout(r, t) PROVE Goal
  <2>1. /\ spc'[r] \in {"ended", "delete"} /\ apc'[r] = "idle" /\ spc[t] = "granted"
        /\ goal'[r] = "none"
    BY <1>1, <1>4, <1>8 DEF PostLogout, S!Logout, avars
  <2>2. CASE Receive(r, "logout", t)
    BY <1>5, <2>1, <2>2
  <2>3. CASE Reply(r, "logout", "SESSION_NOT_FOUND")
    <3> DEFINE new == [endpoint |-> "logout", token |-> None, rows |-> {},
                       reported |-> FALSE]
    <3>1. new \in Received /\ new.token = None /\ ~new.reported
      BY DEF Received
    <3>2. request'[r] = new /\ reply'[r] = "SESSION_NOT_FOUND" /\ reply'[r] # None
      BY <2>3 DEF Reply, ApiInv, ApiShape, Code, Error
    <3>3. r \notin InFlight'
      BY <3>2 DEF InFlight
    <3>4. ~Over(r)'
      BY <1>2 DEF Enters
    <3> HIDE DEF new
    <3>5. QED
      BY <2>1, <3>1, <3>2, <3>3, <3>4 DEF Limits, Deletes, Deleting, IsDeletion
  <2>4. QED
    BY <1>8, <2>2, <2>3 DEF PostLogout
<1>9. ASSUME NEW t \in Req, PatchUser(r, t) PROVE Goal
  <2>1. /\ Receive(r, "updateUser", t) /\ spc'[r] = "idle" /\ apc'[r] = "saveRead"
        /\ goal'[r] = "update" /\ spc[t] = "granted"
    BY <1>1, <1>4, <1>9 DEF PatchUser, HasAccess, A!UpdateUser, A!Save, svars
  <2>2. QED
    BY <1>5, <2>1
<1>10. ASSUME NEW t \in Req, PostDeleteUser(r, t) PROVE Goal
  <2>1. /\ Receive(r, "deleteUser", t) /\ spc'[r] = "idle" /\ apc'[r] = "delete"
        /\ spc[t] = "granted"
    BY <1>1, <1>4, <1>10 DEF PostDeleteUser, HasAccess, A!DeleteUser, svars
  <2>2. QED
    BY <1>3, <1>5, <2>1
<1>11. ASSUME NEW t \in Req, NEW e \in {"deleteSession", "deleteSessions"},
              PostDeletion(r, e, t) \/ PostDeletionWithTempToken(r, e, t)
       PROVE  Goal
  <2>1. /\ Receive(r, e, t) /\ spc'[r] = "idle" /\ apc'[r] \in {"tempUser", "clear"}
        /\ spc[t] \in {"granted", "limited"}
    BY <1>1, <1>4, <1>11 DEF PostDeletion, PostDeletionWithTempToken, HasAccess,
       A!DeleteSessions, A!DeleteWithTempToken, svars
  <2>2. QED
    BY <1>3, <1>5, <2>1
<1>12. QED
  BY <1>6, <1>7, <1>8, <1>9, <1>10, <1>11 DEF Request

\* The token a request in flight presented was handed out; if it is temporary,
\* the deletion of sessions spends it, as long as there are no locks.
TokenOf(r) ==
    \A t \in Req : r \in InFlight /\ request[r].token = t =>
        /\ spc[t] \in {"granted", "limited"}
        /\ spc[t] = "limited" => AP!SomeLock \/ AP!Spends(r, t)

\* What a step does with the token of r, its own request.
LEMMA OwnToken ==
  ASSUME ApiInv, GoalShape, NEW r \in Req, r \in InFlight,
         Step(r) \/ Fail(r) \/ Time(r), r \in InFlight'
  PROVE  request'[r].token = request[r].token
<1> USE NoneAssumption
<1>1. request[r] \in Received /\ reply[r] = None /\ request[r] # None
  BY DEF InFlight, ApiInv, ApiShape
<1>2. Talk(r)
  BY StepTalk DEF ApiInv, AccountShape
<1>3. CASE Waits
  BY <1>3 DEF Waits
<1>4. CASE \E e, t : Receive(r, e, t)
  BY <1>1, <1>4 DEF Receive, Arrive
<1>5. ASSUME NEW e, NEW c \in Code, Reply(r, e, c) PROVE FALSE
  <2>1. reply'[r] = c /\ c # None
    BY <1>5 DEF Reply, ApiInv, ApiShape
  <2>2. QED
    BY <2>1 DEF InFlight
<1>6. ASSUME NEW ids \in SUBSET Req, NEW b \in BOOLEAN,
             request' = [request EXCEPT ![r].rows = ids, ![r].reported = b]
      PROVE  request'[r].token = request[r].token
  BY <1>1, <1>6 DEF ApiInv, ApiShape, Received
<1>7. QED
  BY <1>2, <1>3, <1>4, <1>5, <1>6 DEF Talk

\* Answers are final.
LEMMA Handed ==
  ASSUME ApiInv, NEW r \in Req, Request(r) \/ Step(r) \/ Fail(r) \/ Time(r),
         spc[r] \in {"granted", "limited"}
  PROVE  spc'[r] = spc[r]
<1>1. SessionsPart(r)
  BY StepComponents DEF ApiInv
<1>2. QED
  BY <1>1 DEF SessionsPart, svars, S!Request, S!Login, S!RefreshValid, S!RefreshInvalid,
     S!Logout, S!DeleteSessions, S!UpdateOrDeleteUser, S!Arrive, S!Step, S!LockedOut,
     S!Refresh, S!FindCurrent, S!CountSessions, S!Limit, S!Create, S!MarkRead,
     S!MarkWrite, S!TokenRead, S!TokenWrite, S!Respond, S!Delete, S!RevokeRead,
     S!RevokeWrite, S!Fail, S!InFlight, S!Working

\* A step fails a request only if it says so, or the account was to be updated,
\* or sessions have been deleted.
LEMMA FailsSaid ==
  ASSUME ApiInv, NEW r \in Req, Request(r) \/ Step(r) \/ Fail(r) \/ Time(r),
         apc'[r] = "failed", apc[r] # "failed"
  PROVE  \/ goal[r] = "update" \/ reply'[r] = "failed"
         \/ r \in InFlight /\ request[r].reported
<1>1. \A phase : A!Goto(r, phase) => apc'[r] = phase
  BY DEF A!Goto, ApiInv, AccountShape
<1>2. CASE Fail(r)
  BY <1>2 DEF Fail, When, Reply, ApiInv, ApiShape
<1>3. CASE Request(r) \/ Step(r) \/ Time(r)
  <2>1. A!Request(r) => apc'[r] # "failed"
    BY <1>1 DEF A!Request, A!Load, A!DeleteSessions, A!UpdateUser, A!DeleteUser,
       A!DeleteWithTempToken, A!Save
  <2>2. A!Step(r) => apc'[r] # "failed"
    BY <1>1 DEF A!Step, A!Verified, A!Locked, A!Mismatch, A!Record, A!Count,
       A!LockFind, A!LockInsert, A!SetLock, A!ResolveFind, A!LimitInsert, A!TempUser,
       A!NothingDeleted, A!Clear, A!Delete, A!SaveRead, A!SaveWrite, A!After,
       A!Reject, A!Save, A!Answer
  <2>3. A!Request(r) \/ A!Step(r) \/ UNCHANGED apc
    <3>1. CASE Request(r)
      BY <3>1 DEF Request, PostLogin, PostLogout, PatchUser, PostDeleteUser, PostRefresh,
         PostDeletion, PostDeletionWithTempToken, A!Request, avars
    <3>2. CASE Step(r)
      BY <3>2 DEF Step, Authenticated, Rejected, RefreshLocked, RefreshChecked, OverLimit,
         Granted, TempUser, DeleteRows, Report, Cleared, FindSessionToRevoke, DeleteUser,
         SessionStep, AccountStep, A!Step, avars
    <3>3. CASE Time(r)
      BY <3>3 DEF Time, A!Pass, A!Age
    <3>4. QED
      BY <1>3, <3>1, <3>2, <3>3
  <2>4. QED
    BY <2>1, <2>2, <2>3
<1>4. QED
  BY <1>2, <1>3

-----------------------------------------------------------------------------
(* The invariant. *)

\* Inductive, together with ApiInv and AnswerInv.
TokenInv ==
    /\ AP!Shape /\ AP!TokenShape /\ AP!SignShape
    /\ \A r \in Req : Limits(r) /\ Deletes(r) /\ TokenOf(r)

\* What a step of the API is for the proofs of Account.
LEMMA AccountFacts ==
  ASSUME ApiInv, TokenInv, [Next]_vars
  PROVE  /\ [AP!Next]_(AP!vars)
         /\ AP!Shape' /\ AP!TokenShape' /\ AP!SignShape'
         /\ AP!SomeLock => AP!SomeLock'
<1> USE AccountAssumptions
<1>1. [AP!Next]_(AP!vars)
  BY NextComponents, SameAccount DEF ApiInv, avars, AP!vars
<1>2. AP!Shape'
  BY <1>1, AP!NextShape DEF TokenInv
<1>3. AP!TokenShape'
  BY <1>1, <1>2, AP!NextTokenShape DEF TokenInv
<1>4. AP!SignShape'
  BY <1>1, AP!NextSignShape DEF TokenInv
<1>5. AP!SomeLock => AP!SomeLock'
  BY <1>1, AP!RowStep DEF TokenInv, AP!SomeLock
<1>6. QED
  BY <1>1, <1>2, <1>3, <1>4, <1>5

LEMMA StepTokens ==
  ASSUME ApiInv, AnswerInv, TokenInv, [Next]_vars, NEW r \in Req,
         Request(r) \/ Step(r) \/ Fail(r) \/ Time(r)
  PROVE  TokenInv'
<1> USE NoneAssumption
<1>1. /\ [AP!Next]_(AP!vars)
      /\ AP!Shape' /\ AP!TokenShape' /\ AP!SignShape'
      /\ AP!SomeLock => AP!SomeLock'
  BY AccountFacts
<1>2. GoalShape /\ LinksOf(r) /\ Limits(r) /\ Deletes(r)
  BY DEF AnswerInv, TokenInv
<1>3. Asks(r) /\ AccountPart(r) /\ Moves(r) /\ SessionsMade(r)
  BY <1>2, StepTalk, TalkAsks, StepComponents, AccountMoves, SessionsRows
     DEF ApiInv, AccountShape
<1>4. ASSUME NEW q \in Req \ {r}
      PROVE  /\ request'[q] = request[q] /\ reply'[q] = reply[q]
             /\ spc'[q] = spc[q] /\ apc'[q] = apc[q] /\ goal'[q] = goal[q]
  BY <1>3 DEF Asks, SessionsMade, Moves, Alone
<1>5. \A t \in Req : spc[t] \in {"granted", "limited"} => spc'[t] = spc[t]
  BY <1>4, Handed
<1>6. \/ Request(r)
      \/ r \in InFlight /\ (Step(r) \/ Fail(r))
      \/ Time(r) /\ UNCHANGED <<spc, apc, goal, request, reply>>
  <2>1. Step(r) \/ Fail(r) => r \in InFlight
    BY DEF Step, Fail, Authenticated, Rejected, RefreshLocked, RefreshChecked,
       OverLimit, Granted, TempUser, DeleteRows, Report, Cleared, IsDeletion,
       FindSessionToRevoke, DeleteUser, SessionStep, AccountStep, Is
  <2>2. Time(r) => UNCHANGED <<spc, apc, goal, request, reply>>
    BY DEF Time, A!Pass, A!Age, svars, Waits
  <2>3. QED
    BY <2>1, <2>2
<1>7. ASSUME NEW q \in Req PROVE Limits(q)' /\ Deletes(q)'
  <2>1. Limits(q) /\ Deletes(q)
    BY DEF TokenInv
  <2>2. CASE /\ request'[q] = request[q] /\ reply'[q] = reply[q]
             /\ spc'[q] = spc[q] /\ apc'[q] = apc[q] /\ goal'[q] = goal[q]
    BY <2>1, <2>2 DEF Limits, Deletes, Deleting, Over, IsDeletion, InFlight
  <2>3. CASE q = r /\ (Request(r) \/ (r \in InFlight /\ (Step(r) \/ Fail(r))))
    BY <1>2, <2>3, RequestLinks, InFlightLinks
  <2>4. QED
    BY <1>4, <1>6, <2>2, <2>3
<1>8. ASSUME NEW q \in Req, q \in InFlight, q \in InFlight',
             request'[q].token = request[q].token
      PROVE  TokenOf(q)'
  <2> SUFFICES ASSUME NEW t \in Req, request[q].token = t
               PROVE  /\ spc'[t] \in {"granted", "limited"}
                      /\ spc'[t] = "limited" => AP!SomeLock' \/ AP!Spends(q, t)'
    BY <1>8 DEF TokenOf
  <2>1. /\ spc[t] \in {"granted", "limited"}
        /\ spc[t] = "limited" => AP!SomeLock \/ AP!Spends(q, t)
    BY <1>8 DEF TokenInv, TokenOf
  <2>2. spc'[t] = spc[t]
    BY <1>5, <2>1
  <2>3. AP!Spends(q, t) /\ ~AP!SomeLock => AP!Spends(q, t)'
    BY <1>1, AccountAssumptions, AP!NextSpends DEF TokenInv
  <2>4. QED
    BY <1>1, <2>1, <2>2, <2>3
<1>9. ASSUME NEW q \in Req PROVE TokenOf(q)'
  <2> SUFFICES ASSUME q \in InFlight' PROVE TokenOf(q)'
    BY DEF TokenOf
  <2>1. CASE q # r \/ Time(r)
    <3>1. request'[q] = request[q] /\ reply'[q] = reply[q]
      BY <1>4, <2>1 DEF Time, Waits
    <3>2. q \in InFlight
      BY <3>1 DEF InFlight
    <3>3. QED
      BY <1>8, <3>1, <3>2
  <2>2. CASE q = r /\ r \in InFlight /\ (Step(r) \/ Fail(r))
    BY <1>2, <1>8, <2>2, OwnToken
  <2>3. CASE q = r /\ Request(r)
    <3> SUFFICES ASSUME NEW t \in Req, request'[r].token = t
                 PROVE  /\ spc'[t] \in {"granted", "limited"}
                        /\ spc'[t] = "limited" => AP!SomeLock' \/ AP!Spends(r, t)'
      BY <2>3 DEF TokenOf
    <3>1. goal'[r] # "clear" /\ spc[t] \in {"granted", "limited"}
      BY <1>2, <2>3, RequestLinks
    <3>2. spc'[t] = spc[t]
      BY <1>5, <3>1
    <3>3. spc'[t] = "limited" => apc'[t] = "limited"
      BY <1>7 DEF Limits
    <3>4. spc'[t] = "limited" => AP!Spends(r, t)'
      BY <3>1, <3>3 DEF AP!Spends
    <3>5. QED
      BY <3>1, <3>2, <3>4
  <2>4. QED
    BY <1>6, <2>1, <2>2, <2>3
<1>10. QED
  BY <1>1, <1>7, <1>9 DEF TokenInv

LEMMA NextTokens == ApiInv /\ AnswerInv /\ TokenInv /\ [Next]_vars => TokenInv'
<1> SUFFICES ASSUME ApiInv, AnswerInv, TokenInv, [Next]_vars PROVE TokenInv'
  OBVIOUS
<1>1. CASE UNCHANGED vars
  <2>1. AP!Shape' /\ AP!TokenShape' /\ AP!SignShape'
    BY AccountFacts
  <2>2. /\ UNCHANGED <<spc, apc, goal, mem, adirty, state, passed, request, reply>>
    BY <1>1 DEF vars, svars, avars
  <2>3. ASSUME NEW r \in Req PROVE Limits(r)' /\ Deletes(r)' /\ TokenOf(r)'
    <3>1. Limits(r) /\ Deletes(r) /\ TokenOf(r)
      BY DEF TokenInv
    <3>2. Limits(r)' /\ Deletes(r)'
      BY <2>2, <3>1 DEF Limits, Deletes, Deleting, Over, IsDeletion, InFlight
    <3>3. AP!SomeLock' <=> AP!SomeLock
      BY <2>2 DEF AP!SomeLock, AP!IsLock, AP!Stored
    <3>4. TokenOf(r)'
      BY <2>2, <3>1, <3>3 DEF TokenOf, InFlight, AP!Spends
    <3>5. QED
      BY <3>2, <3>4
  <2>4. QED
    BY <2>1, <2>3 DEF TokenInv
<1>2. CASE Next
  BY <1>2, StepTokens DEF Next
<1>3. QED
  BY <1>1, <1>2

LEMMA InitTokens == Init => TokenInv
<1> SUFFICES ASSUME Init PROVE TokenInv
  OBVIOUS
<1>1. AP!Init
  BY DEF Init, A!Init, AP!Init, A!NoStates, AP!NoStates, A!Nothing, AP!Nothing
<1>2. AP!Shape /\ AP!TokenShape /\ AP!SignShape
  BY <1>1, AccountAssumptions, AP!InitShape, AP!InitBounded, AP!InitSignShape
<1>3. ASSUME NEW r \in Req PROVE Limits(r) /\ Deletes(r) /\ TokenOf(r)
  <2>1. /\ spc[r] = "idle" /\ apc[r] = "idle" /\ goal[r] = "none"
        /\ request[r] = None /\ reply[r] = None
    BY DEF Init, S!Init, A!Init
  <2>2. QED
    BY <2>1, NoneAssumption DEF Limits, Deletes, Deleting, Over, IsDeletion, InFlight,
       TokenOf, Code, Success
<1>4. QED
  BY <1>2, <1>3 DEF TokenInv

-----------------------------------------------------------------------------
(* What a temporary token is good for. *)

\* No request failed, and none asked for the deletion of sessions.
Calm ==
    \A r \in Req : /\ reply[r] # "failed"
                   /\ request[r] # None => ~IsDeletionEndpoint(request[r].endpoint)

\* Inductive, together with the invariants above.
WorksInv == Calm /\ ~AP!SomeLock => AP!OneWorks

LEMMA NextWorks ==
  ASSUME ApiInv, AnswerInv, TokenInv, WorksInv, [Next]_vars
  PROVE  WorksInv'
<1> SUFFICES ASSUME Calm', ~AP!SomeLock' PROVE AP!OneWorks'
  BY DEF WorksInv
<1>1. [AP!Next]_(AP!vars) /\ ~AP!SomeLock
  BY AccountFacts
<1>2. \A q \in Req : /\ reply[q] # None => reply'[q] = reply[q]
                     /\ request[q] # None =>
                          request'[q] # None /\ request'[q].endpoint = request[q].endpoint
  <2>1. CASE UNCHANGED vars
    BY <2>1 DEF vars
  <2>2. ASSUME NEW r \in Req, Request(r) \/ Step(r) \/ Fail(r) \/ Time(r),
               NEW q \in Req
        PROVE  /\ reply[q] # None => reply'[q] = reply[q]
               /\ request[q] # None =>
                    request'[q] # None /\ request'[q].endpoint = request[q].endpoint
    <3>1. Asks(r) /\ Talk(r)
      BY <2>2, StepTalk, TalkAsks DEF ApiInv, AccountShape
    <3>2. reply[r] # None => reply'[r] = reply[r]
      <4>1. reply[r] # None => request[r] # None
        BY DEF AnswerInv, LinksOf
      <4>2. QED
        BY <3>1, <4>1 DEF Talk, Waits, Receive, Arrive, InFlight
    <3>3. QED
      BY <3>1, <3>2 DEF Asks
  <2>3. QED
    BY <2>1, <2>2 DEF Next
<1>3. Calm
  BY <1>2, NoneAssumption DEF Calm, Code
<1>4. \A q \in Req : goal[q] # "clear"
  <2> SUFFICES ASSUME NEW q \in Req, goal[q] = "clear" PROVE FALSE
    OBVIOUS
  <2>1. IsDeletionEndpoint(request[q].endpoint)
    BY DEF TokenInv, Deletes, Deleting
  <2>2. request[q] # None
    BY DEF AnswerInv, LinksOf, GoalShape, Saving
  <2>3. QED
    BY <1>3, <2>1, <2>2 DEF Calm
<1>5. ASSUME NEW q \in Req, apc'[q] = "failed", apc[q] # "failed", goal[q] # "update"
      PROVE  FALSE
  <2>1. PICK r \in Req : Request(r) \/ Step(r) \/ Fail(r) \/ Time(r)
    BY <1>5 DEF Next, vars, avars
  <2>2. q = r
    <3>1. Time(r) => apc' = apc
      BY DEF Time, A!Pass, A!Age
    <3>2. ~Time(r) => Alone(r)
      BY <2>1, StepComponents, AccountMoves DEF Moves, ApiInv, AnswerInv
    <3>3. QED
      BY <1>5, <3>1, <3>2 DEF Alone
  <2>3. reply'[q] = "failed" \/ (q \in InFlight /\ request[q].reported)
    BY <1>5, <2>1, <2>2, FailsSaid
  <2>4. q \in InFlight /\ IsDeletionEndpoint(request[q].endpoint)
    BY <2>3 DEF Calm, TokenInv, Deletes, IsDeletion
  <2>5. QED
    BY <1>3, <2>4 DEF Calm, InFlight
<1>6. AP!OneWorks
  BY <1>1, <1>3 DEF WorksInv
<1>7. QED
  BY <1>1, <1>4, <1>5, <1>6, AccountAssumptions, AP!NextOneWorks DEF TokenInv

LEMMA InitWorks == Init => WorksInv
<1>1. Init => AP!Init
  BY DEF Init, A!Init, AP!Init, A!NoStates, AP!NoStates, A!Nothing, AP!Nothing
<1>2. QED
  BY <1>1, AccountAssumptions, AP!InitOneWorks DEF WorksInv

\* resolveStates and createSessionLimitToken (user-states.service.ts) make the
\* tokens before useless, two at a time even those of each other; still, when all
\* is answered, no statement failed, and nobody was locked out or deleted
\* sessions, one of those handed out by auth.service.ts works or has expired.
THEOREM TempTokenWorks == Spec => []OneTempTokenWorks
<1>1. ApiInv /\ AnswerInv /\ TokenInv /\ WorksInv => OneTempTokenWorks
  <2> SUFFICES ASSUME ApiInv, AnswerInv, TokenInv, WorksInv, Calm, NoLocks,
                      \A r \in Req : r \notin InFlight,
                      NEW r \in Req, reply[r] = "SESSION_LIMIT_REACHED"
               PROVE  \E t \in Req : TempMatches(t) \/ (A!Stored(t) /\ t \in passed)
    BY DEF OneTempTokenWorks, Calm
  <2>1. AP!OneWorks
    BY DEF WorksInv, NoLocks, AP!SomeLock, A!IsLock, AP!IsLock, A!Stored, AP!Stored
  <2>2. apc[r] = "limited" /\ AP!IsLimit(r)
    BY DEF TokenInv, Limits, AP!SignShape
  <2>3. ASSUME NEW q \in Req PROVE ~Over(q)
    <3>1. Over(q) => reply[q] = None
      BY DEF TokenInv, Limits
    <3>2. Over(q) => request[q] # None
      BY DEF AnswerInv, LinksOf, GoalShape, Over, Saving
    <3>3. QED
      BY <3>1, <3>2 DEF InFlight
  <2>4. AP!Pending = {}
    BY <2>3 DEF AP!Pending, Over
  <2>5. PICK t \in Req : AP!Clean(t)
    BY <2>1, <2>2, <2>4 DEF AP!OneWorks
  <2>6. apc[t] = "limited" /\ state[t].token = t /\ AP!IsLimit(t) /\ ~state[t].resolved
    BY <2>3, <2>5 DEF AP!Clean, Over
  <2>7. spc[t] = "limited" /\ state[t].expires = t
    BY <2>6 DEF TokenInv, Limits, AP!TokenShape, AP!Pair
  <2>8. QED
    BY <2>6, <2>7, NoneAssumption DEF TempMatches, A!ActiveOf, A!IsActive, AP!IsLimit,
       AP!Stored, A!Stored
<1>2. ApiInv /\ AnswerInv /\ TokenInv /\ WorksInv /\ [Next]_vars => WorksInv'
  BY NextWorks
<1>3. QED
  BY <1>1, <1>2, InitApi, NextApi, InitAnswer, NextAnswer, InitTokens, NextTokens,
     InitWorks, PTL DEF Spec

\* A step that answers a deletion with a temporary token.
SpentStep(r, t) ==
    DeletedWith(r, t) /\ apc'[r] # "failed" /\ NoLocks'
    => ~TempMatches(t)' \/ user.deleted \/ A!Orphans(mem[r]) # {}

LEMMA NextSpent ==
  ASSUME ApiInv, AnswerInv, TokenInv, [Next]_vars, NEW r \in Req, NEW t \in Req
  PROVE  SpentStep(r, t)
<1> SUFFICES ASSUME DeletedWith(r, t), apc'[r] # "failed", NoLocks', TempMatches(t)',
                    ~user.deleted, A!Orphans(mem[r]) = {}
             PROVE  FALSE
  BY DEF SpentStep
<1> USE NoneAssumption DEF Saving
<1>1. /\ r \in InFlight /\ request[r].token = t /\ spc[t] = "limited"
      /\ request[r].rows # {} /\ reply'[r] \in Success /\ reply'[r] # reply[r]
  BY DEF DeletedWith, InFlight, Code
<1>2. /\ IsDeletion(r) /\ spc[r] = "ended" /\ request[r].reported
      /\ apc[r] = "clear" \/ goal[r] = "clear"
  BY <1>1 DEF DeletedWith, TokenInv, Deletes, Deleting
<1>3. apc[r] \in Saving <=> goal[r] # "none"
  BY DEF AnswerInv, GoalShape
<1>4. /\ [AP!Next]_(AP!vars)
      /\ AP!Shape' /\ AP!TokenShape'
      /\ ~AP!SomeLock
  <2>1. ~AP!SomeLock'
    BY DEF NoLocks, AP!SomeLock, A!IsLock, AP!IsLock, A!Stored, AP!Stored
  <2>2. QED
    BY <2>1, AccountFacts
<1>5. PICK q \in Req : Request(q) \/ Step(q) \/ Fail(q) \/ Time(q)
  BY <1>1 DEF Next, vars
<1>6. q = r
  BY <1>1, <1>5, StepTalk, TalkAsks DEF Asks, ApiInv, AccountShape
<1>7. Step(r)
  <2>1. ~Time(r)
    BY <1>1 DEF Time, Waits
  <2>2. ~Request(r)
    BY <1>1 DEF InFlight, Request, PostLogin, PostLogout, PatchUser, PostDeleteUser,
       PostRefresh, PostDeletion, PostDeletionWithTempToken, Receive, Arrive
  <2>3. ~Fail(r)
    <3>1. apc[r] \in A!Working
      BY <1>2, <1>3 DEF A!Working
    <3>2. A!Fail(r) => apc'[r] = "failed"
      BY DEF A!Fail, A!Answer, A!Goto, ApiInv, AccountShape
    <3>3. QED
      BY <3>1, <3>2 DEF Fail, A!InFlight
  <2>4. QED
    BY <1>5, <1>6, <2>1, <2>2, <2>3
<1>8. ~Waits /\ reply' # reply
  BY <1>1 DEF Waits
<1>9. Cleared(r) \/ AccountStep(r)
  <2>1. apc[r] \notin {"verify", "delete", "tempUser"}
    BY <1>2, <1>3
  <2>2. spc[r] = "ended"
    BY <1>2
  <2>3. ~ \E c \in S!Context : Authenticated(r, c)
    BY <2>2 DEF Authenticated
  <2>4. ~Rejected(r) /\ ~FindSessionToRevoke(r) /\ ~DeleteRows(r) /\ ~OverLimit(r)
    BY <2>2 DEF Rejected, FindSessionToRevoke, DeleteRows, OverLimit
  <2>5. ~RefreshLocked(r) /\ ~RefreshChecked(r) /\ ~Granted(r)
    BY <2>2 DEF RefreshLocked, RefreshChecked, Granted, S!LockedOut, S!Refresh, S!Respond
  <2>6. ~TempUser(r) /\ ~Report(r) /\ ~DeleteUser(r)
    BY <1>8, <2>1 DEF TempUser, A!TempUser, Report, DeleteUser
  <2>7. ~SessionStep(r)
    BY <2>2 DEF SessionStep, S!FindCurrent, S!CountSessions, S!Create, S!MarkRead,
       S!MarkWrite, S!TokenRead, S!TokenWrite, S!Delete, S!RevokeRead, S!RevokeWrite
  <2>8. QED
    BY <1>7, <2>3, <2>4, <2>5, <2>6, <2>7 DEF Step
<1>10. CASE Cleared(r)
  <2>1. A!Clear(r) /\ (Waits \/ apc'[r] \notin A!Working)
    BY <1>1, <1>10 DEF Cleared, Goes
  <2>2. apc'[r] = "saveRead"
    BY <2>1 DEF A!Clear, A!Save, A!Goto, ApiInv, AccountShape
  <2>3. QED
    BY <1>8, <2>1, <2>2 DEF A!Working
<1>11. CASE AccountStep(r)
  <2>1. goal[r] = "clear" /\ apc[r] \in Saving
    BY <1>2, <1>3, <1>11 DEF AccountStep, A!Record, A!Count, A!LockFind, A!LockInsert,
       A!ResolveFind, A!LimitInsert, A!SaveRead, A!SaveWrite, A!Reject
  <2>2. \/ A!SaveRead(r) \/ A!SaveWrite(r) \/ A!Reject(r)
    BY <1>11, <2>1 DEF AccountStep, A!Record, A!Count, A!LockFind, A!LockInsert,
       A!ResolveFind, A!LimitInsert
  <2>3. CASE A!SaveRead(r)
    <3>1. apc'[r] \in A!Working
      BY <2>3 DEF A!SaveRead, A!Goto, A!Working, ApiInv, AccountShape
    <3>2. QED
      BY <1>8, <1>11, <3>1 DEF AccountStep
  <2>4. CASE A!Reject(r)
    BY <2>4 DEF A!Reject, TokenInv, AP!SignShape, A!Orphans, AP!Orphans, A!Stored,
       AP!Stored
  <2>5. CASE A!SaveWrite(r)
    <3>1. AP!SaveWrite(r)
      BY <2>5 DEF A!SaveWrite, AP!SaveWrite, A!After, AP!After, A!Answer, AP!Answer,
         A!Keep, AP!Keep, A!Goto, AP!Goto, A!Nothing, AP!Nothing, A!NoStates,
         AP!NoStates, A!UserColumn, AP!UserColumn
    <3>2. AP!Spends(r, t)
      BY <1>1, <1>4 DEF TokenInv, TokenOf
    <3>3. ~(t \in AP!ActiveOf("limit") /\ state[t].token = t)'
      BY <1>4, <2>1, <3>1, <3>2, AccountAssumptions, AP!SpentWrite DEF TokenInv
    <3>4. QED
      BY <3>3 DEF TempMatches, A!ActiveOf, AP!ActiveOf, A!IsActive, AP!IsActive,
         A!Stored, AP!Stored
  <2>6. QED
    BY <2>2, <2>3, <2>4, <2>5
<1>12. QED
  BY <1>9, <1>10, <1>11

\* DELETE /auth/sessions with a temporary token resolves the state it was handed
\* out with (user-state.listener.ts), whatever is saved at the same time: unless
\* the listener failed, finds the account deleted, or has its save rejected.
THEOREM TempTokenIsSpent == Spec => TempTokenSpent
<1>1. ApiInv /\ AnswerInv /\ TokenInv /\ [Next]_vars => \A r, t \in Req : SpentStep(r, t)
  BY NextSpent
<1>2. (\A r, t \in Req : SpentStep(r, t)) =>
        [\A r, t \in Req :
           DeletedWith(r, t) /\ apc'[r] # "failed" /\ NoLocks'
           => ~TempMatches(t)' \/ user.deleted \/ A!Orphans(mem[r]) # {}]_vars
  BY DEF SpentStep
<1>3. QED
  BY <1>1, <1>2, InitApi, NextApi, InitAnswer, NextAnswer, InitTokens, NextTokens, PTL
     DEF Spec, TempTokenSpent
=============================================================================
