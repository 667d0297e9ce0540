--------------------------- MODULE SessionsProofs ---------------------------
(***************************************************************************)
(* Proofs about Sessions, for any sets of users, contexts and requests and *)
(* any limits.                                                             *)
(***************************************************************************)
EXTENDS Sessions, FiniteSetTheorems, TLAPS

\* Requests that name a stored session, and those with its entity in memory.
Named == {"markRead", "markWrite", "tokenRead", "tokenWrite", "respond",
          "refresh", "delete", "revokeRead", "revokeWrite", "granted"}

Saving == {"markRead", "markWrite", "tokenRead", "tokenWrite",
           "revokeRead", "revokeWrite"}

\* What every action relies on, besides the types.
Shape ==
    /\ TypeOK
    /\ \A r \in Req :
         /\ pc[r] \in Working \cup {"limited", "granted"} => call[r] \in Call
         /\ pc[r] \in {"find", "count", "create", "refresh"}
              => call[r].ctx \in Context
         /\ pc[r] \in Named => sid[r] \in Req /\ session[sid[r]] \in Row
         /\ pc[r] \in Named \ {"granted"}
              => session[sid[r]].user = call[r].user
         /\ pc[r] \in Saving => snap[r] \in Row
         /\ pc[r] = "revokeWrite" => snap[r].deleted
         /\ pc[r] \in {"idle", "find", "count", "create", "refresh"}
              => session[r] = None

LEMMA UpdatedType ==
  ASSUME NEW row \in Row, NEW entity \in Row, NEW columns \in SUBSET Column
  PROVE  /\ Updated(row, entity, columns) \in Row
         /\ Updated(row, entity, columns).user = row.user
         /\ Updated(row, entity, columns).deleted =
              IF "deleted" \in columns THEN entity.deleted ELSE row.deleted
<1>1. DOMAIN row = {"user", "ctx", "token", "deleted", "revoked"}
  BY DEF Row
<1>2. /\ row = [user |-> row.user, ctx |-> row.ctx, token |-> row.token, deleted |-> row.deleted, revoked |-> row.revoked]
      /\ row.user \in User /\ row.ctx \in Context
      /\ row.token \in Req \cup {None}
      /\ row.deleted \in BOOLEAN /\ row.revoked \in BOOLEAN
  BY DEF Row
<1>2a. /\ entity.token \in Req \cup {None}
      /\ entity.deleted \in BOOLEAN /\ entity.revoked \in BOOLEAN
  BY DEF Row
<1> DEFINE new == Updated(row, entity, columns)
<1>3. new = [user |-> row.user, ctx |-> row.ctx,
             token |-> IF "token" \in columns THEN entity.token ELSE row.token,
             deleted |-> IF "deleted" \in columns THEN entity.deleted ELSE row.deleted,
             revoked |-> IF "revoked" \in columns THEN entity.revoked ELSE row.revoked]
  BY <1>1 DEF Updated, Column
<1>4. QED
  BY <1>2, <1>2a, <1>3 DEF Row

LEMMA EntityType ==
  ASSUME NEW row \in Row
  PROVE  /\ \A t \in Req : SetHashedToken(row, t) \in Row
         /\ SetDeleted(row) \in Row
         /\ SetDeleted(row).user = row.user
         /\ SetDeleted(row).deleted
         /\ SetRevoked(row) \in Row
         /\ SetRevoked(row).deleted
<1>1. \A t \in Req : SetHashedToken(row, t) \in Row
  BY DEF Row, SetHashedToken
<1>2. /\ SetDeleted(row) \in Row
      /\ SetDeleted(row).user = row.user
      /\ SetDeleted(row).deleted
  BY DEF Row, SetDeleted
<1>3. DEFINE mid == [row EXCEPT !.deleted = TRUE]
<1>4. mid \in Row /\ mid.deleted
  BY DEF Row
<1>5. [mid EXCEPT !.revoked = TRUE] \in Row /\ [mid EXCEPT !.revoked = TRUE].deleted
  <2> HIDE DEF mid
  <2> QED BY <1>4 DEF Row
<1>6. SetRevoked(row) = [mid EXCEPT !.revoked = TRUE]
  BY DEF SetRevoked
<1>7. QED
  BY <1>1, <1>2, <1>5, <1>6

LEMMA InitShape == Init => Shape
BY DEF Init, Shape, TypeOK, Phase, Working, Named, Saving

LEMMA AnswerShape ==
  ASSUME Shape, NEW r \in Req, NEW outcome \in {"granted", "limited", "ended", "failed"},
         pc[r] \in Working,
         outcome = "granted" => pc[r] = "respond",
         session' \in [Req -> Row \cup {None}],
         \A s \in Req : Stored(s) => session'[s] \in Row /\ session'[s].user = session[s].user,
         \A s \in Req : ~Stored(s) => session'[s] = None,
         Answer(r, outcome)
  PROVE  Shape'
BY NoneAssumption DEF Shape, TypeOK, Answer, Goto, Phase, Working, Answered, Named, Saving, Stored, Column

\* A token's subject is the user of the session it names.
LEMMA SubjectType ==
  ASSUME Shape, NEW t \in Req, pc[t] \in {"granted", "limited"}
  PROVE  /\ Subject(t) \in User
         /\ pc[t] = "granted" => /\ sid[t] \in Req
                                 /\ session[sid[t]] \in Row
                                 /\ Subject(t) = session[sid[t]].user
BY DEF Shape, Subject, Named, Row, Call

LEMMA NextShape == Shape /\ [Next]_vars => Shape'
<1> SUFFICES ASSUME Shape, [Next]_vars PROVE Shape'
  OBVIOUS
<1> USE NoneAssumption
<1>1. CASE UNCHANGED vars
  BY <1>1 DEF vars, Shape, TypeOK, Stored
<1> SUFFICES ASSUME NEW r \in Req, Request(r) \/ Step(r) \/ Fail(r)
             PROVE  Shape'
  BY <1>1 DEF Next
<1>2. ASSUME NEW u \in User, NEW c \in Context, Login(r, u, c)
      PROVE  Shape'
  <2>1. sid'[r] \in Req \cup {None}
    BY <1>2 DEF Login, ContextMatches, LiveOf, OneOf, Shape, TypeOK
  <2>2. QED
    BY <1>2, <2>1 DEF Login, Arrive, Goto, Shape, TypeOK, Phase, Working,
       Answered, Named, Saving, Call, Kind
<1>3. ASSUME NEW t \in Req, NEW c \in Context, RefreshValid(r, t, c)
      PROVE  Shape'
  BY <1>3, SubjectType DEF RefreshValid, Arrive, Goto, Shape, TypeOK, Phase,
     Working, Answered, Named, Saving, Call, Kind
<1>4. ASSUME NEW t \in Req, RefreshInvalid(r, t)
      PROVE  Shape'
  BY <1>4 DEF RefreshInvalid, Arrive, Goto, Shape, TypeOK, Phase, Working,
     Answered, Named, Saving
<1>5. ASSUME NEW t \in Req, Logout(r, t)
      PROVE  Shape'
  BY <1>5, SubjectType DEF Logout, Arrive, Goto, Shape, TypeOK, Phase, Working,
     Answered, Named, Saving, Call, Kind
<1>6. ASSUME NEW t \in Req, NEW ids \in SUBSET Req, DeleteSessions(r, t, ids)
      PROVE  Shape'
  BY <1>6, SubjectType, EntityType DEF DeleteSessions, SoftDelete, Stored, Arrive, Goto,
     Shape, TypeOK, Phase, Working, Answered, Named, Saving, Call, Kind
<1>7. ASSUME NEW t \in Req, UpdateOrDeleteUser(r, t)
      PROVE  Shape'
  BY <1>7, SubjectType DEF UpdateOrDeleteUser, Arrive, Goto, Shape, TypeOK,
     Phase, Working, Answered, Named, Saving, Call, Kind
<1>8. CASE Refresh(r)
  <2>1. CASE Answer(r, "ended")
    BY <1>8, <2>1, AnswerShape DEF Refresh, Shape, TypeOK, Stored, Working
  <2>2. CASE ~Answer(r, "ended")
    BY <1>8, <2>2 DEF Refresh, Goto, Shape, TypeOK, Phase, Working, Answered,
       Named, Saving
  <2>3. QED
    BY <2>1, <2>2
<1>9. CASE FindCurrent(r)
  BY <1>9 DEF FindCurrent, OneOf, CurrentSessions, ContextMatches, LiveOf, Live,
     Stored, Goto, Shape, TypeOK, Phase, Working, Answered, Named, Saving
<1>10. CASE CountSessions(r)
  BY <1>10 DEF CountSessions, Goto, Shape, TypeOK, Phase, Working, Answered,
     Named, Saving
<1>11. CASE Limit(r)
  BY <1>11, AnswerShape DEF Limit, Shape, TypeOK, Stored, Working
<1>12. CASE Create(r)
  BY <1>12 DEF Create, Goto, Shape, TypeOK, Phase, Working, Answered, Named,
     Saving, Row, Call
<1>13. CASE MarkRead(r)
  BY <1>13 DEF MarkRead, SaveRead, Differs, Goto, Shape, TypeOK, Phase, Working,
     Answered, Named, Saving
<1>14. CASE MarkWrite(r)
  BY <1>14, UpdatedType DEF MarkWrite, SaveWrite, Goto, Shape, TypeOK, Phase,
     Working, Answered, Named, Saving
<1>15. CASE TokenRead(r)
  BY <1>15, EntityType DEF TokenRead, SaveRead, Differs, Goto, Shape, TypeOK,
     Phase, Working, Answered, Named, Saving
<1>16. CASE TokenWrite(r)
  BY <1>16, UpdatedType DEF TokenWrite, SaveWrite, Goto, Shape, TypeOK, Phase,
     Working, Answered, Named, Saving
<1>17. CASE Respond(r)
  BY <1>17, AnswerShape DEF Respond, Shape, TypeOK, Stored, Working
<1>18. CASE Delete(r)
  BY <1>18, AnswerShape, EntityType DEF Delete, SoftDelete, Shape, TypeOK, Stored,
     Working, Named
<1>19. CASE RevokeRead(r)
  BY <1>19, EntityType DEF RevokeRead, SaveRead, Differs, Goto, Shape, TypeOK,
     Phase, Working, Answered, Named, Saving, Column
<1>20. CASE RevokeWrite(r)
  BY <1>20, AnswerShape, UpdatedType DEF RevokeWrite, SaveWrite, Shape, TypeOK,
     Stored, Working, Named, Saving
<1>21. CASE Fail(r)
  BY <1>21, AnswerShape DEF Fail, InFlight, Shape, TypeOK, Stored, Working
<1>22. CASE LockedOut(r)
  BY <1>22, AnswerShape DEF LockedOut, Shape, TypeOK, Stored, Working
<1>23. QED
  BY <1>2, <1>3, <1>4, <1>5, <1>6, <1>7, <1>8, <1>9, <1>10, <1>11, <1>12, <1>13,
     <1>14, <1>15, <1>16, <1>17, <1>18, <1>19, <1>20, <1>21, <1>22
     DEF Request, Step

LEMMA SafeShape == Safety => []Shape
BY InitShape, NextShape, PTL DEF Safety

THEOREM ShapeInvariant == Spec => []Shape
BY SafeShape, PTL DEF Spec

\* Every variable keeps its type, whatever the order of the requests' steps.
THEOREM TypeCorrect == Spec => []TypeOK
BY ShapeInvariant, PTL DEF Shape
-----------------------------------------------------------------------------
(* What one step does to the rows, and to the requests that hold them. *)

Held(s) == \E q \in Req : Holds(q, s)

\* A row is never removed and never changes hands; a new one is live and was
\* about to be created for its user; and a deleted session nobody holds is
\* neither revived nor held again.
RowStep ==
    \A s \in Req :
      /\ Stored(s) => Stored(s)' /\ session'[s].user = session[s].user
      /\ ~Stored(s) /\ Stored(s)' => /\ Live(s)'
                                     /\ pc[s] = "create"
                                     /\ session'[s].user = call[s].user
      /\ Stored(s) /\ (Live(s)' \/ Held(s)') => Live(s) \/ Held(s)

\* Actions that leave the table alone and start to hold only a live session.
LEMMA QuietStep ==
  ASSUME Shape, NEW r \in Req, UNCHANGED session,
         \A q \in Req : q # r => pc'[q] = pc[q] /\ sid'[q] = sid[q],
         \A s \in Req : Stored(s) /\ Holds(r, s)' => Live(s) \/ Holds(r, s)
  PROVE  RowStep
BY DEF RowStep, Stored, Live, Held, Holds

\* Actions that write to rows, and hold no session after it but those they held.
LEMMA WriteStep ==
  ASSUME Shape, NEW r \in Req,
         \A q \in Req : q # r => pc'[q] = pc[q] /\ sid'[q] = sid[q],
         \A s \in Req : Stored(s) => Stored(s)' /\ session'[s].user = session[s].user,
         \A s \in Req : ~Stored(s) => ~Stored(s)',
         \A s \in Req : Stored(s) /\ Live(s)' => Live(s) \/ Holds(r, s),
         \A s \in Req : Holds(r, s)' => Holds(r, s)
  PROVE  RowStep
BY DEF RowStep, Held, Holds

LEMMA NextRowStep == Shape /\ [Next]_vars => RowStep
<1> SUFFICES ASSUME Shape, [Next]_vars PROVE RowStep
  OBVIOUS
<1> USE NoneAssumption
<1>1. CASE UNCHANGED vars
  BY <1>1 DEF vars, RowStep, Stored, Live, Held, Holds
<1> SUFFICES ASSUME NEW r \in Req, Request(r) \/ Step(r) \/ Fail(r)
             PROVE  RowStep
  BY <1>1 DEF Next
<1>2. ASSUME NEW u \in User, NEW c \in Context, Login(r, u, c)
      PROVE  RowStep
  BY <1>2, QuietStep DEF Login, Goto, Holds, Shape, TypeOK
<1>3. ASSUME NEW t \in Req, NEW c \in Context, RefreshValid(r, t, c)
      PROVE  RowStep
  BY <1>3, QuietStep DEF RefreshValid, Goto, Holds, Shape, TypeOK
<1>4. ASSUME NEW t \in Req, RefreshInvalid(r, t)
      PROVE  RowStep
  BY <1>4, QuietStep DEF RefreshInvalid, Goto, Holds, Shape, TypeOK
<1>5. ASSUME NEW t \in Req, Logout(r, t)
      PROVE  RowStep
  BY <1>5, QuietStep DEF Logout, Goto, Holds, Shape, TypeOK
<1>6. ASSUME NEW t \in Req, NEW ids \in SUBSET Req, DeleteSessions(r, t, ids)
      PROVE  RowStep
  BY <1>6, WriteStep, EntityType DEF DeleteSessions, SoftDelete, Goto, Holds,
     Stored, Live, Shape, TypeOK
<1>7. ASSUME NEW t \in Req, UpdateOrDeleteUser(r, t)
      PROVE  RowStep
  BY <1>7, QuietStep DEF UpdateOrDeleteUser, Goto, Holds, Shape, TypeOK
<1>8. CASE Refresh(r)
  BY <1>8, QuietStep DEF Refresh, Answer, Goto, Holds, Shape, TypeOK
<1>9. CASE FindCurrent(r)
  BY <1>9, QuietStep DEF FindCurrent, OneOf, CurrentSessions, ContextMatches,
     LiveOf, Goto, Holds, Shape, TypeOK
<1>10. CASE CountSessions(r)
  BY <1>10, QuietStep DEF CountSessions, Goto, Holds, Shape, TypeOK
<1>11. CASE Limit(r)
  BY <1>11, QuietStep DEF Limit, Answer, Goto, Holds, Shape, TypeOK
<1>12. CASE Create(r)
  BY <1>12 DEF Create, Goto, RowStep, Held, Holds, Stored, Live, Shape, TypeOK,
     Row, Call, Working
<1>13. CASE MarkRead(r)
  BY <1>13, QuietStep DEF MarkRead, SaveRead, Goto, Holds, Shape, TypeOK
<1>14. CASE MarkWrite(r)
  BY <1>14, WriteStep, UpdatedType DEF MarkWrite, SaveWrite, Goto, Holds, Stored,
     Live, Shape, TypeOK, Named, Saving
<1>15. CASE TokenRead(r)
  BY <1>15, QuietStep DEF TokenRead, SaveRead, Goto, Holds, Shape, TypeOK
<1>16. CASE TokenWrite(r)
  BY <1>16, WriteStep, UpdatedType DEF TokenWrite, SaveWrite, Goto, Holds, Stored,
     Live, Shape, TypeOK, Named, Saving
<1>17. CASE Respond(r)
  BY <1>17, QuietStep DEF Respond, Answer, Goto, Holds, Shape, TypeOK
<1>18. CASE Delete(r)
  BY <1>18, WriteStep, EntityType DEF Delete, SoftDelete, Answer, Goto, Holds,
     Stored, Live, Shape, TypeOK, Named
<1>19. CASE RevokeRead(r)
  BY <1>19, QuietStep DEF RevokeRead, SaveRead, Goto, Holds, Shape, TypeOK
<1>20. CASE RevokeWrite(r)
  BY <1>20, WriteStep, UpdatedType DEF RevokeWrite, SaveWrite, Answer, Goto, Holds,
     Stored, Live, Shape, TypeOK, Named, Saving
<1>21. CASE Fail(r)
  BY <1>21, QuietStep DEF Fail, Answer, Goto, Holds, Shape, TypeOK
<1>22. CASE LockedOut(r)
  BY <1>22, QuietStep DEF LockedOut, Answer, Goto, Holds, Shape, TypeOK
<1>23. QED
  BY <1>2, <1>3, <1>4, <1>5, <1>6, <1>7, <1>8, <1>9, <1>10, <1>11, <1>12, <1>13,
     <1>14, <1>15, <1>16, <1>17, <1>18, <1>19, <1>20, <1>21, <1>22
     DEF Request, Step

-----------------------------------------------------------------------------
(* The sessions implement their life cycle. *)

LEMMA StatusStep == Shape /\ RowStep => Lifecycle!Next
<1> SUFFICES ASSUME Shape, RowStep PROVE Lifecycle!Next
  OBVIOUS
<1>1. \A s \in Req : Status(s) \in Lifecycle!Stage /\ Status(s)' \in Lifecycle!Stage
  BY DEF Status, Lifecycle!Stage
<1>2. ASSUME NEW s \in Req
      PROVE  \/ Status(s) = "unborn" /\ Status(s)' = "live"
             \/ Status(s) = "live" /\ Status(s)' \in {"limbo", "dead"}
             \/ Status(s) = "limbo" /\ Status(s)' \in {"live", "dead"}
             \/ Status(s)' = Status(s)
  BY DEF Status, RowStep, Held, Live
<1>3. QED
  BY <1>1, <1>2 DEF Lifecycle!Next, Lifecycle!Insert, Lifecycle!Delete,
     Lifecycle!Revive, Lifecycle!Settle

LEMMA SafeLifecycle == Safety => LifecycleSafety
<1>1. Init => Lifecycle!Init
  BY DEF Init, Lifecycle!Init, Status, Stored
<1>2. Shape /\ [Next]_vars => Lifecycle!Next
  BY NextRowStep, StatusStep
<1>3. QED
  BY <1>1, <1>2, SafeShape, PTL DEF Safety, LifecycleSafety, Lifecycle!Safety

\* A deleted session that no request read before its deletion stays deleted:
\* the sessions implement the safety part of SessionLifecycle.
THEOREM ImplementsLifecycle == Spec => LifecycleSafety
BY SafeLifecycle, PTL DEF Spec

-----------------------------------------------------------------------------
(* Requests change only the sessions of their own user. *)

OwnStep ==
    \A r, s \in Req :
        pc'[r] # pc[r] /\ session'[s] # session[s]
            => session'[s].user = Actor(r)

\* A step of r that changes, if anything, sessions of the user r acts for.
LEMMA OwnStepOf ==
  ASSUME NEW r \in Req,
         \A q \in Req : q # r => pc'[q] = pc[q],
         \A s \in Req : session'[s] # session[s] => session'[s].user = Actor(r)
  PROVE  OwnStep
BY DEF OwnStep

LEMMA NextOwnStep == Shape /\ [Next]_vars => OwnStep
<1> SUFFICES ASSUME Shape, [Next]_vars PROVE OwnStep
  OBVIOUS
<1> USE NoneAssumption
<1>1. CASE UNCHANGED session
  BY <1>1 DEF OwnStep
<1> SUFFICES ASSUME NEW r \in Req, Request(r) \/ Step(r) \/ Fail(r),
                    session' # session
             PROVE  OwnStep
  BY <1>1 DEF Next, vars
<1>2. ASSUME NEW t \in Req, NEW ids \in SUBSET Req, DeleteSessions(r, t, ids)
      PROVE  OwnStep
  BY <1>2, OwnStepOf, EntityType DEF DeleteSessions, SoftDelete, Arrive, Goto,
     Actor, Stored, Shape, TypeOK
<1>3. CASE Create(r)
  BY <1>3, OwnStepOf DEF Create, Goto, Actor, Shape, TypeOK
<1>4. CASE MarkWrite(r)
  BY <1>4, OwnStepOf, UpdatedType DEF MarkWrite, SaveWrite, Goto, Actor, Shape,
     TypeOK, Named, Saving
<1>5. CASE TokenWrite(r)
  BY <1>5, OwnStepOf, UpdatedType DEF TokenWrite, SaveWrite, Goto, Actor, Shape,
     TypeOK, Named, Saving
<1>6. CASE Delete(r)
  BY <1>6, OwnStepOf, EntityType DEF Delete, SoftDelete, Answer, Goto, Actor,
     Shape, TypeOK, Named
<1>7. CASE RevokeWrite(r)
  BY <1>7, OwnStepOf, UpdatedType DEF RevokeWrite, SaveWrite, Answer, Goto, Actor,
     Shape, TypeOK, Named, Saving
<1>8. QED
  BY <1>2, <1>3, <1>4, <1>5, <1>6, <1>7
     DEF Request, Step, Login, RefreshValid, RefreshInvalid, Logout,
         UpdateOrDeleteUser, LockedOut, Refresh, FindCurrent, CountSessions, Limit,
         MarkRead, TokenRead, Respond, RevokeRead, Fail

LEMMA SafeOwn == Safety => OwnSessionsOnly
<1>1. OwnStep => [\A r, s \in Req :
                     pc'[r] # pc[r] /\ session'[s] # session[s]
                         => session'[s].user = Actor(r)]_vars
  BY DEF OwnStep
<1>2. QED
  BY <1>1, SafeShape, NextOwnStep, PTL DEF Safety, OwnSessionsOnly

\* No request changes a session of a user other than the one it is
\* authenticated as.
THEOREM OwnSessions == Spec => OwnSessionsOnly
BY SafeOwn, PTL DEF Spec

-----------------------------------------------------------------------------
(* The number of active sessions. *)

\* The sessions of a user that are live, may be revived, or will be created by
\* a request that has passed the check of the limit.
Potential(u) ==
    LiveOf(u)
        \cup {s \in Req : Stored(s) /\ session[s].user = u /\ Held(s)}
        \cup {r \in Req : pc[r] = "create" /\ call[r].user = u}

\* The number of requests in flight is bounded as they arrive.
FewInFlight == IsFiniteSet(InFlight) /\ Cardinality(InFlight) <= MaxConcurrent

\* The limit holds for the potential sessions, which no step but the check of
\* the limit adds to.
LimitInv ==
    MaxActiveSessions <= PageSize =>
        \A u \in User :
            /\ IsFiniteSet(Potential(u))
            /\ Cardinality(Potential(u)) <= MaxActiveSessions + MaxConcurrent - 1

LEMMA InitLimit == Init => FewInFlight /\ LimitInv
<1> SUFFICES ASSUME Init PROVE FewInFlight /\ LimitInv
  OBVIOUS
<1>1. InFlight = {}
  BY DEF Init, InFlight, Working
<1>2. \A u \in User : Potential(u) = {}
  BY DEF Init, Potential, LiveOf, Live, Stored, Held
<1>3. QED
  BY <1>1, <1>2, FS_EmptySet, BoundAssumption DEF FewInFlight, LimitInv

LEMMA NextFewInFlight == Shape /\ FewInFlight /\ [Next]_vars => FewInFlight'
<1> SUFFICES ASSUME Shape, FewInFlight, [Next]_vars PROVE FewInFlight'
  OBVIOUS
<1>1. CASE InFlight' \subseteq InFlight
  BY <1>1, FS_Subset, FS_CardinalityType, BoundAssumption DEF FewInFlight
<1>2. ASSUME NEW r \in Req, Arrive(r), InFlight' \subseteq InFlight \cup {r}
      PROVE  FewInFlight'
  <2>1. /\ IsFiniteSet(InFlight \cup {r})
        /\ Cardinality(InFlight \cup {r}) <= Cardinality(InFlight) + 1
    BY FS_AddElement, FS_CardinalityType DEF FewInFlight
  <2>2. Cardinality(InFlight) < MaxConcurrent
    BY <1>2 DEF Arrive
  <2>3. IsFiniteSet(InFlight') /\ Cardinality(InFlight') <= Cardinality(InFlight \cup {r})
    BY <1>2, <2>1, FS_Subset
  <2>4. QED
    BY <2>1, <2>2, <2>3, FS_CardinalityType, BoundAssumption DEF FewInFlight
<1>3. CASE UNCHANGED vars
  BY <1>1, <1>3 DEF vars, InFlight
<1>4. ASSUME NEW r \in Req, Request(r)
      PROVE  Arrive(r) /\ InFlight' \subseteq InFlight \cup {r}
  BY <1>4 DEF Request, Login, RefreshValid, RefreshInvalid, Logout, DeleteSessions,
     UpdateOrDeleteUser, Goto, InFlight, Shape, TypeOK
<1>5. ASSUME NEW r \in Req, Step(r) \/ Fail(r)
      PROVE  InFlight' \subseteq InFlight
  BY <1>5 DEF Step, Fail, LockedOut, Refresh, FindCurrent, CountSessions, Limit, Create,
     MarkRead, MarkWrite, TokenRead, TokenWrite, Respond, Delete, RevokeRead,
     RevokeWrite, Answer, Goto, InFlight, Working, Shape, TypeOK
<1>6. QED
  BY <1>1, <1>2, <1>3, <1>4, <1>5 DEF Next

\* Only the check of the limit makes a request ready to create a session.
LEMMA PendingStep ==
  ASSUME Shape, [Next]_vars, NEW q \in Req, pc'[q] = "create"
  PROVE  \/ pc[q] = "create" /\ call'[q] = call[q]
         \/ pc[q] # "create" /\ CountSessions(q)
<1>1. CASE UNCHANGED vars
  BY <1>1 DEF vars
<1>2. ASSUME NEW r \in Req, Request(r)
      PROVE  pc[q] = "create" /\ call'[q] = call[q]
  <2>1. pc'[r] # "create" /\ (q # r => pc'[q] = pc[q])
    BY <1>2 DEF Request, Login, RefreshValid, RefreshInvalid, Logout,
       DeleteSessions, UpdateOrDeleteUser, Goto, Shape, TypeOK
  <2>2. q # r => call'[q] = call[q]
    BY <1>2 DEF Request, Login, RefreshValid, RefreshInvalid, Logout,
       DeleteSessions, UpdateOrDeleteUser, Shape, TypeOK
  <2>3. QED
    BY <2>1, <2>2
<1>3. ASSUME NEW r \in Req, Step(r) \/ Fail(r), ~CountSessions(r)
      PROVE  pc[q] = "create" /\ call'[q] = call[q]
  BY <1>3 DEF Step, Fail, LockedOut, Refresh, FindCurrent, Limit, Create, MarkRead, MarkWrite,
     TokenRead, TokenWrite, Respond, Delete, RevokeRead, RevokeWrite, Answer, Goto,
     Shape, TypeOK
<1>4. ASSUME NEW r \in Req, CountSessions(r)
      PROVE  \/ pc[q] = "create" /\ call'[q] = call[q]
             \/ pc[q] # "create" /\ CountSessions(q)
  BY <1>4 DEF CountSessions, Goto, Shape, TypeOK
<1>5. QED
  BY <1>1, <1>2, <1>3, <1>4 DEF Next

\* When a request passes the check there are fewer live sessions than the limit
\* allows; each request in flight adds at most one potential session to them.
LEMMA CheckStep ==
  ASSUME Shape, FewInFlight, NEW r \in Req, CountSessions(r), pc'[r] = "create",
         MaxActiveSessions <= PageSize,
         NEW u \in User, call[r].user = u, IsFiniteSet(Potential(u))
  PROVE  /\ IsFiniteSet(Potential(u)')
         /\ Cardinality(Potential(u)') <= MaxActiveSessions + MaxConcurrent - 1
<1> DEFINE brings == [q \in InFlight |-> IF pc'[q] = "create" THEN q ELSE sid[q]]
           extra == {brings[q] : q \in InFlight}
<1>1. IsFiniteSet(LiveOf(u)) /\ Cardinality(LiveOf(u)) \in Nat
  BY FS_Subset, FS_CardinalityType DEF Potential
<1>2. Cardinality(LiveOf(u)) <= MaxActiveSessions - 1
  <2> DEFINE n == Cardinality(LiveOf(u))
             items == IF n < PageSize THEN n ELSE PageSize
  <2>1. ~(items >= MaxActiveSessions)
    <3>1. pc'[r] = IF items >= MaxActiveSessions THEN "limiting" ELSE "create"
      BY DEF CountSessions, Goto, Shape, TypeOK
    <3>2. QED
      <4> HIDE DEF items
      <4> QED BY <3>1
  <2>2. QED
    BY <1>1, <2>1, BoundAssumption
<1>3. IsFiniteSet(extra) /\ Cardinality(extra) <= Cardinality(InFlight)
  <2>1. brings \in Surjection(InFlight, extra)
    BY DEF Surjection
  <2>2. QED
    BY <2>1, FS_Surjection DEF FewInFlight
<1>4. Potential(u)' \subseteq LiveOf(u) \cup extra
  <2>1. LiveOf(u)' = LiveOf(u)
    BY DEF CountSessions, LiveOf, Live, Stored
  <2>2. ASSUME NEW s \in Req, Held(s)'
        PROVE  s \in extra
    <3>1. PICK q \in Req : Holds(q, s)'
      BY <2>2 DEF Held
    <3>2. q \in InFlight /\ pc'[q] # "create" /\ sid[q] = s
      BY <3>1 DEF Holds, CountSessions, Goto, InFlight, Working, Shape, TypeOK
    <3>3. QED
      BY <3>2
  <2>3. ASSUME NEW q \in Req, pc'[q] = "create"
        PROVE  q \in extra
    <3>1. q \in InFlight
      BY <2>3 DEF CountSessions, Goto, InFlight, Working, Shape, TypeOK
    <3>2. QED
      BY <2>3, <3>1
  <2>4. QED
    BY <2>1, <2>2, <2>3 DEF Potential
<1>5. /\ IsFiniteSet(LiveOf(u) \cup extra)
      /\ Cardinality(LiveOf(u) \cup extra)
           <= Cardinality(LiveOf(u)) + Cardinality(extra)
  <2> HIDE DEF extra
  <2>1. /\ IsFiniteSet(LiveOf(u) \cup extra)
        /\ Cardinality(LiveOf(u) \cup extra) =
              Cardinality(LiveOf(u)) + Cardinality(extra)
                - Cardinality(LiveOf(u) \cap extra)
    BY <1>1, <1>3, FS_Union
  <2>2. IsFiniteSet(LiveOf(u) \cap extra)
    BY <1>1, FS_Subset
  <2>3. QED
    BY <1>1, <1>3, <2>1, <2>2, FS_CardinalityType
<1>6. /\ IsFiniteSet(Potential(u)')
      /\ Cardinality(Potential(u)') <= Cardinality(LiveOf(u) \cup extra)
  <2> HIDE DEF extra
  <2> QED BY <1>4, <1>5, FS_Subset
<1>7. /\ Cardinality(extra) \in Nat /\ Cardinality(InFlight) \in Nat
      /\ Cardinality(LiveOf(u) \cup extra) \in Nat
      /\ Cardinality(Potential(u)') \in Nat
  <2> HIDE DEF extra
  <2> QED BY <1>3, <1>5, <1>6, FS_CardinalityType DEF FewInFlight
<1>8. QED
  <2> HIDE DEF extra
  <2> QED BY <1>1, <1>2, <1>3, <1>5, <1>6, <1>7, BoundAssumption DEF FewInFlight

LEMMA NextLimit ==
  Shape /\ Shape' /\ FewInFlight /\ LimitInv /\ [Next]_vars => LimitInv'
<1> SUFFICES ASSUME Shape, Shape', FewInFlight, LimitInv, [Next]_vars,
                    MaxActiveSessions <= PageSize, NEW u \in User
             PROVE  /\ IsFiniteSet(Potential(u)')
                    /\ Cardinality(Potential(u)')
                         <= MaxActiveSessions + MaxConcurrent - 1
  BY DEF LimitInv
<1>1. /\ IsFiniteSet(Potential(u))
      /\ Cardinality(Potential(u)) <= MaxActiveSessions + MaxConcurrent - 1
  BY DEF LimitInv
<1>2. CASE \E r \in Req : /\ pc'[r] = "create" /\ CountSessions(r)
                           /\ call[r].user = u
  BY <1>1, <1>2, CheckStep
<1>3. CASE ~\E r \in Req : /\ pc'[r] = "create" /\ CountSessions(r)
                            /\ call[r].user = u
  <2>1. ASSUME NEW q \in Req, pc'[q] = "create", call'[q].user = u
        PROVE  pc[q] = "create" /\ call[q].user = u
    <3>1. CASE CountSessions(q)
      BY <1>3, <2>1, <3>1 DEF CountSessions
    <3>2. CASE ~CountSessions(q)
      BY <2>1, <3>2, PendingStep
    <3>3. QED
      BY <3>1, <3>2
  <2>2. ASSUME NEW s \in Req, Stored(s)', session'[s].user = u,
               Live(s)' \/ Held(s)'
        PROVE  s \in Potential(u)
    <3>1. RowStep
      BY NextRowStep
    <3>2. CASE Stored(s)
      BY <2>2, <3>1, <3>2 DEF RowStep, Potential, LiveOf
    <3>3. CASE ~Stored(s)
      BY <2>2, <3>1, <3>3 DEF RowStep, Potential
    <3>4. QED
      BY <3>2, <3>3
  <2>3. Potential(u)' \subseteq Potential(u)
    <3>1. ASSUME NEW s \in Potential(u)'
          PROVE  s \in Potential(u)
      <4>1. s \in Req
        BY DEF Potential, LiveOf
      <4>2. CASE Stored(s)' /\ session'[s].user = u /\ (Live(s)' \/ Held(s)')
        BY <2>2, <4>1, <4>2
      <4>3. CASE pc'[s] = "create" /\ call'[s].user = u
        BY <2>1, <4>1, <4>3 DEF Potential
      <4>4. QED
        BY <4>2, <4>3 DEF Potential, LiveOf, Live
    <3>2. QED
      BY <3>1
  <2>4. QED
    BY <1>1, <2>3, FS_Subset, FS_CardinalityType, BoundAssumption
<1>4. QED
  BY <1>2, <1>3

LEMMA SafeLimit == Safety => []SessionLimit
<1>1. Shape /\ FewInFlight /\ LimitInv => SessionLimit
  <2> SUFFICES ASSUME LimitInv, MaxActiveSessions <= PageSize, NEW u \in User
               PROVE  Cardinality(LiveOf(u))
                        <= MaxActiveSessions + MaxConcurrent - 1
    BY DEF SessionLimit
  <2>1. /\ IsFiniteSet(Potential(u))
        /\ Cardinality(Potential(u)) <= MaxActiveSessions + MaxConcurrent - 1
    BY DEF LimitInv
  <2>2. LiveOf(u) \in SUBSET Potential(u)
    BY DEF Potential
  <2>3. QED
    BY <2>1, <2>2, FS_Subset, FS_CardinalityType, BoundAssumption
<1>2. Init => FewInFlight /\ LimitInv
  BY InitLimit
<1>3. /\ Shape /\ Shape' /\ FewInFlight /\ LimitInv /\ [Next]_vars
        => FewInFlight' /\ LimitInv'
  BY NextFewInFlight, NextLimit
<1>4. QED
  BY <1>1, <1>2, <1>3, SafeShape, PTL DEF Safety

\* However the requests interleave, fail and revive sessions, the number of a
\* user's active sessions exceeds the limit by less than the number of requests
\* in flight.
THEOREM LimitHolds == Spec => []SessionLimit
BY SafeLimit, PTL DEF Spec

-----------------------------------------------------------------------------
(* A live session holds a token its client can use. *)

NoFailure == \A r \in Req : pc[r] # "failed"

\* The tokens of request t reached a row: they were, or will be, sent out for
\* the session s.
Sent(t, s) == t \in Req /\ pc[t] \in {"respond", "granted"} /\ sid[t] = s

\* The refresh r has looked for its session for the last time.
Renewing(r) ==
    pc[r] \in {"count", "create", "markRead", "markWrite", "tokenRead",
               "tokenWrite", "respond", "granted"}

\* The refresh token t is being exchanged, or was.
Used(t) == \E r \in Req : /\ call[r] # None /\ call[r].presents = t
                          /\ Renewing(r)

\* A token in a row was sent out for that row.
RowTokens ==
    \A s \in Req : Stored(s) /\ session[s].token # None
                       => Sent(session[s].token, s)

\* A token in an entity was sent out, too, unless it is about to be saved; then
\* it differs from that of the row.  A revocation writes deleted_at, whatever
\* the row holds.  A refresh presents a token that was sent,
\* and until it has looked for it, works on that token's session.
RequestTokens(r) ==
    /\ pc[r] \in Saving \ {"tokenWrite"} /\ snap[r].token # None
         => Sent(snap[r].token, sid[r])
    /\ pc[r] = "tokenWrite" => snap[r].token = r /\ "token" \in dirty[r]
    /\ pc[r] = "revokeWrite" => "deleted" \in dirty[r]
    /\ call[r] # None /\ call[r].presents # None =>
         LET t == call[r].presents
         IN /\ t \in Req /\ pc[t] = "granted"
            /\ pc[r] \in {"refresh", "find"} =>
                 /\ sid[r] = sid[t] /\ sid[r] \in Req /\ Stored(sid[r])
                 /\ session[sid[r]].user = call[r].user

\* The last save of a session by a request that holds it sets a token, and one
\* that was not used.
RestTokens ==
    \A s \in Req : Live(s) /\ ~Held(s) =>
        session[s].token # None /\ ~Used(session[s].token)

TokenInv == RowTokens /\ (\A r \in Req : RequestTokens(r)) /\ RestTokens

\* Sent(t, s)'.
SentNext(t, s) == t \in Req /\ pc'[t] \in {"respond", "granted"} /\ sid'[t] = s

\* A step of r alone.
Alone(r) ==
    \A q \in Req \ {r} : /\ pc'[q] = pc[q] /\ sid'[q] = sid[q]
                         /\ call'[q] = call[q] /\ snap'[q] = snap[q]
                         /\ dirty'[q] = dirty[q]

\* What was sent out stays so, unless r fails.
LEMMA SentStays ==
  ASSUME NEW r \in Req, Alone(r), pc[r] # "granted",
         pc[r] = "respond" => pc'[r] = "granted" /\ sid'[r] = sid[r]
  PROVE  /\ \A t, s \in Req : Sent(t, s) => SentNext(t, s)
         /\ \A t \in Req : pc[t] = "granted" => pc'[t] = "granted" /\ sid'[t] = sid[t]
BY DEF Alone, Sent, SentNext

\* A step of r puts no token into a row but one that was sent out for it, and
\* leaves no row at rest but with such a token.
LEMMA TokenStep ==
  ASSUME Shape, TokenInv, RowStep, NEW r \in Req, Alone(r), pc[r] # "granted",
         pc[r] = "respond" => pc'[r] = "granted" /\ sid'[r] = sid[r],
         RequestTokens(r)',
         \A s \in Req : Stored(s)' =>
            \/ session'[s].token = None
            \/ Stored(s) /\ session'[s].token = session[s].token
            \/ SentNext(session'[s].token, s),
         \A s \in Req : Live(s)' /\ ~Held(s)' =>
            \/ /\ Live(s) /\ ~Held(s) /\ session'[s].token = session[s].token
               /\ call'[r] # None /\ call'[r].presents = session[s].token
                    /\ Renewing(r)' => call'[r] = call[r] /\ Renewing(r)
            \/ session'[s].token = r /\ pc[r] = "tokenWrite" /\ pc'[r] = "respond"
  PROVE  TokenInv'
<1>1. /\ \A t, s \in Req : Sent(t, s) => SentNext(t, s)
      /\ \A t \in Req : pc[t] = "granted" => pc'[t] = "granted" /\ sid'[t] = sid[t]
  BY SentStays
<1>2. RowTokens'
  <2> SUFFICES ASSUME NEW s \in Req, Stored(s)', session'[s].token # None
               PROVE  SentNext(session'[s].token, s)
    BY DEF RowTokens, Stored, Sent, SentNext
  <2>1. CASE Stored(s) /\ session'[s].token = session[s].token
    <3>1. Sent(session[s].token, s) /\ session[s].token \in Req
      BY <2>1 DEF TokenInv, RowTokens, Sent
    <3>2. QED
      BY <1>1, <2>1, <3>1
  <2>2. QED
    BY <2>1
<1>3. ASSUME NEW q \in Req PROVE RequestTokens(q)'
  <2>1. CASE q = r
    BY <2>1
  <2>2. CASE q # r
    <3>1. /\ pc'[q] = pc[q] /\ sid'[q] = sid[q] /\ call'[q] = call[q]
          /\ snap'[q] = snap[q] /\ dirty'[q] = dirty[q]
      BY <2>2 DEF Alone
    <3>2. RequestTokens(q)
      BY DEF TokenInv
    <3>3. pc'[q] \in Saving \ {"tokenWrite"} /\ snap'[q].token # None
             => SentNext(snap'[q].token, sid'[q])
      BY <1>1, <3>1, <3>2 DEF RequestTokens, Sent, SentNext, Shape, Saving, Named
    <3>4. call'[q] # None /\ call'[q].presents # None =>
             LET t == call'[q].presents
             IN /\ t \in Req /\ pc'[t] = "granted"
                /\ pc'[q] \in {"refresh", "find"} =>
                     /\ sid'[q] = sid'[t] /\ sid'[q] \in Req /\ Stored(sid[q])'
                     /\ session'[sid'[q]].user = call'[q].user
      BY <1>1, <3>1, <3>2 DEF RequestTokens, RowStep
    <3>5. /\ pc'[q] = "tokenWrite" => snap'[q].token = q /\ "token" \in dirty'[q]
          /\ pc'[q] = "revokeWrite" => "deleted" \in dirty'[q]
      BY <3>1, <3>2 DEF RequestTokens
    <3>6. QED
      BY <3>1, <3>3, <3>4, <3>5 DEF RequestTokens, Stored, Sent, SentNext
  <2>3. QED
    BY <2>1, <2>2
<1>4. RestTokens'
  <2> SUFFICES ASSUME NEW s \in Req, Live(s)', ~Held(s)'
               PROVE  session'[s].token # None /\ ~Used(session[s].token)'
    BY DEF RestTokens
  <2>1. CASE session'[s].token = r /\ pc[r] = "tokenWrite" /\ pc'[r] = "respond"
    <3>1. ASSUME NEW q \in Req, call'[q] # None, call'[q].presents = r
          PROVE  FALSE
      <4>1. call'[q].presents # None /\ pc[r] # "granted"
        BY <2>1, <3>1, NoneAssumption
      <4>2. RequestTokens(q) /\ RequestTokens(r)'
        BY DEF TokenInv
      <4>3. CASE q = r
        BY <2>1, <3>1, <4>1, <4>2, <4>3 DEF RequestTokens
      <4>4. CASE q # r
        BY <3>1, <4>1, <4>2, <4>4 DEF RequestTokens, Alone
      <4>5. QED
        BY <4>3, <4>4
    <3>2. QED
      BY <2>1, <3>1, NoneAssumption DEF Used
  <2>2. CASE /\ Live(s) /\ ~Held(s) /\ session'[s].token = session[s].token
             /\ call'[r] # None /\ call'[r].presents = session[s].token
                  /\ Renewing(r)' => call'[r] = call[r] /\ Renewing(r)
    <3>1. session[s].token # None /\ ~Used(session[s].token)
      BY <2>2 DEF TokenInv, RestTokens
    <3>2. ASSUME NEW q \in Req, call'[q] # None,
                 call'[q].presents = session[s].token, Renewing(q)'
          PROVE  call'[q] = call[q] /\ Renewing(q)
      BY <2>2, <3>2 DEF Alone, Renewing
    <3>3. QED
      BY <2>2, <3>1, <3>2 DEF Used
  <2>3. QED
    BY <2>1, <2>2
<1>5. QED
  BY <1>2, <1>3, <1>4 DEF TokenInv

\* The token of a row after the UPDATE of a save.
LEMMA UpdatedToken ==
  ASSUME NEW row \in Row, NEW entity \in Row, NEW columns \in SUBSET Column
  PROVE  Updated(row, entity, columns).token =
           IF "token" \in columns THEN entity.token ELSE row.token
BY DEF Updated, Row

\* The same for a step that leaves the table alone and lets go of no session.
LEMMA QuietTokens ==
  ASSUME Shape, TokenInv, RowStep, NEW r \in Req, Alone(r), UNCHANGED session,
         pc[r] # "granted",
         pc[r] = "respond" => pc'[r] = "granted" /\ sid'[r] = sid[r],
         RequestTokens(r)',
         \A s \in Req : Holds(r, s) => Holds(r, s)',
         \A s \in Req : Live(s) /\ ~Held(s) /\ ~Held(s)' =>
            (call'[r] # None /\ call'[r].presents = session[s].token
               /\ Renewing(r)' => call'[r] = call[r] /\ Renewing(r))
  PROVE  TokenInv'
<1>1. ASSUME NEW s \in Req, ~Held(s)' PROVE ~Held(s)
  BY <1>1 DEF Alone, Held, Holds
<1>2. QED
  BY <1>1, TokenStep DEF Live, Stored

LEMMA NextTokens ==
  Shape /\ TokenInv /\ RowStep /\ Next /\ NoFailure' => TokenInv'
<1> SUFFICES ASSUME Shape, TokenInv, RowStep, NoFailure', NEW r \in Req,
                    Request(r) \/ Step(r) \/ Fail(r)
             PROVE  TokenInv'
  BY DEF Next
<1> USE NoneAssumption
<1>a. RequestTokens(r)
  BY DEF TokenInv
<1>1. CASE Request(r)
  <2>1. Alone(r) /\ pc[r] = "idle" /\ ~Renewing(r)'
    <3>1. /\ pc[r] = "idle"
          /\ pc'[r] \in {"find", "refresh", "ended", "delete", "revokeRead"}
          /\ \A q \in Req \ {r} : pc'[q] = pc[q]
      BY <1>1 DEF Request, Login, RefreshValid, RefreshInvalid, Logout,
         DeleteSessions, UpdateOrDeleteUser, Arrive, Goto, Shape, TypeOK
    <3>2. \A q \in Req \ {r} : call'[q] = call[q]
      BY <1>1 DEF Request, Login, RefreshValid, RefreshInvalid, Logout,
         DeleteSessions, UpdateOrDeleteUser, Shape, TypeOK
    <3>3. \A q \in Req \ {r} : sid'[q] = sid[q]
      BY <1>1 DEF Request, Login, RefreshValid, RefreshInvalid, Logout,
         DeleteSessions, UpdateOrDeleteUser, Shape, TypeOK
    <3>4. \A q \in Req \ {r} : snap'[q] = snap[q] /\ dirty'[q] = dirty[q]
      BY <1>1 DEF Request, Login, RefreshValid, RefreshInvalid, Logout,
         DeleteSessions, UpdateOrDeleteUser, Shape, TypeOK
    <3>5. QED
      BY <3>1, <3>2, <3>3, <3>4 DEF Alone, Renewing
  <2>2. ASSUME NEW u \in User, NEW c \in Context, Login(r, u, c)
        PROVE  RequestTokens(r)' /\ UNCHANGED session
    BY <2>2 DEF Login, Goto, RequestTokens, Saving, Shape, TypeOK
  <2>3. ASSUME NEW t \in Req, NEW c \in Context, RefreshValid(r, t, c)
        PROVE  RequestTokens(r)' /\ UNCHANGED session
    <3>1. Subject(t) = session[sid[t]].user /\ sid[t] \in Req /\ Stored(sid[t])
      BY <2>3, SubjectType DEF RefreshValid, Stored
    <3>2. t # r /\ pc[t] = "granted"
      BY <2>1, <2>3 DEF RefreshValid
    <3>3. QED
      BY <2>3, <3>1, <3>2 DEF RefreshValid, Goto, RequestTokens, Saving, Stored,
         Shape, TypeOK
  <2>4. ASSUME NEW t \in Req, RefreshInvalid(r, t)
        PROVE  RequestTokens(r)' /\ UNCHANGED session
    BY <2>1, <2>4, <1>a DEF RefreshInvalid, Goto, RequestTokens, Saving, Shape, TypeOK
  <2>5. ASSUME NEW t \in Req, Logout(r, t)
        PROVE  RequestTokens(r)' /\ UNCHANGED session
    BY <2>1, <2>5, <1>a DEF Logout, Goto, RequestTokens, Saving, Shape, TypeOK
  <2>6. ASSUME NEW t \in Req, UpdateOrDeleteUser(r, t)
        PROVE  RequestTokens(r)' /\ UNCHANGED session
    BY <2>1, <2>6, <1>a DEF UpdateOrDeleteUser, ByAuthUser, LiveOf, Goto,
       RequestTokens, RowTokens, TokenInv, Sent, Stored, Live, Saving, Shape, TypeOK
  <2>7. ASSUME NEW t \in Req, NEW ids \in SUBSET Req, DeleteSessions(r, t, ids)
        PROVE  TokenInv'
    <3>1. RequestTokens(r)'
      BY <2>7 DEF DeleteSessions, Goto, RequestTokens, Saving, Shape, TypeOK
    <3>2. \A s \in Req : Stored(s)' =>
             Stored(s) /\ session'[s].token = session[s].token
      BY <2>7 DEF DeleteSessions, SoftDelete, SetDeleted, Stored, Row, Shape, TypeOK
    <3>3. \A s \in Req : Live(s)' => Live(s)
      BY <2>7, EntityType DEF DeleteSessions, SoftDelete, Live, Stored, Shape, TypeOK
    <3>4. \A s \in Req : Held(s)' <=> Held(s)
      BY <2>1, <2>7 DEF DeleteSessions, Goto, Held, Holds, Alone, Shape, TypeOK
    <3>5. \A s \in Req : Live(s)' => Stored(s)'
      BY DEF Live
    <3>6. QED
      BY <2>1, <3>1, <3>2, <3>3, <3>4, <3>5, TokenStep
  <2>8. CASE RequestTokens(r)' /\ UNCHANGED session
    <3>1. \A s \in Req : ~Holds(r, s)
      BY <2>1 DEF Holds
    <3>2. QED
      BY <2>1, <2>8, <3>1, QuietTokens
  <2>9. QED
    BY <1>1, <2>2, <2>3, <2>4, <2>5, <2>6, <2>7, <2>8 DEF Request
<1>2. ASSUME Step(r)
      PROVE  /\ Alone(r) /\ pc[r] # "granted"
             /\ pc[r] = "respond" => pc'[r] = "granted" /\ sid'[r] = sid[r]
  <2>1. pc[r] # "granted" /\ \A q \in Req \ {r} : pc'[q] = pc[q]
    BY <1>2 DEF Step, LockedOut, Refresh, FindCurrent, CountSessions, Limit,
       Create, MarkRead, MarkWrite, TokenRead, TokenWrite, Respond, Delete,
       RevokeRead, RevokeWrite, Answer, Goto, Shape, TypeOK
  <2>2. \A q \in Req \ {r} : call'[q] = call[q] /\ sid'[q] = sid[q]
    BY <1>2 DEF Step, LockedOut, Refresh, FindCurrent, CountSessions, Limit,
       Create, MarkRead, MarkWrite, TokenRead, TokenWrite, Respond, Delete,
       RevokeRead, RevokeWrite, Answer, Shape, TypeOK
  <2>3. \A q \in Req \ {r} : snap'[q] = snap[q] /\ dirty'[q] = dirty[q]
    BY <1>2 DEF Step, LockedOut, Refresh, FindCurrent, CountSessions, Limit,
       Create, MarkRead, MarkWrite, TokenRead, TokenWrite, Respond, Delete,
       RevokeRead, RevokeWrite, SaveRead, Answer, Shape, TypeOK
  <2>4. pc[r] = "respond" => pc'[r] = "granted" /\ sid'[r] = sid[r]
    BY <1>2 DEF Step, LockedOut, Refresh, FindCurrent, CountSessions, Limit,
       Create, MarkRead, MarkWrite, TokenRead, TokenWrite, Respond, Delete,
       RevokeRead, RevokeWrite, Answer, Goto, Shape, TypeOK
  <2>5. QED
    BY <2>1, <2>2, <2>3, <2>4 DEF Alone
<1>3. CASE LockedOut(r) \/ Refresh(r)
  <2>1. RequestTokens(r)' /\ UNCHANGED session
    BY <1>3, <1>a DEF LockedOut, Refresh, ByAuthUser, LiveOf, Live, Answer, Goto,
       RequestTokens, RowTokens, TokenInv, Sent, Stored, Saving, Named, Shape, TypeOK
  <2>2. ~Renewing(r)' /\ \A s \in Req : ~Holds(r, s)
    BY <1>3 DEF LockedOut, Refresh, Answer, Goto, Renewing, Holds, Shape, TypeOK
  <2>3. QED
    BY <1>2, <1>3, <2>1, <2>2, QuietTokens DEF Step
<1>4. CASE FindCurrent(r)
  <2>1. RequestTokens(r)' /\ UNCHANGED session
    BY <1>4, <1>a DEF FindCurrent, OneOf, CurrentSessions, ContextMatches, LiveOf, Live,
       Goto, RequestTokens, RowTokens, TokenInv, Sent, Stored, Saving, Shape, TypeOK
  <2>2. call' = call /\ \A s \in Req : ~Holds(r, s)
    BY <1>4 DEF FindCurrent, Holds
  <2>3. ASSUME NEW s \in Req, Live(s), ~Held(s), ~Held(s)', call[r] # None,
               call[r].presents = session[s].token
        PROVE  FALSE
    <3>1. session[s].token # None
      BY <2>3 DEF TokenInv, RestTokens
    <3>2. sid[session[s].token] = s
      BY <2>3, <3>1 DEF TokenInv, RowTokens, Sent, Live
    <3>3. sid[r] = s /\ session[s].user = call[r].user
      BY <1>4, <1>a, <2>3, <3>1, <3>2 DEF RequestTokens, FindCurrent
    <3>4. CurrentSessions(r) = {s}
      BY <2>3, <3>3 DEF CurrentSessions, LiveOf
    <3>5. sid'[r] = s /\ pc'[r] = "markRead"
      BY <1>4, <3>4 DEF FindCurrent, OneOf, Goto, Shape, TypeOK
    <3>6. QED
      BY <2>3, <3>5 DEF Held, Holds
  <2>4. QED
    BY <1>2, <1>4, <2>1, <2>2, <2>3, QuietTokens DEF Step
<1>5. CASE CountSessions(r) \/ Limit(r) \/ Respond(r)
  <2>1. RequestTokens(r)' /\ UNCHANGED session
    BY <1>5, <1>a DEF CountSessions, Limit, Respond, Answer, Goto, RequestTokens,
       Saving, Shape, TypeOK
  <2>2. /\ Renewing(r)' => call'[r] = call[r] /\ Renewing(r)
        /\ \A s \in Req : ~Holds(r, s)
    BY <1>5 DEF CountSessions, Limit, Respond, Answer, Goto, Renewing, Holds, Shape, TypeOK
  <2>3. QED
    BY <1>2, <1>5, <2>1, <2>2, QuietTokens DEF Step
<1>6. CASE Create(r)
  <2>1. RequestTokens(r)'
    BY <1>6, <1>a DEF Create, Goto, RequestTokens, Saving, Shape, TypeOK
  <2>2. /\ Held(r)' /\ session'[r].token = None
        /\ \A s \in Req \ {r} : session'[s] = session[s] /\ (Held(s) => Held(s)')
    BY <1>2, <1>6 DEF Step, Create, Goto, Held, Holds, Alone, Shape, TypeOK
  <2>3. call'[r] = call[r] /\ Renewing(r)
    BY <1>6 DEF Create, Renewing
  <2>4. QED
    BY <1>2, <1>6, <2>1, <2>2, <2>3, TokenStep DEF Step, Live, Stored
<1>7. CASE MarkRead(r) \/ TokenRead(r)
  <2>1. RequestTokens(r)' /\ UNCHANGED session
    <3>1. CASE MarkRead(r)
      BY <1>a, <3>1 DEF MarkRead, SaveRead, Goto, RequestTokens, Sent, Saving,
         Stored, Shape, TypeOK
    <3>2. CASE TokenRead(r)
      <4>1. snap[r] \in Row /\ session[sid[r]] \in Row /\ sid[r] \in Req
        BY <3>2 DEF TokenRead, Saving, Named, Shape
      <4>2. session[sid[r]].token # r
        BY <3>2, <4>1 DEF TokenRead, TokenInv, RowTokens, Sent, Stored
      <4>3. SetHashedToken(snap[r], r).token = r
        BY <4>1 DEF SetHashedToken, Row
      <4>4. /\ pc'[r] = "tokenWrite" /\ snap'[r] = SetHashedToken(snap[r], r)
            /\ "token" \in dirty'[r] /\ UNCHANGED <<session, call>>
        BY <3>2, <4>2, <4>3 DEF TokenRead, SaveRead, Differs, Column, Goto, Shape, TypeOK
      <4>5. QED
        BY <1>a, <3>2, <4>3, <4>4 DEF TokenRead, Goto, RequestTokens, Saving, Shape, TypeOK
    <3>3. QED
      BY <1>7, <3>1, <3>2
  <2>2. call' = call /\ Renewing(r) /\ \A s \in Req : Holds(r, s) => Holds(r, s)'
    BY <1>7 DEF MarkRead, TokenRead, Goto, Renewing, Holds, Shape, TypeOK
  <2>3. QED
    BY <1>2, <1>7, <2>1, <2>2, QuietTokens DEF Step
<1>b. ASSUME pc[r] \in Saving, SaveWrite(r)
      PROVE  /\ sid[r] \in Req /\ session[sid[r]] \in Row /\ snap[r] \in Row
             /\ session'[sid[r]].token =
                  IF "token" \in dirty[r] THEN snap[r].token ELSE session[sid[r]].token
             /\ session'[sid[r]].deleted =
                  IF "deleted" \in dirty[r] THEN snap[r].deleted ELSE session[sid[r]].deleted
             /\ \A s \in Req \ {sid[r]} : session'[s] = session[s]
  BY <1>b, UpdatedType, UpdatedToken DEF SaveWrite, Saving, Named, Shape, TypeOK
<1>8. CASE MarkWrite(r)
  <2>1. RequestTokens(r)'
    BY <1>8, <1>a DEF MarkWrite, Goto, RequestTokens, Sent, Saving, Shape, TypeOK
  <2>2. pc[r] \in Saving /\ SaveWrite(r) /\ pc'[r] = "tokenRead" /\ UNCHANGED <<sid, call>>
    BY <1>8 DEF MarkWrite, Saving, Goto, Shape, TypeOK
  <2>3. /\ \A s \in Req : Held(s)' <=> Held(s)
        /\ Held(sid[r])
    BY <1>2, <1>8, <1>b, <2>2 DEF Step, MarkWrite, Held, Holds, Alone
  <2>4. snap[r].token # None => SentNext(snap[r].token, sid[r])
    BY <1>8, <1>a DEF MarkWrite, Goto, RequestTokens, Sent, SentNext, Saving, Shape, TypeOK
  <2>5. \A s \in Req : Stored(s)' =>
           \/ session'[s].token = None
           \/ Stored(s) /\ session'[s].token = session[s].token
           \/ SentNext(session'[s].token, s)
    BY <1>b, <2>2, <2>4 DEF Stored
  <2>6. Renewing(r)
    BY <1>8 DEF MarkWrite, Renewing
  <2>7. QED
    BY <1>2, <1>8, <1>b, <2>1, <2>2, <2>3, <2>5, <2>6, TokenStep DEF Step, Live, Stored
<1>9. CASE TokenWrite(r)
  <2>1. RequestTokens(r)'
    BY <1>9, <1>a DEF TokenWrite, Goto, RequestTokens, Saving, Shape, TypeOK
  <2>2. /\ pc[r] \in Saving /\ SaveWrite(r) /\ UNCHANGED <<sid, call>>
        /\ pc[r] = "tokenWrite" /\ pc'[r] = "respond"
    BY <1>9 DEF TokenWrite, Saving, Goto, Shape, TypeOK
  <2>3. session'[sid[r]].token = r /\ SentNext(r, sid[r])
    BY <1>a, <1>b, <2>2 DEF RequestTokens, SentNext
  <2>4. \A s \in Req \ {sid[r]} : Held(s)' <=> Held(s)
    BY <1>2, <1>9, <2>2 DEF Step, Held, Holds, Alone
  <2>5. Renewing(r)
    BY <2>2 DEF Renewing
  <2>6. QED
    BY <1>2, <1>9, <1>b, <2>1, <2>2, <2>3, <2>4, <2>5, TokenStep DEF Step, Live, Stored
<1>10. CASE Delete(r)
  <2>1. RequestTokens(r)' /\ ~Renewing(r)'
    BY <1>10 DEF Delete, Answer, Goto, RequestTokens, Renewing, Saving, Shape, TypeOK
  <2>2. \A s \in Req : Stored(s)' =>
           Stored(s) /\ session'[s].token = session[s].token
    BY <1>10 DEF Delete, SoftDelete, SetDeleted, Stored, Row, Named, Shape, TypeOK
  <2>3. \A s \in Req : Live(s)' => Live(s) /\ Stored(s)'
    BY <1>10, EntityType DEF Delete, SoftDelete, Live, Stored, Named, Shape, TypeOK
  <2>4. \A s \in Req : Held(s)' <=> Held(s)
    BY <1>2, <1>10 DEF Step, Delete, Answer, Goto, Held, Holds, Alone, Shape, TypeOK
  <2>5. pc[r] # "respond"
    BY <1>10 DEF Delete
  <2>6. QED
    BY <1>2, <1>10, <2>1, <2>2, <2>3, <2>4, <2>5, TokenStep DEF Step
<1>11. CASE RevokeRead(r)
  <2>1. SetRevoked(snap[r]).token = snap[r].token
    BY <1>11 DEF RevokeRead, SetRevoked, Row, Saving, Shape
  <2>2. RequestTokens(r)' /\ UNCHANGED session
    BY <1>11, <1>a, <2>1 DEF RevokeRead, SaveRead, Goto, RequestTokens, Sent, Saving,
       Shape, TypeOK
  <2>3. ~Renewing(r)' /\ \A s \in Req : ~Holds(r, s)
    BY <1>11 DEF RevokeRead, Goto, Renewing, Holds, Shape, TypeOK
  <2>4. QED
    BY <1>2, <1>11, <2>2, <2>3, QuietTokens DEF Step
<1>12. CASE RevokeWrite(r)
  <2>1. RequestTokens(r)' /\ ~Renewing(r)'
    BY <1>12 DEF RevokeWrite, Answer, Goto, RequestTokens, Renewing, Saving, Shape, TypeOK
  <2>2. pc[r] \in Saving /\ SaveWrite(r) /\ snap[r].deleted
    BY <1>12 DEF RevokeWrite, Saving, Shape
  <2>3. snap[r].token # None => SentNext(snap[r].token, sid[r])
    BY <1>12, <1>a DEF RevokeWrite, Answer, Goto, RequestTokens, Sent, SentNext,
       Saving, Shape, TypeOK
  <2>4. \A s \in Req : Stored(s)' =>
           \/ session'[s].token = None
           \/ Stored(s) /\ session'[s].token = session[s].token
           \/ SentNext(session'[s].token, s)
    BY <1>b, <2>2, <2>3 DEF Stored
  <2>5. \A s \in Req : Held(s)' <=> Held(s)
    BY <1>2, <1>12 DEF Step, RevokeWrite, Answer, Goto, Held, Holds, Alone, Shape, TypeOK
  <2>6. \A s \in Req : Live(s)' /\ ~Held(s)' => Live(s) /\ session'[s].token = session[s].token
    <3>1. session'[sid[r]].deleted
      BY <1>12, <1>a, <1>b, <2>2 DEF RevokeWrite, RequestTokens
    <3>2. QED
      BY <1>b, <2>2, <3>1 DEF Live, Stored
  <2>7. QED
    BY <1>2, <1>12, <2>1, <2>2, <2>4, <2>5, <2>6, TokenStep DEF Step
<1>13. CASE Fail(r)
  BY <1>13 DEF Fail, Answer, Goto, NoFailure, Shape, TypeOK
<1>14. QED
  BY <1>1, <1>3, <1>4, <1>5, <1>6, <1>7, <1>8, <1>9, <1>10, <1>11, <1>12, <1>13
     DEF Step

LEMMA SafeTokens == Safety => []FreshToken
<1>1. Init => (NoFailure => TokenInv)
  BY NoneAssumption DEF Init, TokenInv, RowTokens, RequestTokens, RestTokens, Stored, Live, Saving
<1>2. Shape /\ (NoFailure => TokenInv) /\ [Next]_vars => (NoFailure => TokenInv)'
  <2> SUFFICES ASSUME Shape, NoFailure => TokenInv, [Next]_vars, NoFailure'
               PROVE  TokenInv'
    OBVIOUS
  <2>1. NoFailure
    <3> SUFFICES ASSUME NEW q \in Req, pc[q] = "failed" PROVE FALSE
      BY DEF NoFailure
    <3>1. pc'[q] = "failed"
      <4>1. CASE UNCHANGED vars
        BY <4>1 DEF vars
      <4>2. ASSUME NEW r \in Req, Request(r)
            PROVE  pc'[q] = "failed"
        BY <4>2 DEF Request, Login, RefreshValid, RefreshInvalid, Logout,
           DeleteSessions, UpdateOrDeleteUser, Arrive, Goto, Shape, TypeOK
      <4>3. ASSUME NEW r \in Req, Step(r) \/ Fail(r)
            PROVE  pc'[q] = "failed"
        BY <4>3 DEF Step, Fail, InFlight, Working, LockedOut, Refresh, FindCurrent,
           CountSessions, Limit, Create, MarkRead, MarkWrite, TokenRead, TokenWrite,
           Respond, Delete, RevokeRead, RevokeWrite, Answer, Goto, Shape, TypeOK
      <4>4. QED
        BY <4>1, <4>2, <4>3 DEF Next
    <3>2. QED
      BY <3>1 DEF NoFailure
  <2>2. CASE UNCHANGED vars
    BY <2>1, <2>2 DEF vars, TokenInv, RowTokens, RequestTokens, RestTokens, Sent,
       Used, Renewing, Live, Stored, Held, Holds
  <2>3. CASE Next
    BY <2>1, <2>3, NextRowStep, NextTokens
  <2>4. QED
    BY <2>2, <2>3
<1>3. Shape /\ (NoFailure => TokenInv) => FreshToken
  <2> SUFFICES ASSUME Shape, TokenInv, NEW s \in Req, Live(s), ~Held(s)
               PROVE  LET t == session[s].token
                      IN t # None /\ pc[t] \in {"respond", "granted"} /\ ~Spent(t)
    BY DEF NoFailure, FreshToken, Held
  <2>1. session[s].token # None /\ ~Used(session[s].token)
    BY DEF TokenInv, RestTokens
  <2>2. Sent(session[s].token, s)
    BY <2>1 DEF TokenInv, RowTokens, Live
  <2>3. ASSUME NEW r \in Req, pc[r] = "granted", call[r].presents = session[s].token
        PROVE  Used(session[s].token)
    BY <2>3, NoneAssumption DEF Shape, Used, Renewing
  <2>4. QED
    BY <2>1, <2>2, <2>3 DEF Sent, Spent
<1>4. QED
  BY <1>1, <1>2, <1>3, SafeShape, PTL DEF Safety

\* As long as no request stops half-way, a live session no request is about to
\* save holds a token its client can use, whatever refreshes ran concurrently.
THEOREM TokensFresh == Spec => []FreshToken
BY SafeTokens, PTL DEF Spec

=============================================================================
