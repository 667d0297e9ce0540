---------------------------- MODULE AccessProofs ----------------------------
(***************************************************************************)
(* Proofs about Access: its requests do nothing to the sessions and to the *)
(* account that Sessions and Account do not allow, and the deletion of the *)
(* account ends its sessions.                                              *)
(***************************************************************************)
EXTENDS Access, TLAPS

-----------------------------------------------------------------------------
(* What was asked and answered. *)

NeedsToken ==
    {"deleteSession", "deleteSessions", "updateUser", "deleteUser"}

\* A request in flight that needs the token it presented has it.
ApiShape ==
    /\ request \in [Req -> Received \cup {None}]
    /\ reply \in [Req -> Code \cup {None}]
    /\ \A r \in Req : request[r] # None /\ reply[r] = None =>
          (request[r].endpoint \in NeedsToken => request[r].token \in Req)

\* The answers that come with an access token.
Grants == {"AUTHENTICATED", "TOKENS_REFRESHED"}

\* A step of r that asks, waits or answers.
Talk(r) ==
    \/ Waits
    \/ \E e \in Endpoint, t \in Req \cup {None} :
         Receive(r, e, t) /\ (e \in NeedsToken => t \in Req)
    \/ r \in InFlight /\ \E c \in Code : Reply(r, request[r].endpoint, c)
    \/ \E e \in Endpoint, c \in Code : Arrive(r) /\ Reply(r, e, c)
    \/ /\ Is(r, "deleteSession") \/ Is(r, "deleteSessions")
       /\ UNCHANGED reply
       /\ \E ids \in SUBSET Req, b \in BOOLEAN :
            request' = [request EXCEPT ![r].rows = ids, ![r].reported = b]

LEMMA TalkShape ==
  ASSUME ApiShape, NEW r \in Req, Talk(r)
  PROVE  ApiShape'
<1> USE NoneAssumption
<1>2. CASE Waits
  BY <1>2 DEF Waits, ApiShape
<1>3. ASSUME NEW e \in Endpoint, NEW t \in Req \cup {None}, Receive(r, e, t),
             e \in NeedsToken => t \in Req
      PROVE  ApiShape'
  <2> DEFINE new == [endpoint |-> e, token |-> t, rows |-> {}, reported |-> FALSE]
  <2>1. new \in Received /\ new.endpoint = e /\ new.token = t
    BY DEF Received
  <2>2. request' = [request EXCEPT ![r] = new] /\ UNCHANGED reply
    BY <1>3 DEF Receive
  <2>3. QED
    <3> HIDE DEF new
    <3> QED BY <1>3, <2>1, <2>2 DEF ApiShape
<1>4. ASSUME NEW e \in Endpoint, NEW c \in Code, Reply(r, e, c)
      PROVE  ApiShape'
  <2> DEFINE new == [endpoint |-> e, token |-> None, rows |-> {}, reported |-> FALSE]
  <2>1. new \in Received
    BY DEF Received
  <2>2. request' = [request EXCEPT ![r] = new] /\ reply' = [reply EXCEPT ![r] = c]
    BY <1>4 DEF Reply
  <2>3. QED
    <3> HIDE DEF new
    <3> QED BY <2>1, <2>2 DEF ApiShape
<1>5. ASSUME r \in InFlight PROVE request[r].endpoint \in Endpoint
  BY <1>5 DEF InFlight, ApiShape, Received
<1>6. ASSUME Is(r, "deleteSession") \/ Is(r, "deleteSessions"), UNCHANGED reply,
             NEW ids \in SUBSET Req, NEW b \in BOOLEAN,
             request' = [request EXCEPT ![r].rows = ids, ![r].reported = b]
      PROVE  ApiShape'
  <2>1. request[r] \in Received
    BY <1>6 DEF Is, InFlight, ApiShape
  <2>2. /\ request'[r] = [endpoint |-> request[r].endpoint,
                          token |-> request[r].token, rows |-> ids, reported |-> b]
        /\ \A q \in Req \ {r} : request'[q] = request[q]
        /\ request' = [q \in Req |-> request'[q]]
    BY <1>6, <2>1 DEF ApiShape, Received
  <2>3. request'[r] \in Received
    BY <2>1, <2>2 DEF Received
  <2>4. QED
    BY <1>6, <2>1, <2>2, <2>3 DEF ApiShape, Is, InFlight
<1>7. QED
  BY <1>2, <1>3, <1>4, <1>5, <1>6 DEF Talk

\* Whatever a step says, it is a step of the account component if it answers for
\* it, and grants access only when the tokens are stored.
LEMMA StepTalk ==
  ASSUME ApiShape, apc \in [Req -> A!Phase], NEW r \in Req,
         Request(r) \/ Step(r) \/ Fail(r) \/ Time(r)
  PROVE  /\ Talk(r)
         /\ Granted(r) \/ UNCHANGED reply \/ \E c \in Code \ Grants : reply' = [reply EXCEPT ![r] = c]
<1> DEFINE Goal == /\ Talk(r)
                   /\ \/ Granted(r) \/ UNCHANGED reply
                      \/ \E c \in Code \ Grants : reply' = [reply EXCEPT ![r] = c]
<1>1. ASSUME Waits PROVE Goal
  BY <1>1 DEF Talk, Waits
<1>2. ASSUME NEW e \in Endpoint, NEW t \in Req \cup {None}, Receive(r, e, t),
             e \in NeedsToken => t \in Req
      PROVE  Goal
  BY <1>2 DEF Talk, Receive
<1>3. ASSUME r \in InFlight, NEW c \in Code \ Grants, Reply(r, request[r].endpoint, c)
      PROVE  Goal
  BY <1>3 DEF Talk, Reply
<1>4. ASSUME NEW phase, NEW working, r \in InFlight, NEW c \in Code \ Grants,
             Goes(phase, working, r, c)
      PROVE  Goal
  BY <1>1, <1>3, <1>4 DEF Goes
<1>5. ASSUME r \in InFlight PROVE Deleted(r) \in Code \ Grants
  BY DEF Deleted, Code, Success, Grants
<1>6. CASE Request(r)
  <2>1. CASE PostLogin(r)
    BY <1>2, <2>1 DEF PostLogin, Endpoint, NeedsToken
  <2>2. ASSUME NEW t \in Req, PostLogout(r, t) PROVE Goal
    <3>1. CASE Reply(r, "logout", "SESSION_NOT_FOUND")
      BY <2>2, <3>1 DEF PostLogout, Talk, Reply, Endpoint, AccessEndpoint, Code, Error,
         Success, Grants
    <3>2. CASE Receive(r, "logout", t)
      BY <1>2, <3>2 DEF Endpoint, AccessEndpoint, NeedsToken
    <3>3. QED
      BY <2>2, <3>1, <3>2 DEF PostLogout
  <2>3. ASSUME NEW t \in Req,
               \/ PatchUser(r, t) \/ PostDeleteUser(r, t)
               \/ \E e \in {"deleteSession", "deleteSessions"} :
                    PostDeletion(r, e, t) \/ PostDeletionWithTempToken(r, e, t)
        PROVE  Goal
    BY <1>2, <2>3 DEF PatchUser, PostDeleteUser, PostDeletion,
       PostDeletionWithTempToken, Endpoint, AccessEndpoint, SessionsEndpoint
  <2>4. ASSUME NEW t \in Req, NEW c \in S!Context, PostRefresh(r, t, c) PROVE Goal
    BY <1>2, <2>4 DEF PostRefresh, Endpoint, NeedsToken
  <2>5. QED
    BY <1>6, <2>1, <2>2, <2>3, <2>4 DEF Request
<1>7. CASE Step(r)
  <2> USE DEF Code, Error, Success, Grants
  <2>1. CASE \/ \E c \in S!Context : Authenticated(r, c)
             \/ OverLimit(r) \/ DeleteUser(r)
    BY <1>1, <2>1 DEF Authenticated, OverLimit, DeleteUser
  <2>2. CASE Rejected(r) \/ RefreshLocked(r) \/ RefreshChecked(r) \/ FindSessionToRevoke(r)
    <3>1. r \in InFlight
      BY <2>2 DEF Rejected, RefreshLocked, RefreshChecked, FindSessionToRevoke, Is
    <3>2. \/ Goes(apc'[r], A!Working, r, "INVALID_CREDENTIALS")
          \/ Goes(spc'[r], S!Working, r, "SESSION_NOT_FOUND")
          \/ Reply(r, request[r].endpoint, "INVALID_CREDENTIALS")
      BY <2>2 DEF Rejected, RefreshLocked, RefreshChecked, FindSessionToRevoke, Is
    <3>3. QED
      BY <1>3, <1>4, <3>1, <3>2
  <2>3. CASE Granted(r)
    BY <2>3 DEF Granted, Talk
  <2>4. CASE TempUser(r)
    BY <1>4, <2>4 DEF TempUser
  <2>5. CASE DeleteRows(r)
    BY <2>5 DEF DeleteRows, IsDeletion, IsDeletionEndpoint, Talk, Is
  <2>6. CASE Report(r)
    <3> DEFINE ids == request[r].rows
    <3>1. request[r] \in Received
      BY <2>6 DEF Report, Is, InFlight, ApiShape
    <3>2. ids \in SUBSET Req
      BY <3>1 DEF Received
    <3>3. request' = [request EXCEPT ![r].rows = ids, ![r].reported = TRUE]
      BY <2>6, <3>1 DEF Report, Received, ApiShape
    <3>4. QED
      <4> HIDE DEF ids
      <4> QED BY <2>6, <3>2, <3>3 DEF Report, Talk
  <2>7. CASE Cleared(r)
    BY <1>4, <1>5, <2>7 DEF Cleared, IsDeletion
  <2>8. CASE SessionStep(r)
    <3>1. r \in InFlight /\ \E c \in Code \ Grants : Goes(spc'[r], S!Working, r, c)
      BY <2>8 DEF SessionStep
    <3>2. QED
      BY <1>4, <3>1
  <2>9. CASE AccountStep(r)
    <3>1. apc'[r] \in A!Working \cup {"limited", "refused", "done", "rejected"}
      BY <2>9 DEF AccountStep, A!Record, A!Count, A!LockFind, A!LockInsert, A!SetLock,
         A!ResolveFind, A!LimitInsert, A!SaveRead, A!SaveWrite, A!After, A!Reject,
         A!Save, A!Answer, A!Goto, A!Working
    <3>2. CASE Waits
      BY <1>1, <3>2
    <3>3. CASE /\ Reply(r, request[r].endpoint, AccountCode(r, apc'[r]))
               /\ apc'[r] \notin A!Working
      <4>1. AccountCode(r, apc'[r]) \in Code \ Grants
        BY <1>5, <2>9, <3>1, <3>3 DEF AccountStep, AccountCode
      <4>2. QED
        BY <1>3, <2>9, <3>3, <4>1 DEF AccountStep
    <3>4. QED
      BY <2>9, <3>2, <3>3 DEF AccountStep
  <2>10. QED
    BY <1>7, <2>1, <2>2, <2>3, <2>4, <2>5, <2>6, <2>7, <2>8, <2>9 DEF Step
<1>8. CASE Fail(r)
  BY <1>3, <1>5, <1>8 DEF Fail, When, Code, Error, Success, Grants
<1>9. CASE Time(r)
  BY <1>1, <1>9 DEF Time
<1>10. QED
  BY <1>6, <1>7, <1>8, <1>9

-----------------------------------------------------------------------------
(* The components. *)

\* A step of r in one of the components, or none there.
SessionsPart(r) == S!Request(r) \/ S!Step(r) \/ S!Fail(r) \/ UNCHANGED svars

AccountPart(r) ==
    \/ A!Request(r) \/ A!Step(r) \/ A!Fail(r) \/ A!Pass(r) \/ A!Age(r)
    \/ UNCHANGED avars

\* What a step of r is for Sessions, and for Account.
LEMMA StepComponents ==
  ASSUME ApiShape, NEW r \in Req, Request(r) \/ Step(r) \/ Fail(r) \/ Time(r)
  PROVE  SessionsPart(r) /\ AccountPart(r)
<1>2. ASSUME S!Request(r) \/ S!Step(r) \/ S!Fail(r) \/ UNCHANGED svars
      PROVE  SessionsPart(r)
  BY <1>2 DEF SessionsPart
<1>3. ASSUME \/ A!Request(r) \/ A!Step(r) \/ A!Fail(r) \/ A!Pass(r) \/ A!Age(r)
             \/ UNCHANGED avars
      PROVE  AccountPart(r)
  BY <1>3 DEF AccountPart
<1>4. CASE Request(r)
  <2>1. S!Request(r) \/ UNCHANGED svars
    BY <1>4 DEF Request, PostLogin, PostLogout, PatchUser, PostDeleteUser,
       PostRefresh, PostDeletion, PostDeletionWithTempToken, S!Request
  <2>2. A!Request(r) \/ UNCHANGED avars
    BY <1>4 DEF Request, PostLogin, PostLogout, PatchUser, PostDeleteUser,
       PostRefresh, PostDeletion, PostDeletionWithTempToken, A!Request
  <2>3. QED
    BY <1>2, <1>3, <2>1, <2>2
<1>5. CASE Step(r)
  <2>1. CASE \E c \in S!Context : Authenticated(r, c)
    BY <1>2, <1>3, <2>1 DEF Authenticated, S!Request
  <2>2. CASE Rejected(r) \/ RefreshLocked(r) \/ RefreshChecked(r) \/ OverLimit(r)
             \/ Granted(r) \/ TempUser(r)
    BY <1>2, <1>3, <2>2 DEF Rejected, RefreshLocked, RefreshChecked, OverLimit,
       Granted, TempUser, S!Step, A!Step
  <2>3. CASE DeleteRows(r)
    <3>1. request[r].token \in Req
      BY <2>3 DEF DeleteRows, IsDeletion, IsDeletionEndpoint, InFlight, ApiShape,
         NeedsToken
    <3>2. \E ids \in SUBSET Req : S!DeleteSessions(r, request[r].token, ids)
      BY <2>3 DEF DeleteRows
    <3>3. QED
      BY <1>2, <1>3, <2>3, <3>1, <3>2 DEF DeleteRows, S!Request
  <2>4. CASE Report(r) \/ Cleared(r) \/ DeleteUser(r)
    BY <1>2, <1>3, <2>4 DEF Report, Cleared, DeleteUser, A!Step
  <2>5. CASE FindSessionToRevoke(r)
    <3>1. request[r].token \in Req
      BY <2>5 DEF FindSessionToRevoke, Is, InFlight, ApiShape, NeedsToken
    <3>2. S!Request(r)
      BY <2>5, <3>1 DEF FindSessionToRevoke, S!Request
    <3>3. A!Step(r) \/ UNCHANGED avars
      BY <2>5 DEF FindSessionToRevoke, A!Step
    <3>4. QED
      BY <1>2, <1>3, <3>2, <3>3
  <2>6. CASE SessionStep(r)
    BY <1>2, <1>3, <2>6 DEF SessionStep, S!Step
  <2>7. CASE AccountStep(r)
    BY <1>2, <1>3, <2>7 DEF AccountStep, S!Step, A!Step
  <2>8. QED
    BY <1>5, <2>1, <2>2, <2>3, <2>4, <2>5, <2>6, <2>7 DEF Step
<1>6. CASE Fail(r) \/ Time(r)
  BY <1>2, <1>3, <1>6 DEF Fail, Time
<1>7. QED
  BY <1>4, <1>5, <1>6

LEMMA NextComponents ==
  ASSUME ApiShape, [Next]_vars
  PROVE  [S!Next]_svars /\ [A!Next]_avars
BY StepComponents DEF Next, vars, SessionsPart, AccountPart, S!Next, A!Next

-----------------------------------------------------------------------------
(* What the proof has to know of the account. *)

\* A request verifies the user it loaded, and writes to the user's row only if it
\* has one in memory.
AccountShape ==
    /\ apc \in [Req -> A!Phase]
    /\ user \in A!UserRow
    /\ mem = [r \in Req |-> mem[r]]
    /\ adirty = [r \in Req |-> adirty[r]]
    /\ \A r \in Req :
         /\ mem[r].user \in A!UserRow \cup {None}
         /\ apc[r] = "verify" => mem[r].user # None
         /\ apc[r] = "saveWrite" =>
              \A c \in A!UserColumn : <<None, c>> \in adirty[r] => mem[r].user # None

\* Steps of r after which it has no user in memory but the one it had, or one
\* that is not deleted, and does not write.
LEMMA AccountStepOf ==
  ASSUME AccountShape, NEW r \in Req, NEW phase \in A!Phase,
         phase \notin {"verify", "saveWrite"},
         apc' = [apc EXCEPT ![r] = phase],
         \/ user' = user
         \/ user' = [user EXCEPT !.deleted = TRUE]
         \/ /\ apc[r] = "saveWrite"
            /\ user' = [c \in A!UserColumn |->
                          IF <<None, c>> \in adirty[r] THEN mem[r].user[c] ELSE user[c]],
         \/ mem' = mem
         \/ \E m : mem' = [mem EXCEPT ![r] = m] /\
              (\/ m.user \in {None, mem[r].user}
               \/ (~user.deleted /\ m.user \in A!UserRow)),
         adirty' = adirty \/ \E d : adirty' = [adirty EXCEPT ![r] = d]
  PROVE  AccountShape' /\ (A!Settled => A!Settled')
<1>1. user' \in A!UserRow /\ (A!Settled => user'.deleted)
  <2>1. user \in A!UserRow /\ (A!Settled => user.deleted /\ mem[r].user = None)
    BY DEF AccountShape, A!Settled
  <2>2. CASE user' = user \/ user' = [user EXCEPT !.deleted = TRUE]
    BY <2>1, <2>2 DEF A!UserRow
  <2>3. CASE /\ apc[r] = "saveWrite"
             /\ user' = [c \in A!UserColumn |->
                           IF <<None, c>> \in adirty[r] THEN mem[r].user[c] ELSE user[c]]
    <3>1. /\ user'.password = IF <<None, "password">> \in adirty[r]
                              THEN mem[r].user.password ELSE user.password
          /\ user'.deleted = IF <<None, "deleted">> \in adirty[r]
                              THEN mem[r].user.deleted ELSE user.deleted
          /\ user' = [password |-> user'.password, deleted |-> user'.deleted]
      BY <2>3 DEF A!UserColumn
    <3>2. \A c \in A!UserColumn : <<None, c>> \in adirty[r] => mem[r].user \in A!UserRow
      BY <2>3 DEF AccountShape
    <3>3. user'.password \in Req \cup {None} /\ user'.deleted \in BOOLEAN
      BY <2>1, <3>1, <3>2 DEF A!UserRow, A!UserColumn
    <3>4. A!Settled => user'.deleted
      BY <2>1, <3>1, <3>2, NoneAssumption DEF A!UserColumn
    <3>5. QED
      BY <3>1, <3>3, <3>4 DEF A!UserRow
  <2>4. QED
    BY <2>2, <2>3
<1>2. /\ mem' = [q \in Req |-> mem'[q]] /\ adirty' = [q \in Req |-> adirty'[q]]
      /\ \A q \in Req \ {r} : mem'[q] = mem[q] /\ adirty'[q] = adirty[q]
  BY DEF AccountShape
<1>3. /\ mem'[r].user \in A!UserRow \cup {None}
      /\ A!Settled => mem'[r].user = None
  BY DEF AccountShape, A!Settled
<1>4. QED
  BY <1>1, <1>2, <1>3 DEF AccountShape, A!Settled

\* The deletion of the account is final once it is settled, as in Account.
LEMMA NextAccount ==
  ASSUME AccountShape, [A!Next]_avars
  PROVE  AccountShape' /\ (A!Settled => A!Settled')
<1> DEFINE Goal == AccountShape' /\ (A!Settled => A!Settled')
<1>1. CASE UNCHANGED <<user, apc, mem, adirty>>
  BY <1>1 DEF AccountShape, A!Settled
<1> SUFFICES ASSUME NEW r \in Req,
                    A!Request(r) \/ A!Step(r) \/ A!Fail(r) \/ A!Pass(r) \/ A!Age(r)
             PROVE  Goal
  BY <1>1 DEF A!Next, avars
<1> USE NoneAssumption DEF A!Phase, A!Working, A!Answered
<1>2. ASSUME NEW m, m.user \in {None, mem[r].user} \/ (~user.deleted /\ m.user \in A!UserRow),
             NEW g, A!Save(r, m, g), UNCHANGED <<user, adirty>>
      PROVE  Goal
  BY <1>2, AccountStepOf DEF A!Save, A!Goto, A!Keep
<1>3. ASSUME NEW outcome \in A!Answered, A!Answer(r, outcome),
             \/ user' = user
             \/ user' = [user EXCEPT !.deleted = TRUE]
             \/ /\ apc[r] = "saveWrite"
                /\ user' = [c \in A!UserColumn |->
                              IF <<None, c>> \in adirty[r] THEN mem[r].user[c] ELSE user[c]]
      PROVE  Goal
  <2>1. A!Nothing.user = None
    BY DEF A!Nothing
  <2>2. QED
    BY <1>3, <2>1, AccountStepOf DEF A!Answer, A!Goto, A!Keep
<1>4. ASSUME NEW phase \in A!Phase \ {"verify", "saveWrite"}, A!Goto(r, phase),
             UNCHANGED <<user, mem, adirty>>
      PROVE  Goal
  BY <1>4, AccountStepOf DEF A!Goto
<1>5. user \in A!UserRow
  BY DEF AccountShape
<1>6. CASE A!Load(r)
  <2>1. A!UserWithStates.user = user /\ user # None /\ ~user.deleted
    BY <1>5, <1>6 DEF A!UserWithStates, A!Load
  <2>2. /\ apc' = [apc EXCEPT ![r] = "verify"] /\ UNCHANGED <<user, adirty>>
        /\ mem' = [mem EXCEPT ![r] = A!UserWithStates]
    BY <1>6 DEF A!Load, A!Goto, A!Keep
  <2>3. QED
    BY <1>5, <2>1, <2>2 DEF AccountShape, A!Settled
<1>7. CASE \/ A!DeleteSessions(r) \/ A!DeleteUser(r)
           \/ \E t \in Req : A!DeleteWithTempToken(r, t)
  BY <1>4, <1>7 DEF A!DeleteSessions, A!DeleteUser, A!DeleteWithTempToken
<1>8. CASE A!UpdateUser(r)
  <2> DEFINE m == [user |-> [password |-> r, deleted |-> FALSE],
                   related |-> FALSE, states |-> A!NoStates]
  <2>1. A!Save(r, m, "update") /\ UNCHANGED <<user, adirty>> /\ ~user.deleted
    BY <1>8 DEF A!UpdateUser
  <2>2. m.user \in A!UserRow
    BY DEF A!UserRow
  <2>3. QED
    <3> HIDE DEF m
    <3> QED BY <1>2, <2>1, <2>2
<1>9. CASE A!Verified(r)
  BY <1>3, <1>4, <1>9 DEF A!Verified
<1>10. CASE A!Locked(r) \/ A!NothingDeleted(r)
  BY <1>3, <1>10 DEF A!Locked, A!NothingDeleted
<1>11. CASE A!Mismatch(r) \/ A!Record(r)
  BY <1>4, <1>11 DEF A!Mismatch, A!Record
<1>12. CASE A!Count(r)
  BY <1>3, <1>4, <1>12 DEF A!Count
<1>13. ASSUME NEW s, NEW row, A!SetLock(r, s, row), UNCHANGED <<user, adirty>>
       PROVE  Goal
  <2>1. PICK x : A!Save(r, [user |-> mem[r].user, related |-> TRUE,
                            states |-> [mem[r].states EXCEPT ![s] = x]], "lock")
    BY <1>13 DEF A!SetLock
  <2>2. QED
    BY <1>2, <1>13, <2>1
<1>14. CASE A!LockFind(r)
  BY <1>4, <1>13, <1>14 DEF A!LockFind
<1>15. CASE A!LockInsert(r)
  BY <1>13, <1>15 DEF A!LockInsert
<1>16. CASE A!ResolveFind(r)
  <2>1. CASE apc'[r] = "limitInsert"
    BY <1>16, <2>1, AccountStepOf DEF A!ResolveFind, A!Goto, A!Keep, A!Nothing, A!Save
  <2>2. CASE \E f : A!Save(r, [user |-> None, related |-> FALSE, states |-> f], "resolve")
    BY <1>2, <1>16, <2>2 DEF A!ResolveFind
  <2>3. QED
    BY <1>16, <2>1, <2>2 DEF A!ResolveFind, A!Goto, AccountShape
<1>17. CASE A!LimitInsert(r)
  BY <1>2, <1>17 DEF A!LimitInsert
<1>18. CASE A!TempUser(r)
  BY <1>3, <1>4, <1>18 DEF A!TempUser
<1>19. CASE A!Clear(r)
  <2>1. CASE user.deleted
    BY <1>3, <1>19, <2>1 DEF A!Clear
  <2>2. CASE ~user.deleted
    <3>1. \E f : A!Save(r, [user |-> user, related |-> TRUE, states |-> f], "clear")
      BY <1>19, <2>2 DEF A!Clear
    <3>2. UNCHANGED <<user, adirty>>
      BY <1>19, <2>2 DEF A!Clear
    <3>3. QED
      BY <1>2, <1>5, <2>2, <3>1, <3>2
  <2>3. QED
    BY <2>1, <2>2
<1>20. CASE A!Delete(r)
  BY <1>3, <1>20 DEF A!Delete
<1>21. CASE A!SaveRead(r)
  <2>1. PICK d : /\ adirty' = [adirty EXCEPT ![r] = d]
                 /\ d \subseteq A!UserDiffers(mem[r]) \cup A!StatesDiffer(mem[r])
    BY <1>21 DEF A!SaveRead
  <2>2. \A c \in A!UserColumn : <<None, c>> \in d => mem[r].user # None
    BY <2>1 DEF A!UserDiffers, A!StatesDiffer
  <2>3. /\ apc' = [apc EXCEPT ![r] = apc'[r]] /\ apc'[r] \in {"saveWrite", "reject"}
        /\ UNCHANGED <<user, mem>>
    BY <1>21 DEF A!SaveRead, A!Goto, AccountShape
  <2>4. QED
    BY <2>1, <2>2, <2>3 DEF AccountShape, A!Settled
<1>22. CASE A!SaveWrite(r)
  <2>1. /\ apc[r] = "saveWrite" /\ A!After(r)
        /\ user' = [c \in A!UserColumn |->
                      IF <<None, c>> \in adirty[r] THEN mem[r].user[c] ELSE user[c]]
    BY <1>22 DEF A!SaveWrite
  <2>2. CASE goal[r] = "resolve"
    BY <2>1, <2>2, AccountStepOf DEF A!After, A!Goto, A!Keep, A!Nothing
  <2>3. CASE goal[r] # "resolve"
    BY <1>3, <2>1, <2>3 DEF A!After
  <2>4. QED
    BY <2>2, <2>3
<1>23. CASE A!Reject(r) \/ A!Fail(r)
  BY <1>3, <1>23 DEF A!Reject, A!Fail
<1>24. CASE A!Pass(r) \/ A!Age(r)
  BY <1>1, <1>24 DEF A!Pass, A!Age
<1>25. QED
  BY <1>6, <1>7, <1>8, <1>9, <1>10, <1>11, <1>12, <1>14, <1>15, <1>16, <1>17, <1>18,
     <1>19, <1>20, <1>21, <1>22, <1>23, <1>24 DEF A!Request, A!Step

-----------------------------------------------------------------------------
(* What it has to know of the sessions. *)

HasDeleted(row) == "deleted" \in DOMAIN row

SavingSession == {"markRead", "markWrite", "tokenRead", "tokenWrite",
                  "revokeRead", "revokeWrite", "delete"}

\* Rows and entities have a deleted_at, and a revocation sets it.
SessionsShape ==
    /\ session = [s \in Req |-> session[s]]
    /\ spc = [r \in Req |-> spc[r]]
    /\ sid = [r \in Req |-> sid[r]]
    /\ snap = [r \in Req |-> snap[r]]
    /\ sdirty = [r \in Req |-> sdirty[r]]
    /\ \A s \in Req : S!Stored(s) => HasDeleted(session[s])
    /\ \A r \in Req :
         /\ spc[r] \in SavingSession => sid[r] \in Req /\ HasDeleted(session[sid[r]])
         /\ spc[r] = "revokeRead" => HasDeleted(snap[r])
         /\ spc[r] = "revokeWrite" => snap[r].deleted /\ "deleted" \in sdirty[r]

\* Where a request may still insert a session, or save one it found alive.
OnItsWay == {"refresh", "find", "count", "create", "markRead", "markWrite",
             "tokenRead", "tokenWrite", "respond"}

\* A step of r that, unless r is on its way, changes only rows that are deleted
\* after it.
LEMMA SessionsStepOf ==
  ASSUME SessionsShape, NEW r \in Req,
         \E phase : spc' = [spc EXCEPT ![r] = phase],
         sid' = sid \/ \E s : sid' = [sid EXCEPT ![r] = s],
         snap' = snap \/ \E e : snap' = [snap EXCEPT ![r] = e],
         sdirty' = sdirty \/ \E d : sdirty' = [sdirty EXCEPT ![r] = d],
         session' = [s \in Req |-> session'[s]],
         \A s \in Req : HasDeleted(session[s]) => HasDeleted(session'[s]),
         \A s \in Req : session'[s] # None => HasDeleted(session'[s]),
         spc[r] \in OnItsWay \/ \A s \in Req :
            session'[s] = session[s] \/ session'[s].deleted,
         spc'[r] \in SavingSession => sid'[r] \in Req /\ HasDeleted(session'[sid'[r]]),
         spc'[r] = "revokeRead" => HasDeleted(snap'[r]),
         spc'[r] = "revokeWrite" => snap'[r].deleted /\ "deleted" \in sdirty'[r]
  PROVE  /\ SessionsShape'
         /\ (\A q \in Req : spc[q] \notin OnItsWay)
              => S!LiveOf(Owner)' \subseteq S!LiveOf(Owner)
<1>1. \A q \in Req \ {r} : /\ spc'[q] = spc[q] /\ sid'[q] = sid[q]
                           /\ snap'[q] = snap[q] /\ sdirty'[q] = sdirty[q]
  BY DEF SessionsShape
<1>2. /\ spc' = [q \in Req |-> spc'[q]] /\ sid' = [q \in Req |-> sid'[q]]
      /\ snap' = [q \in Req |-> snap'[q]] /\ sdirty' = [q \in Req |-> sdirty'[q]]
  BY DEF SessionsShape
<1>3. \A s \in Req : S!Stored(s)' => HasDeleted(session[s])'
  BY DEF S!Stored, HasDeleted
<1>4. ASSUME NEW q \in Req
      PROVE  /\ spc'[q] \in SavingSession => sid'[q] \in Req /\ HasDeleted(session'[sid'[q]])
             /\ spc'[q] = "revokeRead" => HasDeleted(snap'[q])
             /\ spc'[q] = "revokeWrite" => snap'[q].deleted /\ "deleted" \in sdirty'[q]
  <2>1. CASE q = r
    BY <2>1
  <2>2. CASE q # r
    BY <1>1, <2>2 DEF SessionsShape
  <2>3. QED
    BY <2>1, <2>2
<1>5. SessionsShape'
  BY <1>2, <1>3, <1>4 DEF SessionsShape, HasDeleted
<1>6. (\A q \in Req : spc[q] \notin OnItsWay)
         => S!LiveOf(Owner)' \subseteq S!LiveOf(Owner)
  BY DEF S!LiveOf, S!Live, S!Stored
<1>7. QED
  BY <1>5, <1>6

LEMMA NextSessions ==
  ASSUME SessionsShape, [S!Next]_svars
  PROVE  /\ SessionsShape'
         /\ (\A r \in Req : spc[r] \notin OnItsWay)
              => S!LiveOf(Owner)' \subseteq S!LiveOf(Owner)
<1> DEFINE Goal == /\ SessionsShape'
                   /\ (\A r \in Req : spc[r] \notin OnItsWay)
                        => S!LiveOf(Owner)' \subseteq S!LiveOf(Owner)
<1>1. CASE UNCHANGED svars
  BY <1>1 DEF svars, SessionsShape, S!Stored, S!LiveOf, S!Live, HasDeleted
<1> SUFFICES ASSUME NEW r \in Req, S!Request(r) \/ S!Step(r) \/ S!Fail(r)
             PROVE  Goal
  BY <1>1 DEF S!Next
<1> USE NoneAssumption
<1>2. ASSUME UNCHANGED session,
             \E phase : spc' = [spc EXCEPT ![r] = phase],
             sid' = sid \/ \E s : sid' = [sid EXCEPT ![r] = s],
             snap' = snap \/ \E e : snap' = [snap EXCEPT ![r] = e],
             sdirty' = sdirty \/ \E d : sdirty' = [sdirty EXCEPT ![r] = d],
             spc'[r] \in SavingSession => sid'[r] \in Req /\ HasDeleted(session[sid'[r]]),
             spc'[r] = "revokeRead" => HasDeleted(snap'[r]),
             spc'[r] = "revokeWrite" => snap'[r].deleted /\ "deleted" \in sdirty'[r]
      PROVE  Goal
  <2>1. /\ session' = session /\ session' = [s \in Req |-> session'[s]]
        /\ \A s \in Req : session[s] # None => HasDeleted(session[s])
    BY <1>2 DEF SessionsShape, S!Stored
  <2>2. /\ \A s \in Req : HasDeleted(session[s]) => HasDeleted(session'[s])
        /\ \A s \in Req : session'[s] # None => HasDeleted(session'[s])
        /\ spc'[r] \in SavingSession => sid'[r] \in Req /\ HasDeleted(session'[sid'[r]])
    BY <1>2, <2>1
  <2>3. QED
    BY <1>2, <2>1, <2>2, SessionsStepOf
<1>3. ASSUME NEW outcome \in {"granted", "limited", "ended", "failed"},
             S!Answer(r, outcome), UNCHANGED session
      PROVE  Goal
  <2>1. spc'[r] = outcome /\ spc' = [spc EXCEPT ![r] = outcome]
    BY <1>3 DEF S!Answer, S!Goto, SessionsShape
  <2>2. QED
    BY <1>2, <1>3, <2>1 DEF S!Answer, SavingSession
<1>4. ASSUME NEW rows \in SUBSET Req, S!SoftDelete(rows),
             \A s \in rows : HasDeleted(session[s])
      PROVE  /\ session' = [s \in Req |-> session'[s]]
             /\ \A s \in Req : /\ HasDeleted(session[s]) => HasDeleted(session'[s])
                               /\ session'[s] # None => HasDeleted(session'[s])
                               /\ session'[s] = session[s] \/ session'[s].deleted
  BY <1>4 DEF S!SoftDelete, S!SetDeleted, HasDeleted, SessionsShape, S!Stored
<1>5. ASSUME S!SaveWrite(r), spc[r] \in SavingSession
      PROVE  /\ session' = [s \in Req |-> session'[s]]
             /\ \A s \in Req : /\ HasDeleted(session[s]) => HasDeleted(session'[s])
                               /\ session'[s] # None => HasDeleted(session'[s])
             /\ snap[r].deleted /\ "deleted" \in sdirty[r] =>
                  \A s \in Req : session'[s] = session[s] \/ session'[s].deleted
  BY <1>5 DEF S!SaveWrite, S!Updated, HasDeleted, SessionsShape, S!Stored
<1>6. CASE S!Request(r)
  <2>1. CASE \E u \in {Owner}, c \in S!Context : S!Login(r, u, c)
    BY <1>2, <2>1 DEF S!Login, S!Goto, SavingSession, SessionsShape
  <2>2. CASE \E t \in Req : S!RefreshInvalid(r, t) \/ \E c \in S!Context : S!RefreshValid(r, t, c)
    BY <1>2, <2>2 DEF S!RefreshInvalid, S!RefreshValid, S!Goto, SavingSession, SessionsShape
  <2>3. ASSUME NEW t \in Req, S!Logout(r, t) \/ S!UpdateOrDeleteUser(r, t)
        PROVE  Goal
    <3>1. S!ByAuthUser(S!Subject(t), sid[t]) # {} => sid[t] \in Req /\ HasDeleted(session[sid[t]])
      BY DEF S!ByAuthUser, S!LiveOf, S!Live, SessionsShape
    <3>2. QED
      BY <1>2, <2>3, <3>1 DEF S!Logout, S!UpdateOrDeleteUser, S!Goto, SavingSession, SessionsShape
  <2>4. ASSUME NEW t \in Req, NEW ids \in SUBSET Req, S!DeleteSessions(r, t, ids)
        PROVE  Goal
    <3> DEFINE rows == {s \in ids : S!Stored(s) /\ session[s].user = S!Subject(t)}
    <3>1. S!SoftDelete(rows) /\ \A s \in rows : HasDeleted(session[s])
      BY <2>4 DEF S!DeleteSessions, SessionsShape
    <3>2. rows \in SUBSET Req
      OBVIOUS
    <3>3. spc' = [spc EXCEPT ![r] = "ended"] /\ spc'[r] = "ended" /\ UNCHANGED <<sid, snap, sdirty>>
      BY <2>4 DEF S!DeleteSessions, S!Goto, SessionsShape
    <3>4. QED
      <4> HIDE DEF rows
      <4> QED BY <1>4, <3>1, <3>2, <3>3, SessionsStepOf DEF SavingSession
  <2>5. QED
    BY <1>6, <2>1, <2>2, <2>3, <2>4 DEF S!Request
<1>7. CASE S!LockedOut(r) \/ S!Limit(r) \/ S!Respond(r) \/ S!Fail(r)
  BY <1>3, <1>7 DEF S!LockedOut, S!Limit, S!Respond, S!Fail
<1>8. CASE S!Refresh(r)
  <2>1. CASE S!Answer(r, "ended")
    BY <1>3, <1>8, <2>1 DEF S!Refresh
  <2>2. S!ByAuthUser(call[r].user, sid[r]) # {} => sid[r] \in Req /\ HasDeleted(session[sid[r]])
    BY DEF S!ByAuthUser, S!LiveOf, S!Live, SessionsShape
  <2>3. CASE ~S!Answer(r, "ended")
    BY <1>2, <1>8, <2>2, <2>3 DEF S!Refresh, S!Goto, SavingSession, SessionsShape
  <2>4. QED
    BY <2>1, <2>3
<1>9. CASE S!FindCurrent(r)
  <2>1. PICK s \in S!OneOf(S!CurrentSessions(r)) :
           /\ sid' = [sid EXCEPT ![r] = s]
           /\ IF s = None
              THEN S!Goto(r, "count") /\ UNCHANGED snap
              ELSE S!Goto(r, "markRead") /\ snap' = [snap EXCEPT ![r] = session[s]]
    BY <1>9 DEF S!FindCurrent
  <2>2. s # None => s \in Req /\ HasDeleted(session[s])
    BY DEF S!OneOf, S!CurrentSessions, S!ContextMatches, S!LiveOf, S!Live, SessionsShape
  <2>3. UNCHANGED <<session, sdirty>> /\ sid'[r] = s
    BY <1>9, <2>1 DEF S!FindCurrent, SessionsShape
  <2>4. QED
    BY <1>2, <2>1, <2>2, <2>3 DEF S!Goto, SavingSession, SessionsShape
<1>10. CASE S!CountSessions(r)
  BY <1>2, <1>10 DEF S!CountSessions, S!Goto, SavingSession, SessionsShape
<1>11. CASE S!Create(r)
  <2> DEFINE row == [user |-> call[r].user, ctx |-> call[r].ctx, token |-> None,
                     deleted |-> FALSE, revoked |-> FALSE]
  <2>1. /\ session' = [session EXCEPT ![r] = row] /\ snap' = [snap EXCEPT ![r] = row]
        /\ sid' = [sid EXCEPT ![r] = r] /\ spc' = [spc EXCEPT ![r] = "tokenRead"]
        /\ UNCHANGED sdirty /\ spc[r] = "create"
    BY <1>11 DEF S!Create, S!Goto
  <2>2. HasDeleted(row)
    BY DEF HasDeleted
  <2>3. QED
    <3> HIDE DEF row
    <3>1. /\ session' = [s \in Req |-> session'[s]]
          /\ \A s \in Req : session'[s] = IF s = r THEN row ELSE session[s]
          /\ spc'[r] = "tokenRead" /\ sid'[r] = r
      BY <2>1 DEF SessionsShape
    <3>2. \A s \in Req : /\ HasDeleted(session[s]) => HasDeleted(session'[s])
                         /\ session'[s] # None => HasDeleted(session'[s])
      BY <2>2, <3>1 DEF SessionsShape, S!Stored
    <3>3. QED
      BY <2>1, <3>1, <3>2, <2>2, SessionsStepOf DEF SavingSession, OnItsWay
<1>12. CASE S!MarkRead(r) \/ S!TokenRead(r)
  <2>1. /\ spc[r] \in SavingSession /\ UNCHANGED <<session, sid>>
        /\ \E phase \in {"markWrite", "tokenWrite"} :
              spc' = [spc EXCEPT ![r] = phase] /\ spc'[r] = phase
        /\ \E e : snap' = [snap EXCEPT ![r] = e]
        /\ \E d : sdirty' = [sdirty EXCEPT ![r] = d]
    BY <1>12 DEF S!MarkRead, S!TokenRead, S!SaveRead, S!Goto, SavingSession, SessionsShape
  <2>2. sid[r] \in Req /\ HasDeleted(session[sid[r]])
    BY <2>1 DEF SessionsShape
  <2>3. QED
    BY <1>2, <2>1, <2>2
<1>13. CASE S!MarkWrite(r) \/ S!TokenWrite(r)
  <2>1. /\ S!SaveWrite(r) /\ spc[r] \in SavingSession \cap OnItsWay
        /\ UNCHANGED <<sid, snap, sdirty>>
        /\ \E phase \in {"tokenRead", "respond"} :
              spc' = [spc EXCEPT ![r] = phase] /\ spc'[r] = phase
    BY <1>13 DEF S!MarkWrite, S!TokenWrite, S!Goto, SavingSession, OnItsWay, SessionsShape
  <2>2. sid[r] \in Req /\ HasDeleted(session[sid[r]])
    BY <2>1 DEF SessionsShape
  <2>3. QED
    BY <1>5, <2>1, <2>2, SessionsStepOf DEF SavingSession
<1>14. CASE S!Delete(r)
  <2>1. sid[r] \in Req /\ HasDeleted(session[sid[r]])
    BY <1>14 DEF S!Delete, SavingSession, SessionsShape
  <2>2. S!SoftDelete({sid[r]}) /\ spc'[r] = "ended"
    BY <1>14 DEF S!Delete, S!Answer, S!Goto, SessionsShape
  <2>3. QED
    BY <1>4, <1>14, <2>1, <2>2, SessionsStepOf DEF S!Delete, S!Answer, S!Goto, SavingSession
<1>15. CASE S!RevokeRead(r)
  <2>1. sid[r] \in Req /\ HasDeleted(session[sid[r]]) /\ HasDeleted(snap[r])
    BY <1>15 DEF S!RevokeRead, SavingSession, SessionsShape
  <2>2. S!SetRevoked(snap[r]).deleted
    BY <2>1 DEF S!SetRevoked, HasDeleted
  <2>3. /\ snap' = [snap EXCEPT ![r] = S!SetRevoked(snap[r])]
        /\ \E d : sdirty' = [sdirty EXCEPT ![r] = d] /\ "deleted" \in d
        /\ spc' = [spc EXCEPT ![r] = "revokeWrite"] /\ UNCHANGED <<session, sid>>
    BY <1>15 DEF S!RevokeRead, S!SaveRead, S!Goto
  <2>4. /\ snap'[r].deleted /\ "deleted" \in sdirty'[r] /\ spc'[r] = "revokeWrite"
    BY <2>2, <2>3 DEF SessionsShape
  <2>5. QED
    BY <1>2, <2>1, <2>3, <2>4
<1>16. CASE S!RevokeWrite(r)
  <2>1. /\ S!SaveWrite(r) /\ spc[r] \in SavingSession /\ S!Answer(r, "ended")
        /\ snap[r].deleted /\ "deleted" \in sdirty[r]
    BY <1>16 DEF S!RevokeWrite, SavingSession, SessionsShape
  <2>2. spc'[r] = "ended"
    BY <2>1 DEF S!Answer, S!Goto, SessionsShape
  <2>3. QED
    BY <1>5, <2>1, <2>2, SessionsStepOf DEF S!Answer, S!Goto, SavingSession
<1>17. QED
  BY <1>6, <1>7, <1>8, <1>9, <1>10, <1>11, <1>12, <1>13, <1>14, <1>15, <1>16
     DEF S!Step

-----------------------------------------------------------------------------
(* Which step of the one goes with which of the other. *)

\* A request on its way to a session has the user it loaded in memory.
Linked == \A r \in Req : spc[r] \in OnItsWay => apc[r] = "verify"

\* A step of r moves r alone.
LEMMA OneMoves ==
  ASSUME NEW r \in Req
  PROVE  /\ (S!Request(r) \/ S!Step(r) \/ S!Fail(r) \/ UNCHANGED svars)
              => (spc' = spc \/ \E phase : spc' = [spc EXCEPT ![r] = phase])
         /\ (A!Request(r) \/ A!Step(r) \/ A!Fail(r) \/ UNCHANGED avars)
              => (apc' = apc \/ \E phase : apc' = [apc EXCEPT ![r] = phase])
<1>1. S!Request(r) => \E phase : spc' = [spc EXCEPT ![r] = phase]
  BY DEF S!Request, S!Login, S!RefreshValid, S!RefreshInvalid, S!Logout,
     S!DeleteSessions, S!UpdateOrDeleteUser, S!Goto
<1>2. S!Step(r) \/ S!Fail(r) => \E phase : spc' = [spc EXCEPT ![r] = phase]
  BY DEF S!Step, S!Fail, S!LockedOut, S!Refresh, S!FindCurrent, S!CountSessions,
     S!Limit, S!Create, S!MarkRead, S!MarkWrite, S!TokenRead, S!TokenWrite, S!Respond,
     S!Delete, S!RevokeRead, S!RevokeWrite, S!Answer, S!Goto
<1>3. A!Request(r) \/ A!Fail(r) => \E phase : apc' = [apc EXCEPT ![r] = phase]
  BY DEF A!Request, A!Load, A!DeleteSessions, A!UpdateUser, A!DeleteUser,
     A!DeleteWithTempToken, A!Fail, A!Answer, A!Save, A!Goto
<1>4. A!Step(r) => \E phase : apc' = [apc EXCEPT ![r] = phase]
  BY DEF A!Step, A!Verified, A!Locked, A!Mismatch, A!Record, A!Count, A!LockFind,
     A!LockInsert, A!SetLock, A!ResolveFind, A!LimitInsert, A!TempUser,
     A!NothingDeleted, A!Clear, A!Delete, A!SaveRead, A!SaveWrite, A!After, A!Reject,
     A!Answer, A!Save, A!Goto
<1>5. QED
  BY <1>1, <1>2, <1>3, <1>4 DEF svars, avars

LEMMA NextLinked ==
  ASSUME ApiShape, AccountShape, SessionsShape, Linked, [Next]_vars
  PROVE  Linked'
<1>1. CASE UNCHANGED vars
  BY <1>1 DEF vars, svars, avars, Linked
<1> SUFFICES ASSUME NEW r \in Req, Request(r) \/ Step(r) \/ Fail(r) \/ Time(r)
             PROVE  Linked'
  BY <1>1 DEF Next
<1>2. ASSUME spc' = spc \/ \E phase : spc' = [spc EXCEPT ![r] = phase],
             apc' = apc \/ \E phase : apc' = [apc EXCEPT ![r] = phase],
             spc'[r] \in OnItsWay => apc'[r] = "verify"
      PROVE  Linked'
  BY <1>2 DEF Linked, SessionsShape, AccountShape
<1>3. ASSUME S!Request(r) \/ S!Step(r) \/ S!Fail(r) \/ UNCHANGED svars,
             A!Request(r) \/ A!Step(r) \/ A!Fail(r) \/ UNCHANGED avars,
             spc'[r] \in OnItsWay => apc'[r] = "verify"
      PROVE  Linked'
  BY <1>2, <1>3, OneMoves
<1> USE DEF OnItsWay
<1>4. CASE Request(r)
  <2>1. S!Request(r) \/ UNCHANGED svars
    BY <1>4 DEF Request, PostLogin, PostLogout, PatchUser, PostDeleteUser,
       PostRefresh, PostDeletion, PostDeletionWithTempToken, S!Request
  <2>2. A!Request(r) \/ UNCHANGED avars
    BY <1>4 DEF Request, PostLogin, PostLogout, PatchUser, PostDeleteUser,
       PostRefresh, PostDeletion, PostDeletionWithTempToken, A!Request
  <2>3. CASE PostLogin(r) \/ \E t \in Req, c \in S!Context : PostRefresh(r, t, c)
    <3>1. apc'[r] = "verify"
      BY <2>3 DEF PostLogin, PostRefresh, A!Load, A!Goto, AccountShape
    <3>2. QED
      BY <1>3, <2>1, <2>2, <3>1
  <2>4. CASE \E t \in Req : PostLogout(r, t)
    <3>1. spc'[r] \in {"ended", "delete"}
      BY <2>4 DEF PostLogout, S!Logout, S!Goto, SessionsShape
    <3>2. QED
      BY <1>3, <2>1, <2>2, <3>1
  <2>5. CASE \E t \in Req :
               \/ PatchUser(r, t) \/ PostDeleteUser(r, t)
               \/ \E e \in {"deleteSession", "deleteSessions"} :
                    PostDeletion(r, e, t) \/ PostDeletionWithTempToken(r, e, t)
    <3>1. UNCHANGED svars /\ apc[r] = "idle"
      BY <2>5 DEF PatchUser, PostDeleteUser, PostDeletion, PostDeletionWithTempToken,
         A!UpdateUser, A!DeleteUser, A!DeleteSessions, A!DeleteWithTempToken, A!Arrive
    <3>2. QED
      BY <1>3, <2>2, <3>1 DEF Linked, svars
  <2>6. QED
    BY <1>4, <2>3, <2>4, <2>5 DEF Request
<1>5. CASE Step(r)
  <2>1. CASE \E c \in S!Context : Authenticated(r, c)
    BY <1>3, <2>1 DEF Authenticated, S!Request, avars
  <2>2. CASE Rejected(r)
    <3>1. UNCHANGED svars /\ spc[r] = "idle"
      BY <2>2 DEF Rejected
    <3>2. QED
      BY <1>3, <2>2, <3>1 DEF Rejected, A!Step, svars
  <2>3. CASE RefreshLocked(r) \/ Granted(r)
    <3>1. spc'[r] \in {"ended", "granted"}
      BY <2>3 DEF RefreshLocked, Granted, S!LockedOut, S!Respond, S!Answer, S!Goto,
         SessionsShape
    <3>2. S!Step(r) /\ A!Step(r)
      BY <2>3 DEF RefreshLocked, Granted, S!Step, A!Step
    <3>3. QED
      BY <1>3, <3>1, <3>2
  <2>4. CASE RefreshChecked(r)
    <3>1. S!Step(r) /\ (A!Step(r) \/ UNCHANGED avars)
      BY <2>4 DEF RefreshChecked, S!Step, A!Step
    <3>2. spc[r] = "refresh" /\ spc'[r] \in {"ended", "revokeRead", "find"}
      BY <2>4 DEF RefreshChecked, S!Refresh, S!Answer, S!Goto, SessionsShape
    <3>3. spc'[r] = "find" => UNCHANGED avars
      BY <2>4 DEF RefreshChecked
    <3>4. QED
      BY <1>3, <3>1, <3>2, <3>3 DEF Linked, avars
  <2>5. CASE OverLimit(r) \/ TempUser(r) \/ Report(r) \/ Cleared(r) \/ DeleteUser(r)
    <3>1. UNCHANGED svars /\ (A!Step(r) \/ UNCHANGED avars)
      BY <2>5 DEF OverLimit, TempUser, Report, Cleared, DeleteUser, A!Step
    <3>2. spc[r] \notin OnItsWay
      BY <2>5 DEF OverLimit, TempUser, Report, Cleared, DeleteUser, A!TempUser,
         A!NothingDeleted, A!Clear, Linked
    <3>3. QED
      BY <1>3, <3>1, <3>2 DEF svars
  <2>6. CASE DeleteRows(r)
    <3>1. apc'[r] = apc[r] /\ spc'[r] = "ended" /\ spc' = [spc EXCEPT ![r] = "ended"]
          /\ apc' = apc
      BY <2>6 DEF DeleteRows, S!DeleteSessions, S!Goto, avars, SessionsShape
    <3>2. QED
      BY <1>2, <3>1
  <2>7. CASE FindSessionToRevoke(r)
    <3>1. spc'[r] \in {"ended", "revokeRead"} /\ spc' = [spc EXCEPT ![r] = spc'[r]]
      BY <2>7 DEF FindSessionToRevoke, S!UpdateOrDeleteUser, S!Goto, SessionsShape
    <3>2. apc' = apc \/ \E phase : apc' = [apc EXCEPT ![r] = phase]
      BY <2>7, OneMoves DEF FindSessionToRevoke, A!Step
    <3>3. QED
      BY <1>2, <3>1, <3>2
  <2>8. CASE SessionStep(r)
    <3>1. S!Step(r) /\ UNCHANGED avars
      BY <2>8 DEF SessionStep, S!Step
    <3>2. spc'[r] \in OnItsWay => spc[r] \in OnItsWay
      BY <2>8 DEF SessionStep, S!FindCurrent, S!CountSessions, S!Create, S!MarkRead,
         S!MarkWrite, S!TokenRead, S!TokenWrite, S!Delete, S!RevokeRead, S!RevokeWrite,
         S!Answer, S!Goto, SessionsShape
    <3>3. QED
      BY <1>3, <3>1, <3>2 DEF Linked, avars
  <2>9. CASE AccountStep(r)
    <3>1. A!Step(r) /\ apc[r] # "verify"
      BY <2>9 DEF AccountStep, A!Step, A!Record, A!Count, A!LockFind, A!LockInsert,
         A!ResolveFind, A!LimitInsert, A!SaveRead, A!SaveWrite, A!Reject
    <3>2. S!Step(r) \/ S!Fail(r) \/ UNCHANGED svars
      BY <2>9 DEF AccountStep, S!Step
    <3>3. spc'[r] \notin OnItsWay
      BY <2>9, <3>1 DEF AccountStep, S!Limit, S!Fail, S!Answer, S!Goto, SessionsShape,
         svars, Linked
    <3>4. QED
      BY <1>3, <3>1, <3>2, <3>3
  <2>10. QED
    BY <1>5, <2>1, <2>2, <2>3, <2>4, <2>5, <2>6, <2>7, <2>8, <2>9 DEF Step
<1>6. CASE Fail(r)
  <2>1. (S!Fail(r) \/ UNCHANGED svars) /\ (A!Fail(r) \/ UNCHANGED avars)
    BY <1>6 DEF Fail
  <2>2. spc'[r] \notin OnItsWay
    BY <1>6 DEF Fail, S!Fail, S!InFlight, S!Working, S!Answer, S!Goto, SessionsShape,
       svars
  <2>3. QED
    BY <1>3, <2>1, <2>2
<1>7. CASE Time(r)
  <2>1. UNCHANGED <<spc, apc>>
    BY <1>7 DEF Time, A!Pass, A!Age, svars
  <2>2. QED
    BY <2>1 DEF Linked
<1>8. QED
  BY <1>4, <1>5, <1>6, <1>7

-----------------------------------------------------------------------------
\* Inductive.
ApiInv == ApiShape /\ AccountShape /\ SessionsShape /\ Linked

LEMMA InitApi == Init => ApiInv
BY NoneAssumption DEF Init, S!Init, A!Init, ApiInv, ApiShape, AccountShape, SessionsShape,
   Linked, OnItsWay, SavingSession, S!Stored, A!UserRow, A!Phase, A!Nothing

LEMMA NextApi == ApiInv /\ [Next]_vars => ApiInv'
<1> SUFFICES ASSUME ApiInv, [Next]_vars PROVE ApiInv'
  OBVIOUS
<1>1. ApiShape'
  <2>1. CASE UNCHANGED vars
    BY <2>1 DEF vars, ApiInv, ApiShape
  <2>2. CASE Next
    BY <2>2, StepTalk, TalkShape DEF Next, ApiInv, AccountShape
  <2>3. QED
    BY <2>1, <2>2
<1>2. AccountShape' /\ SessionsShape'
  BY NextComponents, NextAccount, NextSessions DEF ApiInv
<1>3. Linked'
  BY NextLinked DEF ApiInv
<1>4. QED
  BY <1>1, <1>2, <1>3 DEF ApiInv

\* Whatever the API does to the sessions, Sessions allows, and whatever it does
\* to the account, Account does: what is proved of each holds of the API.
THEOREM ImplementsComponents ==
  Spec => /\ S!Init /\ [][S!Next]_svars
          /\ A!Init /\ [][A!Next]_avars
<1>1. Init => S!Init /\ A!Init
  BY DEF Init
<1>2. ApiInv /\ [Next]_vars => [S!Next]_svars /\ [A!Next]_avars
  BY NextComponents DEF ApiInv
<1>3. QED
  BY <1>1, <1>2, InitApi, NextApi, PTL DEF Spec

\* A step once the deletion of the account is final.
EndStep ==
    A!Settled =>
       /\ A!Settled'
       /\ S!LiveOf(Owner)' \subseteq S!LiveOf(Owner)
       /\ \A r \in Req : reply'[r] # reply[r] =>
             reply'[r] \notin {"AUTHENTICATED", "TOKENS_REFRESHED"}

LEMMA NextEnd == ApiInv /\ [Next]_vars => EndStep
<1> SUFFICES ASSUME ApiInv, [Next]_vars, A!Settled
             PROVE  /\ A!Settled'
                    /\ S!LiveOf(Owner)' \subseteq S!LiveOf(Owner)
                    /\ \A r \in Req : reply'[r] # reply[r] =>
                          reply'[r] \notin {"AUTHENTICATED", "TOKENS_REFRESHED"}
  BY DEF EndStep
<1>1. \A r \in Req : spc[r] \notin OnItsWay
  BY DEF ApiInv, Linked, AccountShape, A!Settled
<1>2. A!Settled' /\ S!LiveOf(Owner)' \subseteq S!LiveOf(Owner)
  BY <1>1, NextComponents, NextAccount, NextSessions DEF ApiInv
<1>3. ASSUME NEW q \in Req, reply'[q] # reply[q]
      PROVE  reply'[q] \notin {"AUTHENTICATED", "TOKENS_REFRESHED"}
  <2>1. PICK r \in Req : Request(r) \/ Step(r) \/ Fail(r) \/ Time(r)
    BY <1>3 DEF Next, vars
  <2>2. ~Granted(r)
    BY <1>1 DEF Granted, S!Respond, OnItsWay
  <2>3. PICK c \in Code \ Grants : reply' = [reply EXCEPT ![r] = c]
    BY <1>3, <2>1, <2>2, StepTalk DEF ApiInv, AccountShape
  <2>4. QED
    BY <1>3, <2>3 DEF ApiInv, ApiShape, Grants
<1>4. QED
  BY <1>2, <1>3

\* Once the account is deleted, and the requests that loaded it before are
\* answered, it gets no tokens, and no session of it comes to life.
THEOREM AccountEnds == Spec => DeletedAccountEnds
<1>1. ApiInv /\ [Next]_vars => EndStep
  BY NextEnd
<1>2. EndStep => [A!Settled =>
         /\ A!Settled'
         /\ S!LiveOf(Owner)' \subseteq S!LiveOf(Owner)
         /\ \A r \in Req : reply'[r] # reply[r] =>
               reply'[r] \notin {"AUTHENTICATED", "TOKENS_REFRESHED"}]_vars
  BY DEF EndStep
<1>3. QED
  BY <1>1, <1>2, InitApi, NextApi, PTL DEF Spec, DeletedAccountEnds

=============================================================================
