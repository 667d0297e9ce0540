------------------------------- MODULE Access -------------------------------
(***************************************************************************)
(* The API of one account: the endpoints of auth.controller.ts,            *)
(* sessions.controller.ts and users.controller.ts, with the guard before   *)
(* each and the answer it gives.  A request runs in two components at      *)
(* once, Sessions and Account; this module says which step of one goes     *)
(* with which step of the other.                                           *)
(*                                                                         *)
(* A request that a guard or a pipe refuses, or that only reads, changes    *)
(* nothing and is no step: Refusals and Reads say how it may be answered in *)
(* a state.                                                                *)
(***************************************************************************)
EXTENDS Naturals, FiniteSets

CONSTANTS
    Owner,               \* the user whose account it is
    Ip, Ua,              \* IP addresses, user agents
    Req,                 \* requests; also the names of what they make
    None,
    MaxActiveSessions,   \* users.maxActiveSessions
    PageSize,            \* defaultQueryOptions.pageSize
    MaxFailedLogins,     \* users.maxFailedLogins
    MaxConcurrent        \* bound: requests in flight at the same time

VARIABLES
    session, spc, call, sid, snap, sdirty,                     \* Sessions
    user, state, passed, audit, apc, goal, mem, adirty,        \* Account
    request,   \* [Req -> Received or None]: what was asked
    reply      \* [Req -> Code or None]: what was answered

S == INSTANCE Sessions WITH User <- {Owner}, pc <- spc, dirty <- sdirty
A == INSTANCE Account WITH pc <- apc, dirty <- adirty

svars == <<session, spc, call, sid, snap, sdirty>>
avars == <<user, state, passed, audit, apc, goal, mem, adirty>>
vars == <<svars, avars, request, reply>>

\* SessionsGuard takes an access token or a temporary token, AccessGuard an
\* access token.
SessionsEndpoint ==
    {"getSessions", "deleteSessions", "getSession", "deleteSession"}
AccessEndpoint == {"logout", "getUser", "updateUser", "deleteUser"}

Endpoint ==
    {"login", "refresh", "createUser"} \cup SessionsEndpoint \cup AccessEndpoint

\* token: the request that was given the token presented.  rows: the sessions
\* matched by the UPDATE, which are "reported" as deleted.
Received == [endpoint : Endpoint, token : Req \cup {None},
             rows : SUBSET Req, reported : BOOLEAN]

Success == {"AUTHENTICATED", "TOKENS_REFRESHED", "SESSION_LIMIT_REACHED",
            "LOGGED_OUT", "RESOURCES_FETCHED", "RESOURCE_FETCHED",
            "RESOURCES_DELETED", "RESOURCE_DELETED", "RESOURCE_UPDATED",
            "RESOURCE_CREATED"}

Error == {"VALIDATION_ERROR", "AUTHENTICATION_REQUIRED", "INVALID_CREDENTIALS",
          "SESSION_EXPIRED", "SESSION_NOT_FOUND", "SESSION_REVOKED",
          "RESOURCE_NOT_FOUND", "RESOURCE_ALREADY_EXISTS",
          "INTERNAL_SERVER_ERROR"}

\* "failed": a statement threw or the process stopped; the client gets
\* INTERNAL_SERVER_ERROR, or nothing.
Code == Success \cup Error \cup {"failed"}

\* null is none of the values it stands beside.
ASSUME NoneAssumption ==
    /\ None \notin Req /\ None \notin Code /\ None \notin Received
    /\ None \notin S!Context /\ None \notin S!Row /\ None \notin S!Call
    /\ None \notin A!StateRow /\ None \notin A!UserRow

\* Limits below one are possible, but nothing could be said of them.
ASSUME BoundAssumption ==
    /\ MaxActiveSessions \in Nat \ {0} /\ PageSize \in Nat \ {0}
    /\ MaxFailedLogins \in Nat \ {0} /\ MaxConcurrent \in Nat \ {0}

\* The HTTP status of an answer.
Status(code) ==
    CASE code = "VALIDATION_ERROR" -> 400
      [] code \in {"AUTHENTICATION_REQUIRED", "INVALID_CREDENTIALS",
                   "SESSION_EXPIRED", "SESSION_NOT_FOUND"} -> 401
      [] code = "SESSION_REVOKED" -> 403
      [] code = "RESOURCE_NOT_FOUND" -> 404
      [] code = "RESOURCE_ALREADY_EXISTS" -> 409
      [] code \in {"INTERNAL_SERVER_ERROR", "failed"} -> 500
      [] code = "RESOURCE_CREATED" -> 201
      [] OTHER -> 200

InFlight == {r \in Req : request[r] # None /\ reply[r] = None}

-----------------------------------------------------------------------------
(* Receiving and answering. *)

Arrive(r) == request[r] = None /\ Cardinality(InFlight) < MaxConcurrent

Receive(r, e, t) ==
    /\ Arrive(r)
    /\ request' = [request EXCEPT ![r] = [endpoint |-> e, token |-> t,
                                          rows |-> {}, reported |-> FALSE]]
    /\ UNCHANGED reply

\* The answer.  Of the request, only the endpoint is kept.
Reply(r, e, code) ==
    /\ reply' = [reply EXCEPT ![r] = code]
    /\ request' = [request EXCEPT ![r] = [endpoint |-> e, token |-> None,
                                          rows |-> {}, reported |-> FALSE]]

Waits == UNCHANGED <<request, reply>>

Is(r, e) == r \in InFlight /\ request[r].endpoint = e

\* The request goes on while it has steps to do in a component.
Goes(phase, working, r, code) ==
    IF phase \in working THEN Waits ELSE Reply(r, request[r].endpoint, code)

-----------------------------------------------------------------------------
(* Tokens and guards. *)

\* An access token is accepted until it expires, whatever became of its session.
HasAccess(t) == spc[t] = "granted"

\* verifyRefreshToken: the session is there, and the token is its own.
RefreshMatches(t) ==
    /\ spc[t] = "granted"
    /\ S!ByAuthUser(Owner, sid[t]) # {}
    /\ session[sid[t]].token = t

\* findUserStateOrFail, verifyStateToken.
TempMatches(t) ==
    spc[t] = "limited" /\ t \in A!ActiveOf("limit") /\ state[t].token = t

IsLocked == A!HasState(A!UserWithStates, "lock")

\* Some token opens the endpoints of SessionsGuard.
SomeSessionsToken ==
    \E t \in Req : HasAccess(t) \/ (TempMatches(t) /\ ~user.deleted /\ ~IsLocked)

SomeAccessToken == \E t \in Req : HasAccess(t)

When(condition, codes) == IF condition THEN codes ELSE {}

\* The answers of the guards: to no token, one of another kind or secret, an
\* expired one, one that is no JWT, one that was right once, and the tokens of
\* an account that was deleted.
Refusals(e) ==
    CASE e = "createUser" -> {}
      [] e = "login" -> {"VALIDATION_ERROR", "INVALID_CREDENTIALS"}
      [] OTHER ->
         {"AUTHENTICATION_REQUIRED", "INVALID_CREDENTIALS", "SESSION_EXPIRED"}
         \cup When(e = "refresh" /\ \E t \in Req : HasAccess(t) /\ ~RefreshMatches(t),
                   {"SESSION_NOT_FOUND"})
         \cup When(e = "refresh" /\ user.deleted /\ \E t \in Req : RefreshMatches(t),
                   {"INTERNAL_SERVER_ERROR"})
         \cup When(e \in SessionsEndpoint, {"INTERNAL_SERVER_ERROR"})
         \cup When(e \in SessionsEndpoint
                     /\ \E t \in Req : spc[t] = "limited" /\ ~TempMatches(t),
                   {"SESSION_NOT_FOUND"})
         \cup When(e \in SessionsEndpoint /\ user.deleted
                     /\ \E t \in Req : TempMatches(t),
                   {"RESOURCE_NOT_FOUND"})

\* After the guard: the answers of the pipes, and of the endpoints that change
\* nothing here.  Who registers gets an account of his own.
Reads(e) ==
    CASE e = "createUser" ->
           {"VALIDATION_ERROR", "RESOURCE_CREATED", "RESOURCE_ALREADY_EXISTS"}
      [] e = "getUser" ->
           When(SomeAccessToken, {"VALIDATION_ERROR"})
           \cup When(SomeAccessToken /\ ~user.deleted, {"RESOURCE_FETCHED"})
      [] e = "updateUser" -> When(SomeAccessToken, {"VALIDATION_ERROR"})
      [] e = "getSessions" ->
           When(SomeSessionsToken, {"VALIDATION_ERROR", "RESOURCES_FETCHED"})
      [] e = "getSession" ->
           When(SomeSessionsToken, {"VALIDATION_ERROR", "RESOURCE_NOT_FOUND"})
           \cup When(SomeSessionsToken /\ \E s \in Req : S!Stored(s),
                     {"RESOURCE_FETCHED"})
      [] e \in {"deleteSession", "deleteSessions"} ->
           When(SomeSessionsToken, {"VALIDATION_ERROR"})
      [] OTHER -> {}

-----------------------------------------------------------------------------
(* Login and refresh. *)

\* POST /auth/login: findUserOrFail.
PostLogin(r) == Receive(r, "login", None) /\ A!Load(r) /\ UNCHANGED svars

\* The password is right and the user not locked: findSession.
Authenticated(r, c) ==
    /\ Is(r, "login") /\ spc[r] = "idle"
    /\ apc[r] = "verify" /\ ~A!HasState(mem[r], "lock")
    /\ S!Login(r, Owner, c)
    /\ UNCHANGED avars /\ Waits

\* The password is wrong, or the user is locked.
Rejected(r) ==
    /\ Is(r, "login") /\ spc[r] = "idle"
    /\ A!Mismatch(r) \/ A!Locked(r)
    /\ UNCHANGED svars
    /\ Goes(apc'[r], A!Working, r, "INVALID_CREDENTIALS")

\* POST /auth/refresh: one query for the session, its user and the states.
PostRefresh(r, t, c) ==
    /\ Receive(r, "refresh", t)
    /\ A!Load(r) /\ S!RefreshValid(r, t, c)

\* Faulty variant: the answer of a missing resource.
RefreshLockedNotFound(r) ==
    /\ Is(r, "refresh")
    /\ A!Locked(r) /\ S!LockedOut(r)
    /\ Reply(r, "refresh", "RESOURCE_NOT_FOUND")

RefreshLocked(r) ==
    /\ Is(r, "refresh")
    /\ A!Locked(r) /\ S!LockedOut(r)
    /\ Reply(r, "refresh", "INVALID_CREDENTIALS")

\* The session is gone by now, is to be revoked, or is refreshed.
RefreshChecked(r) ==
    /\ Is(r, "refresh")
    /\ ~A!HasState(mem[r], "lock")
    /\ S!Refresh(r)
    /\ IF spc'[r] = "find" THEN UNCHANGED avars
                           ELSE A!Verified(r) /\ apc'[r] = "done"
    /\ Goes(spc'[r], S!Working, r, "SESSION_NOT_FOUND")

\* login, over the limit: resolveStates comes next.
OverLimit(r) ==
    /\ r \in InFlight
    /\ spc[r] = "limiting"
    /\ A!Verified(r) /\ apc'[r] = "resolveFind"
    /\ UNCHANGED svars /\ Waits

Granted(r) ==
    /\ r \in InFlight
    /\ S!Respond(r)
    /\ A!Verified(r) /\ apc'[r] = "granted"
    /\ Reply(r, request[r].endpoint,
             IF request[r].endpoint = "login" THEN "AUTHENTICATED"
                                              ELSE "TOKENS_REFRESHED")
-----------------------------------------------------------------------------
(* Logout, and the deletion of sessions. *)

PostLogout(r, t) ==
    /\ Arrive(r)
    /\ S!Logout(r, t) /\ UNCHANGED avars
    /\ IF spc'[r] = "ended" THEN Reply(r, "logout", "SESSION_NOT_FOUND")
                            ELSE Receive(r, "logout", t)

\* DELETE /auth/sessions and /auth/sessions/:id, with an access token ...
PostDeletion(r, e, t) ==
    /\ HasAccess(t)
    /\ Receive(r, e, t)
    /\ A!DeleteSessions(r) /\ UNCHANGED svars

\* ... or with a temporary one.
PostDeletionWithTempToken(r, e, t) ==
    /\ spc[t] = "limited"
    /\ Receive(r, e, t)
    /\ A!DeleteWithTempToken(r, t) /\ UNCHANGED svars

TempUser(r) ==
    /\ r \in InFlight
    /\ A!TempUser(r) /\ UNCHANGED svars
    /\ Goes(apc'[r], A!Working, r, IF user.deleted THEN "RESOURCE_NOT_FOUND"
                                                  ELSE "INVALID_CREDENTIALS")

IsDeletionEndpoint(e) == e \in {"deleteSession", "deleteSessions"}

IsDeletion(r) == r \in InFlight /\ IsDeletionEndpoint(request[r].endpoint)

\* The UPDATE.  deleteOne takes the number of rows it matched as its report ...
DeleteRows(r) ==
    /\ IsDeletion(r) /\ spc[r] = "idle" /\ apc[r] = "clear"
    /\ \E ids \in SUBSET {s \in Req : S!Stored(s)} :
         /\ Is(r, "deleteSession") => Cardinality(ids) <= 1
         /\ S!DeleteSessions(r, request[r].token, ids)
         /\ request' = [request EXCEPT ![r].rows = ids,
                                      ![r].reported = Is(r, "deleteSession")]
    /\ UNCHANGED <<avars, reply>>

\* ... deleteMany asks which of the rows are deleted now.  But findIds selects the
\* column deleted_at, which TypeORM does not take for the property deletedAt: that
\* is undefined, and not null, in each row found.
Report(r) ==
    /\ Is(r, "deleteSessions") /\ spc[r] = "ended" /\ ~request[r].reported
    /\ request' = [request EXCEPT ![r].reported = TRUE]
    /\ UNCHANGED <<svars, avars, reply>>

\* Faulty variant: the name of the event.
DeletedEvent(r) == "SESSIONS_DELETED"

Deleted(r) == IF request[r].endpoint = "deleteSession" THEN "RESOURCE_DELETED"
                                                      ELSE "RESOURCES_DELETED"

\* Faulty variant: more than one row, instead of one or more.
ClearedOffByOne(r) ==
    /\ IsDeletion(r) /\ request[r].reported
    /\ IF Cardinality(request[r].rows) <= 1 THEN A!NothingDeleted(r) ELSE A!Clear(r)
    /\ UNCHANGED svars
    /\ Goes(apc'[r], A!Working, r, Deleted(r))

\* SESSIONS_DELETED, if there is something to tell.
Cleared(r) ==
    /\ IsDeletion(r) /\ request[r].reported
    /\ IF request[r].rows = {} THEN A!NothingDeleted(r) ELSE A!Clear(r)
    /\ UNCHANGED svars
    /\ Goes(apc'[r], A!Working, r, Deleted(r))

-----------------------------------------------------------------------------
(* Change and deletion of the account. *)

\* PATCH /user: the user is loaded, and saved before anything else.
PatchUser(r, t) ==
    /\ HasAccess(t)
    /\ Receive(r, "updateUser", t)
    /\ A!UpdateUser(r) /\ UNCHANGED svars

\* DELETE /user: the user is loaded.
PostDeleteUser(r, t) ==
    /\ HasAccess(t)
    /\ Receive(r, "deleteUser", t)
    /\ A!DeleteUser(r) /\ UNCHANGED svars

\* Both: findByAuthUser.
FindSessionToRevoke(r) ==
    /\ spc[r] = "idle"
    /\ \/ Is(r, "updateUser") /\ apc[r] = "done"
       \/ Is(r, "deleteUser")
    /\ S!UpdateOrDeleteUser(r, request[r].token)
    /\ IF spc'[r] = "ended" /\ apc[r] = "delete"
       THEN A!Delete(r) /\ apc'[r] = "refused"
       ELSE UNCHANGED avars
    /\ Goes(spc'[r], S!Working, r, "SESSION_NOT_FOUND")

DeleteUser(r) ==
    /\ Is(r, "deleteUser") /\ spc[r] = "revokeRead"
    /\ A!Delete(r) /\ apc'[r] = "done"
    /\ UNCHANGED svars /\ Waits

-----------------------------------------------------------------------------
(* The other steps of the components, and how they end. *)

SessionStep(r) ==
    /\ r \in InFlight
    /\ \/ S!FindCurrent(r) \/ S!CountSessions(r) \/ S!Create(r)
       \/ S!MarkRead(r) \/ S!MarkWrite(r) \/ S!TokenRead(r) \/ S!TokenWrite(r)
       \/ S!Delete(r) \/ (apc[r] # "delete" /\ S!RevokeRead(r)) \/ S!RevokeWrite(r)
    /\ UNCHANGED avars
    /\ Goes(spc'[r], S!Working, r,
            CASE request[r].endpoint = "logout" -> "LOGGED_OUT"
              [] request[r].endpoint = "refresh" -> "SESSION_REVOKED"
              [] request[r].endpoint = "updateUser" -> "RESOURCE_UPDATED"
              [] OTHER -> "RESOURCE_DELETED")

\* What the account component's answer is for the client.  A listener's error
\* is only logged.
AccountCode(r, outcome) ==
    CASE outcome = "limited" -> "SESSION_LIMIT_REACHED"
      [] outcome = "refused" -> "INVALID_CREDENTIALS"
      [] outcome = "done" -> Deleted(r)
      [] outcome = "rejected" -> "INTERNAL_SERVER_ERROR"

AccountStep(r) ==
    /\ r \in InFlight
    /\ \/ A!Record(r) \/ A!Count(r) \/ A!LockFind(r) \/ A!LockInsert(r)
       \/ A!ResolveFind(r) \/ A!LimitInsert(r)
       \/ A!SaveRead(r) \/ A!SaveWrite(r) \/ A!Reject(r)
    /\ IF apc'[r] = "limited" THEN S!Limit(r)
       ELSE IF apc'[r] = "rejected" /\ r \in S!InFlight THEN S!Fail(r)
       ELSE UNCHANGED svars
    /\ IF apc'[r] \in A!Working \/ (Is(r, "updateUser") /\ apc'[r] = "done")
       THEN Waits
       ELSE Reply(r, request[r].endpoint, AccountCode(r, apc'[r]))

\* Faulty variant: whatever a save throws is taken for a unique key conflict.
FailAsConflict(r) ==
    /\ r \in InFlight
    /\ IF r \in S!InFlight THEN S!Fail(r) ELSE UNCHANGED svars
    /\ IF r \in A!InFlight THEN A!Fail(r) ELSE UNCHANGED avars
    /\ \E code \in {"failed", "RESOURCE_ALREADY_EXISTS"} :
         Reply(r, request[r].endpoint, code)

\* A statement throws, or the process stops.  The save of a user whose new name
\* is taken throws too, and what the listener throws is not noticed.
Fail(r) ==
    /\ r \in InFlight
    /\ IF r \in S!InFlight THEN S!Fail(r) ELSE UNCHANGED svars
    /\ IF r \in A!InFlight THEN A!Fail(r) ELSE UNCHANGED avars
    /\ \E code \in {"failed"}
                 \cup When(goal[r] = "update", {"RESOURCE_ALREADY_EXISTS"})
                 \cup When(request[r].reported, {Deleted(r)}) :
         Reply(r, request[r].endpoint, code)

Time(r) == (A!Pass(r) \/ A!Age(r)) /\ UNCHANGED svars /\ Waits

-----------------------------------------------------------------------------
Init ==
    /\ S!Init /\ A!Init
    /\ request = [r \in Req |-> None]
    /\ reply = [r \in Req |-> None]

Request(r) ==
    \/ PostLogin(r)
    \/ \E t \in Req :
         \/ PostLogout(r, t) \/ PatchUser(r, t) \/ PostDeleteUser(r, t)
         \/ \E c \in S!Context : PostRefresh(r, t, c)
         \/ \E e \in {"deleteSession", "deleteSessions"} :
              PostDeletion(r, e, t) \/ PostDeletionWithTempToken(r, e, t)

Step(r) ==
    \/ \E c \in S!Context : Authenticated(r, c)
    \/ Rejected(r) \/ RefreshLocked(r) \/ RefreshChecked(r) \/ OverLimit(r)
    \/ Granted(r) \/ TempUser(r) \/ DeleteRows(r) \/ Report(r) \/ Cleared(r)
    \/ FindSessionToRevoke(r) \/ DeleteUser(r) \/ SessionStep(r) \/ AccountStep(r)

Next == \E r \in Req : Request(r) \/ Step(r) \/ Fail(r) \/ Time(r)

Spec == Init /\ [][Next]_vars
-----------------------------------------------------------------------------
TypeOK ==
    /\ S!TypeOK /\ A!TypeOK
    /\ request \in [Req -> Received \cup {None}]
    /\ reply \in [Req -> Code \cup {None}]

-----------------------------------------------------------------------------
(* What the API promises. *)

\* The statuses listed for each endpoint in docs/spec/paths.
Documented(e) ==
    CASE e = "login" -> {200, 400, 401, 500}
      [] e = "logout" -> {200, 401, 500}
      [] e = "refresh" -> {200, 401, 403, 500}
      [] e = "getSessions" -> {200, 401}
      [] e = "deleteSessions" -> {200, 400, 401}
      [] e \in {"getSession", "deleteSession"} -> {200, 401, 404}
      [] e = "getUser" -> {200, 401}
      [] e = "createUser" -> {201, 400, 409}
      [] e = "updateUser" -> {200, 400, 401, 409}
      [] e = "deleteUser" -> {200, 401}

\* The others: a query, an id or a body that does not validate; a bearer token
\* that is no JWT, at the sessions; a temporary token of a deleted account.
Undocumented(e) ==
    When(e \in {"getUser", "getSessions", "getSession", "deleteSession"}, {400})
    \cup When(e \in SessionsEndpoint, {404, 500})

\* Someone asked for the deletion of the account, whatever became of it.
DeletionAsked ==
    \E d \in Req : request[d] # None /\ request[d].endpoint = "deleteUser"

\* As long as no statement fails, a request gets an answer its endpoint
\* documents, but for the cases just named; and once it passed its guard and
\* pipes, but for the last of them.
AnswersDocumented ==
    /\ \A e \in Endpoint : \A code \in Refusals(e) \cup Reads(e) :
          Status(code) \in Documented(e) \cup Undocumented(e)
    /\ \A r \in Req : reply[r] \notin {None, "failed"} =>
          \/ Status(reply[r]) \in Documented(request[r].endpoint)
          \/ reply[r] = "RESOURCE_NOT_FOUND" /\ DeletionAsked

\* A request answered with an error has inserted no session, changed no password
\* and handed out no temporary token: except that a change of the account whose
\* session has been deleted is in effect and answered SESSION_NOT_FOUND.
ErrorsLeaveNothing ==
    \A r \in Req : reply[r] \in Error =>
        /\ ~S!Stored(r)
        /\ user.password = r => /\ request[r].endpoint = "updateUser"
                                /\ reply[r] = "SESSION_NOT_FOUND"
        /\ A!Stored(r) => A!IsLock(r)

\* Once the account is deleted, and the requests that loaded it before are
\* answered, that is final: it gets no tokens, and no session of it comes to life.
DeletedAccountEnds ==
    [][A!Settled =>
         /\ A!Settled'
         /\ S!LiveOf(Owner)' \subseteq S!LiveOf(Owner)
         /\ \A r \in Req : reply'[r] # reply[r] =>
               reply'[r] \notin {"AUTHENTICATED", "TOKENS_REFRESHED"}]_vars

NoLocks == \A s \in Req : ~A!IsLock(s)

\* Each login at the limit makes the temporary tokens before it useless, two at
\* a time even those of each other.  Still a user who is at the limit and only
\* logs in, however concurrently, is left with a token to free a session with.
OneTempTokenWorks ==
    /\ \A r \in Req : /\ r \notin InFlight
                      /\ reply[r] # "failed"
                      /\ request[r] # None => ~IsDeletionEndpoint(request[r].endpoint)
    /\ NoLocks
    /\ \E r \in Req : reply[r] = "SESSION_LIMIT_REACHED"
    => \E t \in Req : TempMatches(t) \/ (A!Stored(t) /\ t \in passed)

\* A step answers request r, a deletion with the temporary token of t, and says
\* that sessions were deleted.
DeletedWith(r, t) ==
    /\ r \in InFlight /\ request[r].token = t /\ spc[t] = "limited"
    /\ request[r].reported /\ request[r].rows # {}
    /\ reply'[r] \in Success

\* A deletion that succeeds with a temporary token uses it up, unless the listener
\* failed, or a login inserted a state after the listener had loaded the others,
\* so that its save is rejected: whatever else is saved at the same time, and
\* until a lock is set.
TempTokenSpent ==
    [][\A r, t \in Req :
         DeletedWith(r, t) /\ apc'[r] # "failed" /\ NoLocks'
         => ~TempMatches(t)' \/ user.deleted \/ A!Orphans(mem[r]) # {}]_vars

-----------------------------------------------------------------------------
(* What a test of the repository says, and the code does not keep. *)

\* What auth-sessions.e2e-spec.ts expects: a successful deletion resolves the
\* state of the session limit, at least that of the token it was done with.
TempTokenUsedUp ==
    [][\A r, t \in Req :
         DeletedWith(r, t) /\ apc'[r] # "failed" /\ NoLocks'
         => ~TempMatches(t)' \/ user.deleted]_vars
=============================================================================
