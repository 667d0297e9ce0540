------------------------------ MODULE Sessions ------------------------------
(***************************************************************************)
(* The sessions table of the NestJS backend and the HTTP requests that    *)
(* work on it: login, refresh, logout, the deletion of sessions and the    *)
(* revocation that follows a change or the deletion of an account          *)
(* (src/backends/nest/src/auth).  Requests run concurrently in one or more *)
(* Node processes against one Postgres database: every database statement  *)
(* is one step, and between two statements any other request may run.     *)
(*                                                                         *)
(* Each request inserts at most one session and signs at most one pair of  *)
(* tokens, so the request that made a session or a token is its name.     *)
(***************************************************************************)
EXTENDS Naturals, FiniteSets

CONSTANTS
    User, Ip, Ua,        \* users, IP addresses, user agents
    Req,                 \* requests; also the names of sessions and tokens
    None,                \* null: no row, no token, no call
    MaxActiveSessions,   \* users.maxActiveSessions
    PageSize,            \* defaultQueryOptions.pageSize
    MaxConcurrent        \* bound: requests in flight at the same time

Context == [ip : Ip, ua : Ua]

\* A row of the table: the columns the properties tell apart.  deletedAt and
\* revokedAt are kept as "is it set".
Row == [user : User, ctx : Context, token : Req \cup {None},
        deleted : BOOLEAN, revoked : BOOLEAN]

\* The columns that are ever updated.
Column == {"token", "deleted", "revoked"}

Kind == {"login", "refresh", "logout", "delete", "account"}

\* What a request carries: the authenticated user, the client's context where
\* it matters and, for a refresh, the refresh token it presents.
Call == [kind : Kind, user : User, ctx : Context \cup {None},
         presents : Req \cup {None}]

ASSUME NoneAssumption ==
    /\ None \notin Req
    /\ None \notin Context
    /\ None \notin Row
    /\ None \notin Call

ASSUME BoundAssumption ==
    /\ MaxActiveSessions \in Nat \ {0}
    /\ PageSize \in Nat \ {0}
    /\ MaxConcurrent \in Nat \ {0}

VARIABLES
    session,   \* [Req -> Row or None]: the sessions table
    pc,        \* [Req -> Phase]: where each request is
    call,      \* [Req -> Call or None]: its input
    sid,       \* [Req -> session or None]: authUser.sessionId, then the id of
               \* the entity in hand
    snap,      \* [Req -> Row or None]: the Session entity in memory
    dirty      \* [Req -> set of columns]: what a save in progress will UPDATE

vars == <<session, pc, call, sid, snap, dirty>>

Working == {"find", "count", "limiting", "create", "markRead", "markWrite",
            "tokenRead", "tokenWrite", "respond", "refresh", "delete",
            "revokeRead", "revokeWrite"}

\* granted: answered with an access and a refresh token; limited: answered
\* with a temporary token; ended: any other answer; failed: a statement threw
\* or the process stopped, and the rest of the request never ran.
Answered == {"granted", "limited", "ended", "failed"}

Phase == {"idle"} \cup Working \cup Answered

-----------------------------------------------------------------------------
(* Reading the table. *)

Stored(s) == session[s] # None

\* A row every SELECT of the code can see: soft-deleted rows are excluded.
Live(s) == Stored(s) /\ ~session[s].deleted

\* Faulty variant: a query that sees soft-deleted rows too.
LiveOfWithDeleted(u) == {s \in Req : Stored(s) /\ session[s].user = u}

LiveOf(u) == {s \in Req : Live(s) /\ session[s].user = u}

InFlight == {r \in Req : pc[r] \in Working}

\* The result of a query for one row: any match, or null when there is none.
OneOf(S) == IF S = {} THEN {None} ELSE S

\* Faulty variant: the query lost its user_id clause.
ContextMatchesAnyUser(u, c) == {s \in Req : Live(s) /\ session[s].ctx = c}

\* By (user_id, ip_address, user_agent).
ContextMatches(u, c) == {s \in LiveOf(u) : session[s].ctx = c}

\* findCurrentUserSession: by id when authUser carries one, else by context.
CurrentSessions(r) ==
    IF sid[r] # None
    THEN {s \in LiveOf(call[r].user) : s = sid[r]}
    ELSE ContextMatches(call[r].user, call[r].ctx)

\* findByAuthUser: by id and user_id.
ByAuthUser(u, s) == {x \in LiveOf(u) : x = s}

\* The user a token of request t was issued to: the JWT's "sub".
Subject(t) == IF pc[t] = "limited" THEN call[t].user ELSE session[sid[t]].user

-----------------------------------------------------------------------------
(* Changes to an entity, and the steps every request is made of. *)

SetHashedToken(row, t) == [row EXCEPT !.token = t]

SetDeleted(row) == [row EXCEPT !.deleted = TRUE]

SetRevoked(row) == [row EXCEPT !.deleted = TRUE, !.revoked = TRUE]

Arrive(r) == pc[r] = "idle" /\ Cardinality(InFlight) < MaxConcurrent

Goto(r, phase) == pc' = [pc EXCEPT ![r] = phase]

\* The request is answered.  It keeps only what its tokens carry: the session
\* id, the user of a temporary token, the refresh token it was given in
\* exchange for.
Answer(r, outcome) ==
    /\ Goto(r, outcome)
    /\ sid' = [sid EXCEPT ![r] = IF outcome = "granted" THEN @ ELSE None]
    /\ call' = [call EXCEPT ![r] =
                  IF outcome \in {"granted", "limited"} THEN @ ELSE None]
    /\ snap' = [snap EXCEPT ![r] = None]
    /\ dirty' = [dirty EXCEPT ![r] = {}]

\* repository.save: first a SELECT by id, soft-deleted rows included, that
\* finds the columns in which the entity differs from the row ...
Differs(entity, row) == {c \in Column : entity[c] # row[c]}

\* ... then an UPDATE of these columns.
Updated(row, entity, columns) ==
    [c \in DOMAIN row |-> IF c \in columns THEN entity[c] ELSE row[c]]

\* The SELECT of a save.  "always" are columns just set to a new timestamp,
\* which differ from whatever the row holds.
SaveRead(r, entity, always) ==
    /\ snap' = [snap EXCEPT ![r] = entity]
    /\ dirty' = [dirty EXCEPT ![r] =
                   Differs(entity, session[sid[r]]) \cup always]

\* The UPDATE of a save.
SaveWrite(r) ==
    session' = [session EXCEPT ![sid[r]] = Updated(@, snap[r], dirty[r])]

\* UPDATE sessions SET deleted_at = now() on the rows S, deleted before or not.
SoftDelete(S) ==
    session' = [s \in Req |-> IF s \in S THEN SetDeleted(session[s])
                                         ELSE session[s]]

-----------------------------------------------------------------------------
(* The requests. *)

\* POST /auth/login with valid credentials: verifyCredentials looks for a
\* session of this user and context and puts its id in authUser.
Login(r, u, c) ==
    /\ Arrive(r)
    /\ call' = [call EXCEPT ![r] =
                  [kind |-> "login", user |-> u, ctx |-> c, presents |-> None]]
    /\ \E s \in OneOf(ContextMatches(u, c)) : sid' = [sid EXCEPT ![r] = s]
    /\ Goto(r, "find")
    /\ UNCHANGED <<session, snap, dirty>>

\* POST /auth/refresh with the refresh token of t: verifyRefreshToken checks
\* the token against the stored hash.
RefreshValid(r, t, c) ==
    /\ Arrive(r)
    /\ pc[t] = "granted"
    /\ ByAuthUser(Subject(t), sid[t]) # {}
    /\ session[sid[t]].token = t
    /\ call' = [call EXCEPT ![r] = [kind |-> "refresh", user |-> Subject(t),
                                    ctx |-> c, presents |-> t]]
    /\ sid' = [sid EXCEPT ![r] = sid[t]]
    /\ Goto(r, "refresh")
    /\ UNCHANGED <<session, snap, dirty>>

\* The same with a token that expired, was replaced, or whose session is gone.
RefreshInvalid(r, t) ==
    /\ Arrive(r)
    /\ pc[t] = "granted"
    /\ Goto(r, "ended")
    /\ UNCHANGED <<session, call, sid, snap, dirty>>

\* verifyRefreshToken goes on to verifyNotLocked, which finds the user locked.
LockedOut(r) == pc[r] = "refresh" /\ Answer(r, "ended") /\ UNCHANGED session

\* AuthService.refresh: load the session again, revoke it if both halves of
\* the context changed, else go on as a login.
Refresh(r) ==
    /\ pc[r] = "refresh"
    /\ LET found == ByAuthUser(call[r].user, sid[r])
           row == session[sid[r]]
           suspicious == /\ row.ctx.ip # call[r].ctx.ip
                         /\ row.ctx.ua # call[r].ctx.ua
       IN \/ found = {} /\ Answer(r, "ended")
          \/ /\ found # {} /\ suspicious
             /\ snap' = [snap EXCEPT ![r] = row]
             /\ Goto(r, "revokeRead")
             /\ UNCHANGED <<call, sid, dirty>>
          \/ /\ found # {} /\ ~suspicious
             /\ Goto(r, "find")
             /\ UNCHANGED <<call, sid, snap, dirty>>
    /\ UNCHANGED session

\* AuthService.login, first query.
FindCurrent(r) ==
    /\ pc[r] = "find"
    /\ \E s \in OneOf(CurrentSessions(r)) :
         /\ sid' = [sid EXCEPT ![r] = s]
         /\ IF s = None
            THEN Goto(r, "count") /\ UNCHANGED snap
            ELSE /\ Goto(r, "markRead")
                 /\ snap' = [snap EXCEPT ![r] = session[s]]
    /\ UNCHANGED <<session, call, dirty>>

\* Faulty variant: off by one in the comparison with the limit.
CountSessionsOffByOne(r) ==
    /\ pc[r] = "count"
    /\ LET n == Cardinality(LiveOf(call[r].user))
           items == IF n < PageSize THEN n ELSE PageSize
       IN Goto(r, IF items > MaxActiveSessions THEN "limiting" ELSE "create")
    /\ UNCHANGED <<session, call, sid, snap, dirty>>

\* AuthService.login, second query: the first page of the user's sessions.
CountSessions(r) ==
    /\ pc[r] = "count"
    /\ LET n == Cardinality(LiveOf(call[r].user))
           items == IF n < PageSize THEN n ELSE PageSize
       IN Goto(r, IF items >= MaxActiveSessions THEN "limiting" ELSE "create")
    /\ UNCHANGED <<session, call, sid, snap, dirty>>

\* The answer that carries a temporary token.
Limit(r) == pc[r] = "limiting" /\ Answer(r, "limited") /\ UNCHANGED session

\* Faulty variant: the row is inserted without its user_id.
CreateWithoutUser(r) ==
    LET row == [user |-> None, ctx |-> call[r].ctx, token |-> None,
                deleted |-> FALSE, revoked |-> FALSE]
    IN /\ pc[r] = "create"
       /\ session' = [session EXCEPT ![r] = row]
       /\ snap' = [snap EXCEPT ![r] = row]
       /\ sid' = [sid EXCEPT ![r] = r]
       /\ Goto(r, "tokenRead")
       /\ UNCHANGED <<call, dirty>>

\* SessionsService.create.
Create(r) ==
    LET row == [user |-> call[r].user, ctx |-> call[r].ctx, token |-> None,
                deleted |-> FALSE, revoked |-> FALSE]
    IN /\ pc[r] = "create"
       /\ session' = [session EXCEPT ![r] = row]
       /\ snap' = [snap EXCEPT ![r] = row]
       /\ sid' = [sid EXCEPT ![r] = r]
       /\ Goto(r, "tokenRead")
       /\ UNCHANGED <<call, dirty>>

\* SessionsService.markLastActive: the save of the session as it was loaded.
MarkRead(r) ==
    /\ pc[r] = "markRead"
    /\ SaveRead(r, snap[r], {})
    /\ Goto(r, "markWrite")
    /\ UNCHANGED <<session, call, sid>>

\* Faulty variant: the save is repeated until it brings the session back to life.
MarkWriteRetry(r) ==
    /\ pc[r] = "markWrite"
    /\ UNCHANGED session
    /\ Goto(r, IF "deleted" \in dirty[r] THEN "markRead" ELSE "tokenRead")
    /\ UNCHANGED <<call, sid, snap, dirty>>

MarkWrite(r) ==
    /\ pc[r] = "markWrite"
    /\ SaveWrite(r)
    /\ Goto(r, "tokenRead")
    /\ UNCHANGED <<call, sid, snap, dirty>>

\* Faulty variant: setToken saves the new expiry date and not the new hash.
TokenReadOldToken(r) ==
    /\ pc[r] = "tokenRead"
    /\ SaveRead(r, snap[r], {})
    /\ Goto(r, "tokenWrite")
    /\ UNCHANGED <<session, call, sid>>

\* SessionsService.setToken: the save of the session with a new token.
TokenRead(r) ==
    /\ pc[r] = "tokenRead"
    /\ SaveRead(r, SetHashedToken(snap[r], r), {})
    /\ Goto(r, "tokenWrite")
    /\ UNCHANGED <<session, call, sid>>

TokenWrite(r) ==
    /\ pc[r] = "tokenWrite"
    /\ SaveWrite(r)
    /\ Goto(r, "respond")
    /\ UNCHANGED <<call, sid, snap, dirty>>

\* The LOGGED_IN event is handled and the tokens reach the client.
Respond(r) == pc[r] = "respond" /\ Answer(r, "granted") /\ UNCHANGED session

\* POST /auth/logout with the access token of t: findByAuthUser ...
Logout(r, t) ==
    /\ Arrive(r)
    /\ pc[t] = "granted"
    /\ IF ByAuthUser(Subject(t), sid[t]) = {}
       THEN Goto(r, "ended") /\ UNCHANGED <<call, sid>>
       ELSE /\ call' = [call EXCEPT ![r] =
                          [kind |-> "logout", user |-> Subject(t),
                           ctx |-> None, presents |-> None]]
            /\ sid' = [sid EXCEPT ![r] = sid[t]]
            /\ Goto(r, "delete")
    /\ UNCHANGED <<session, snap, dirty>>

\* ... then, after LOGGED_OUT, AbstractService.delete by id.
Delete(r) ==
    /\ pc[r] = "delete"
    /\ SoftDelete({sid[r]})
    /\ Answer(r, "ended")

\* DELETE /auth/sessions and /auth/sessions/:id with the access token or the
\* temporary token of t: one UPDATE WHERE user_id = sub AND id IN ids.
DeleteSessions(r, t, ids) ==
    /\ Arrive(r)
    /\ pc[t] \in {"granted", "limited"}
    /\ call' = [call EXCEPT ![r] =
                  [kind |-> "delete", user |-> Subject(t), ctx |-> None,
                   presents |-> None]]
    /\ SoftDelete({s \in ids : Stored(s) /\ session[s].user = Subject(t)})
    /\ Goto(r, "ended")
    /\ UNCHANGED <<sid, snap, dirty>>

\* PATCH and DELETE of /users with the access token of t: the part that loads
\* the current session in order to revoke it.
UpdateOrDeleteUser(r, t) ==
    /\ Arrive(r)
    /\ pc[t] = "granted"
    /\ IF ByAuthUser(Subject(t), sid[t]) = {}
       THEN Goto(r, "ended") /\ UNCHANGED <<call, sid, snap>>
       ELSE /\ call' = [call EXCEPT ![r] =
                          [kind |-> "account", user |-> Subject(t),
                           ctx |-> None, presents |-> None]]
            /\ sid' = [sid EXCEPT ![r] = sid[t]]
            /\ snap' = [snap EXCEPT ![r] = session[sid[t]]]
            /\ Goto(r, "revokeRead")
    /\ UNCHANGED <<session, dirty>>

\* SessionsService.revoke, after SESSION_REVOKED: deletedAt and revokedAt are
\* set on the entity and it is saved.
RevokeRead(r) ==
    /\ pc[r] = "revokeRead"
    /\ SaveRead(r, SetRevoked(snap[r]), {"deleted", "revoked"})
    /\ Goto(r, "revokeWrite")
    /\ UNCHANGED <<session, call, sid>>

RevokeWrite(r) ==
    /\ pc[r] = "revokeWrite"
    /\ SaveWrite(r)
    /\ Answer(r, "ended")

\* A statement throws, or the process dies, between two steps.
Fail(r) == r \in InFlight /\ Answer(r, "failed") /\ UNCHANGED session

-----------------------------------------------------------------------------
Init ==
    /\ session = [s \in Req |-> None]
    /\ pc = [r \in Req |-> "idle"]
    /\ call = [r \in Req |-> None]
    /\ sid = [r \in Req |-> None]
    /\ snap = [r \in Req |-> None]
    /\ dirty = [r \in Req |-> {}]

\* What the server does by itself once a request is in flight.
Step(r) ==
    \/ LockedOut(r) \/ Refresh(r) \/ FindCurrent(r) \/ CountSessions(r) \/ Limit(r)
    \/ Create(r) \/ MarkRead(r) \/ MarkWrite(r) \/ TokenRead(r)
    \/ TokenWrite(r) \/ Respond(r) \/ Delete(r) \/ RevokeRead(r)
    \/ RevokeWrite(r)

\* What a client may send.
Request(r) ==
    \/ \E u \in User, c \in Context : Login(r, u, c)
    \/ \E t \in Req :
         \/ \E c \in Context : RefreshValid(r, t, c)
         \/ RefreshInvalid(r, t)
         \/ Logout(r, t)
         \/ \E ids \in SUBSET Req : DeleteSessions(r, t, ids)
         \/ UpdateOrDeleteUser(r, t)

Next == \E r \in Req : Request(r) \/ Step(r) \/ Fail(r)

\* Without fairness.
Safety == Init /\ [][Next]_vars

\* A statement sent to the database is answered, and Node runs what awaits it.
Spec == Safety /\ \A r \in Req : WF_vars(Step(r))
-----------------------------------------------------------------------------
(* What the requests promise. *)

TypeOK ==
    /\ session \in [Req -> Row \cup {None}]
    /\ pc \in [Req -> Phase]
    /\ call \in [Req -> Call \cup {None}]
    /\ sid \in [Req -> Req \cup {None}]
    /\ snap \in [Req -> Row \cup {None}]
    /\ dirty \in [Req -> SUBSET Column]

\* Requests that will save an entity loaded while its session was live: they
\* may write deleted_at back to null.
Holds(r, s) ==
    pc[r] \in {"markRead", "markWrite", "tokenRead", "tokenWrite"} /\ sid[r] = s

\* The limit on active sessions is checked in one step and the session inserted
\* in a later one, and a stale save can bring a deleted session back.  Still,
\* however long the history, a user exceeds the limit by less than the number
\* of requests that run at the same time.
SessionLimit ==
    MaxActiveSessions <= PageSize =>
        \A u \in User :
            Cardinality(LiveOf(u)) <= MaxActiveSessions + MaxConcurrent - 1

\* A step of a request changes no session but those of the user the request is
\* authenticated as.
Actor(r) == IF pc[r] = "idle" THEN call'[r].user ELSE call[r].user

OwnSessionsOnly ==
    [][\A r, s \in Req :
          pc'[r] # pc[r] /\ session'[s] # session[s]
              => session'[s].user = Actor(r)]_vars

\* The refresh token t was exchanged for another that reached the client.
Spent(t) == \E r \in Req : pc[r] = "granted" /\ call[r].presents = t

\* As long as no request stops half-way, a live session that no request is
\* about to save holds a token that was handed out, or is on its way to the
\* client, and was not exchanged since: the stale saves of concurrent refreshes
\* bring an exchanged token back only for a moment.
FreshToken ==
    (\A r \in Req : pc[r] # "failed") =>
        \A s \in Req :
            Live(s) /\ (\A r \in Req : ~Holds(r, s)) =>
                LET t == session[s].token
                IN t # None /\ pc[t] \in {"respond", "granted"} /\ ~Spent(t)

\* The life of a session as SessionLifecycle describes it.
Status(s) ==
    IF ~Stored(s) THEN "unborn"
    ELSE IF Live(s) THEN "live"
    ELSE IF \E r \in Req : Holds(r, s) THEN "limbo"
    ELSE "dead"

Lifecycle == INSTANCE SessionLifecycle
                 WITH Id <- Req, status <- [s \in Req |-> Status(s)]

\* Once the last request that read a session before its deletion is over, the
\* session stays deleted; no other sequence of steps brings it back.
LifecycleSafety == Lifecycle!Safety

\* Every deleted session gets there: it does not stay in limbo for ever.
LimboEnds == Lifecycle!LimboEnds

-----------------------------------------------------------------------------
(* What a test of the repository says, and the code does not keep. *)

\* A refresh renews the session its token names, or is answered
\* SESSION_NOT_FOUND: it does not insert a session.
RefreshInsertsNothing ==
    [][\A r \in Req : session[r] = None /\ session'[r] # None
                          => call[r].kind # "refresh"]_vars
=============================================================================
