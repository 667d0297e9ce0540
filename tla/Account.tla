------------------------------- MODULE Account -------------------------------
(***************************************************************************)
(* One account: its row of the users table, its rows of user_states (the   *)
(* lock after too many wrong passwords, the state behind a temporary       *)
(* token), and the requests that work on them: login, refresh, the two     *)
(* ways to delete sessions, and the change and deletion of the account.    *)
(* All their statements are restricted to one user, so one account stands  *)
(* for all.  Every database statement is one step.                         *)
(*                                                                         *)
(* What these requests do to the sessions table is the subject of Sessions;*)
(* whether a login finds the session limit reached is left open here.      *)
(***************************************************************************)
EXTENDS Naturals, FiniteSets

CONSTANTS
    Req,               \* requests; also the names of what a request makes: its
                       \* user_state, its date, its password, its token
    None,              \* null, or the password given at sign-up
    MaxFailedLogins,   \* users.maxFailedLogins
    MaxConcurrent      \* bound: requests in flight at the same time

\* user_states: lock is ACCOUNT_LOCKED, limit is SESSION_LIMIT_REACHED.
StateRow == [name : {"lock", "limit"}, expires : Req \cup {None},
             resolved : BOOLEAN, token : Req \cup {None}]

StateColumn == {"expires", "resolved", "token"}

UserRow == [password : Req \cup {None}, deleted : BOOLEAN]

UserColumn == {"password", "deleted"}

\* The entities a request has in memory: the user, if it loaded it, and user
\* states.  related: the states are the "states" relation of that user.
Memory == [user : UserRow \cup {None}, related : BOOLEAN,
           states : [Req -> StateRow \cup {None}]]

ASSUME NoneAssumption ==
    None \notin Req /\ None \notin StateRow /\ None \notin UserRow

ASSUME BoundAssumption ==
    MaxFailedLogins \in Nat \ {0} /\ MaxConcurrent \in Nat \ {0}

VARIABLES
    user,     \* UserRow
    state,    \* [Req -> StateRow or None]: the rows of user_states
    passed,   \* dates that have passed
    audit,    \* [Req -> AuditLog]: the INVALID_PASSWORD rows of audit_logs
    pc,       \* [Req -> Phase]
    goal,     \* [Req -> Goal]: what the save in progress is for
    mem,      \* [Req -> Memory]
    dirty     \* [Req -> set of columns]: what that save will UPDATE

vars == <<user, state, passed, audit, pc, goal, mem, dirty>>

\* recent: created within the last lockTimeoutMs.
AuditLog == {"none", "recent", "old"}

Goal == {"none", "lock", "resolve", "token", "clear", "update"}

Working == {"verify", "record", "count", "lockFind", "lockInsert",
            "resolveFind", "limitInsert", "tempUser", "clear", "update",
            "delete", "saveRead", "saveWrite", "reject"}

\* granted: goes on below the session limit; limited: answered with a temporary
\* token; refused, done: any other answer; rejected: the database refused a
\* save; failed: a statement threw or the process stopped.
Answered == {"granted", "limited", "refused", "done", "rejected", "failed"}

Phase == {"idle"} \cup Working \cup Answered

\* A column of the user is <<None, name>>, a column of state s is <<s, name>>.
Column == ({None} \X UserColumn) \cup (Req \X StateColumn)

-----------------------------------------------------------------------------
Stored(s) == state[s] # None

\* UserState.isActive, and the same condition in the queries.
IsActive(row) ==
    /\ ~row.resolved
    /\ row.expires = None \/ row.expires \notin passed

ActiveOf(name) ==
    {s \in Req : Stored(s) /\ state[s].name = name /\ IsActive(state[s])}

\* Faulty variant: a lock without an end date does not count.
HasStateWithDate(m, name) ==
    \E s \in Req : /\ m.states[s] # None
                   /\ m.states[s].name = name
                   /\ IsActive(m.states[s]) /\ m.states[s].expires # None

\* User.hasState, over the entities in memory.
HasState(m, name) ==
    \E s \in Req : /\ m.states[s] # None
                   /\ m.states[s].name = name
                   /\ IsActive(m.states[s])

OneOf(S) == IF S = {} THEN {None} ELSE S

NoStates == [s \in Req |-> None]

Nothing == [user |-> None, related |-> FALSE, states |-> NoStates]

\* A user loaded with expand: ['states.state'].
UserWithStates == [user |-> user, related |-> TRUE, states |-> state]

InFlight == {r \in Req : pc[r] \in Working}

Arrive(r) == pc[r] = "idle" /\ Cardinality(InFlight) < MaxConcurrent

Goto(r, phase) == pc' = [pc EXCEPT ![r] = phase]

Keep(r, m) == mem' = [mem EXCEPT ![r] = m]

\* The entities m are to be saved.
Save(r, m, g) ==
    /\ Goto(r, "saveRead")
    /\ Keep(r, m)
    /\ goal' = [goal EXCEPT ![r] = g]

Answer(r, outcome) ==
    /\ Goto(r, outcome)
    /\ Keep(r, Nothing)
    /\ goal' = [goal EXCEPT ![r] = "none"]
    /\ dirty' = [dirty EXCEPT ![r] = {}]

-----------------------------------------------------------------------------
(* Login and refresh. *)

\* Faulty variant: the query sees deleted users too.
LoadDeleted(r) ==
    /\ Arrive(r)
    /\ Keep(r, UserWithStates)
    /\ Goto(r, "verify")
    /\ UNCHANGED <<user, state, passed, audit, goal, dirty>>

\* findUserOrFail of a login, findSessionOrFail of a refresh: the user and all
\* its states.
Load(r) ==
    /\ Arrive(r)
    /\ ~user.deleted
    /\ Keep(r, UserWithStates)
    /\ Goto(r, "verify")
    /\ UNCHANGED <<user, state, passed, audit, goal, dirty>>

\* The password or the token is right, the user in memory is not locked, and
\* the login or refresh goes on, below the session limit or over it, or finds
\* that the session of a refresh is gone or is to be revoked.
Verified(r) ==
    /\ pc[r] = "verify"
    /\ ~HasState(mem[r], "lock")
    /\ \/ Answer(r, "granted") \/ Answer(r, "done")
       \/ Goto(r, "resolveFind") /\ UNCHANGED <<goal, mem, dirty>>
    /\ UNCHANGED <<user, state, passed, audit>>

Locked(r) ==
    /\ pc[r] = "verify"
    /\ HasState(mem[r], "lock")
    /\ Answer(r, "refused")
    /\ UNCHANGED <<user, state, passed, audit>>

\* The password is wrong.
Mismatch(r) ==
    /\ pc[r] = "verify"
    /\ Goto(r, "record")
    /\ UNCHANGED <<user, state, passed, audit, goal, mem, dirty>>

\* INVALID_PASSWORD and its audit row; an error of the listener goes unnoticed.
Record(r) ==
    /\ pc[r] = "record"
    /\ audit' \in {audit, [audit EXCEPT ![r] = "recent"]}
    /\ Goto(r, "count")
    /\ UNCHANGED <<user, state, passed, goal, mem, dirty>>

Recent == {r \in Req : audit[r] = "recent"}

\* Faulty variant: one failed login less.
CountOffByOne(r) ==
    /\ pc[r] = "count"
    /\ IF Cardinality(Recent) + 1 >= MaxFailedLogins
       THEN Goto(r, "lockFind") /\ UNCHANGED <<goal, mem, dirty>>
       ELSE Answer(r, "refused")
    /\ UNCHANGED <<user, state, passed, audit>>

\* Faulty variant: one failed login more.
CountTooLate(r) ==
    /\ pc[r] = "count"
    /\ IF Cardinality(Recent) > MaxFailedLogins
       THEN Goto(r, "lockFind") /\ UNCHANGED <<goal, mem, dirty>>
       ELSE Answer(r, "refused")
    /\ UNCHANGED <<user, state, passed, audit>>

\* checkIfShouldLockAccount.
Count(r) ==
    /\ pc[r] = "count"
    /\ IF Cardinality(Recent) >= MaxFailedLogins
       THEN Goto(r, "lockFind") /\ UNCHANGED <<goal, mem, dirty>>
       ELSE Answer(r, "refused")
    /\ UNCHANGED <<user, state, passed, audit>>

\* Faulty variant: the end is the length of the lock, not a date.
SetLockNoDate(r, s, row) ==
    LET new == [name |-> row.name, expires |-> MaxFailedLogins,
                resolved |-> row.resolved, token |-> row.token]
    IN Save(r, [user |-> mem[r].user, related |-> TRUE,
                states |-> [mem[r].states EXCEPT ![s] = new]], "lock")

\* lockUser after findOrCreate gave the entity of row s: its new end date, and
\* setState, which ignores it if the user in memory has an active lock.  Where
\* the user's states hold an older entity of s, either may be the one saved.
SetLock(r, s, row) ==
    LET new == [name |-> row.name, expires |-> r,
                resolved |-> row.resolved, token |-> row.token]
        old == mem[r].states[s]
        pushed == IF HasState(mem[r], "lock") THEN {old}
                  ELSE {new} \cup ({old} \ {None})
    IN \E x \in pushed :
         Save(r, [user |-> mem[r].user, related |-> TRUE,
                  states |-> [mem[r].states EXCEPT ![s] = x]], "lock")

\* findOrCreate, its query ...
LockFind(r) ==
    /\ pc[r] = "lockFind"
    /\ \E s \in OneOf(ActiveOf("lock")) :
         IF s = None THEN Goto(r, "lockInsert") /\ UNCHANGED <<goal, mem>>
                     ELSE SetLock(r, s, state[s])
    /\ UNCHANGED <<user, state, passed, audit, dirty>>

\* ... and, where it finds none, its INSERT: a lock with no end.
LockInsert(r) ==
    LET row == [name |-> "lock", expires |-> None, resolved |-> FALSE,
                token |-> None]
    IN /\ pc[r] = "lockInsert"
       /\ state' = [state EXCEPT ![r] = row]
       /\ SetLock(r, r, row)
       /\ UNCHANGED <<user, passed, audit, dirty>>

\* Faulty variant: it looks for the states of the other name.
ResolveFindLocks(r) ==
    /\ pc[r] = "resolveFind"
    /\ LET found == ActiveOf("lock")
           resolved == [s \in Req |->
               IF s \in found
               THEN [name |-> "lock", expires |-> state[s].expires,
                     resolved |-> TRUE, token |-> state[s].token]
               ELSE None]
       IN IF found = {}
          THEN Goto(r, "limitInsert") /\ Keep(r, Nothing) /\ UNCHANGED goal
          ELSE Save(r, [user |-> None, related |-> FALSE,
                        states |-> resolved], "resolve")
    /\ UNCHANGED <<user, state, passed, audit, dirty>>

\* Over the session limit: resolveStates, its query ...
ResolveFind(r) ==
    /\ pc[r] = "resolveFind"
    /\ LET found == ActiveOf("limit")
           resolved == [s \in Req |->
               IF s \in found
               THEN [name |-> "limit", expires |-> state[s].expires,
                     resolved |-> TRUE, token |-> state[s].token]
               ELSE None]
       IN IF found = {}
          THEN Goto(r, "limitInsert") /\ Keep(r, Nothing) /\ UNCHANGED goal
          ELSE Save(r, [user |-> None, related |-> FALSE,
                        states |-> resolved], "resolve")
    /\ UNCHANGED <<user, state, passed, audit, dirty>>

\* Faulty variant: the hash of the token is not stored.
LimitInsertUnsigned(r) ==
    LET row == [name |-> "limit", expires |-> None, resolved |-> FALSE,
                token |-> None]
        signed == [name |-> "limit", expires |-> r, resolved |-> FALSE,
                   token |-> None]
    IN /\ pc[r] = "limitInsert"
       /\ state' = [state EXCEPT ![r] = row]
       /\ Save(r, [user |-> None, related |-> FALSE,
                   states |-> [NoStates EXCEPT ![r] = signed]], "token")
       /\ UNCHANGED <<user, passed, audit, dirty>>

\* ... createSessionLimitToken: create, then setToken on the same entity.
LimitInsert(r) ==
    LET row == [name |-> "limit", expires |-> None, resolved |-> FALSE,
                token |-> None]
        signed == [name |-> "limit", expires |-> r, resolved |-> FALSE,
                   token |-> r]
    IN /\ pc[r] = "limitInsert"
       /\ state' = [state EXCEPT ![r] = row]
       /\ Save(r, [user |-> None, related |-> FALSE,
                   states |-> [NoStates EXCEPT ![r] = signed]], "token")
       /\ UNCHANGED <<user, passed, audit, dirty>>

-----------------------------------------------------------------------------
(* Deletion of sessions, change and deletion of the account. *)

\* DELETE /auth/sessions with an access token.  Which rows it deletes is left
\* open; if any, the listener of SESSIONS_DELETED is called.
DeleteSessions(r) ==
    /\ Arrive(r)
    /\ Goto(r, "clear")
    /\ UNCHANGED <<user, state, passed, audit, goal, mem, dirty>>

\* The same with the temporary token of state t: verifyTemporaryToken looks
\* for the state ...
DeleteWithTempToken(r, t) ==
    /\ Arrive(r)
    /\ t \in ActiveOf("limit")
    /\ state[t].token = t
    /\ Goto(r, "tempUser")
    /\ UNCHANGED <<user, state, passed, audit, goal, mem, dirty>>

\* ... and then for the user, who must not be locked.
TempUser(r) ==
    /\ pc[r] = "tempUser"
    /\ IF user.deleted \/ HasState(UserWithStates, "lock")
       THEN Answer(r, "refused")
       ELSE Goto(r, "clear") /\ UNCHANGED <<goal, mem, dirty>>
    /\ UNCHANGED <<user, state, passed, audit>>

\* No row was deleted: no event, and the listener is not called.
NothingDeleted(r) ==
    /\ pc[r] = "clear"
    /\ Answer(r, "done")
    /\ UNCHANGED <<user, state, passed, audit>>

\* Faulty variant: the user is loaded whether deleted or not.
ClearDeleted(r) ==
    /\ pc[r] = "clear"
    /\ LET resolved == [s \in Req |->
               IF s \in ActiveOf("limit")
               THEN [name |-> "limit", expires |-> state[s].expires,
                     resolved |-> TRUE, token |-> state[s].token]
               ELSE state[s]]
       IN Save(r, [user |-> user, related |-> TRUE, states |-> resolved], "clear")
    /\ UNCHANGED <<user, state, passed, audit, dirty>>

\* UserStateListener: load the user with its states and resolve those of the
\* session limit.
Clear(r) ==
    /\ pc[r] = "clear"
    /\ LET resolved == [s \in Req |->
               IF s \in ActiveOf("limit")
               THEN [name |-> "limit", expires |-> state[s].expires,
                     resolved |-> TRUE, token |-> state[s].token]
               ELSE state[s]]
       IN IF user.deleted
          THEN Answer(r, "done")
          ELSE /\ Save(r, [user |-> user, related |-> TRUE,
                           states |-> resolved], "clear")
               /\ UNCHANGED dirty
    /\ UNCHANGED <<user, state, passed, audit>>

\* PATCH /user with a new password: load the user, hash the password.
UpdateUser(r) ==
    /\ Arrive(r)
    /\ ~user.deleted
    /\ Save(r, [user |-> [password |-> r, deleted |-> FALSE],
                related |-> FALSE, states |-> NoStates], "update")
    /\ UNCHANGED <<user, state, passed, audit, dirty>>

\* DELETE /user: load the user ...
DeleteUser(r) ==
    /\ Arrive(r)
    /\ ~user.deleted
    /\ Goto(r, "delete")
    /\ UNCHANGED <<user, state, passed, audit, goal, mem, dirty>>

\* ... and UPDATE users SET deleted_at = now() WHERE id = ..., unless the
\* session of the access token is gone.
Delete(r) ==
    /\ pc[r] = "delete"
    /\ \/ /\ user' = [user EXCEPT !.deleted = TRUE]
          /\ Answer(r, "done")
       \/ Answer(r, "refused") /\ UNCHANGED user
    /\ UNCHANGED <<state, passed, audit>>

-----------------------------------------------------------------------------
(* repository.save. *)

UserDiffers(m) ==
    {nc \in {None} \X UserColumn :
        m.user # None /\ m.user[nc[2]] # user[nc[2]]}

StatesDiffer(m) ==
    {sc \in Req \X StateColumn :
        /\ m.states[sc[1]] # None
        /\ m.states[sc[1]][sc[2]] # state[sc[1]][sc[2]]}

\* Rows of the relation that are missing from the array in memory: TypeORM sets
\* their user_id to NULL, and the column does not take it.
Orphans(m) == {s \in Req : m.related /\ Stored(s) /\ m.states[s] = None}

\* The SELECTs.  An entity that was only inserted so far may not have a value
\* for resolved_at, and then leaves the column alone.
SaveRead(r) ==
    /\ pc[r] = "saveRead"
    /\ LET differs == UserDiffers(mem[r]) \cup StatesDiffer(mem[r])
           optional == IF goal[r] = "token" THEN {<<r, "resolved">>} ELSE {}
       IN \E left \in SUBSET (differs \cap optional) :
            dirty' = [dirty EXCEPT ![r] = differs \ left]
    /\ Goto(r, IF Orphans(mem[r]) = {} THEN "saveWrite" ELSE "reject")
    /\ UNCHANGED <<user, state, passed, audit, goal, mem>>

\* What follows the save.
After(r) ==
    IF goal[r] = "resolve"
    THEN /\ Goto(r, "limitInsert")
         /\ Keep(r, Nothing)
         /\ goal' = [goal EXCEPT ![r] = "none"]
         /\ dirty' = [dirty EXCEPT ![r] = {}]
    ELSE Answer(r, IF goal[r] = "token" THEN "limited"
                   ELSE IF goal[r] = "lock" THEN "refused" ELSE "done")

\* The UPDATEs, in one transaction.
SaveWrite(r) ==
    /\ pc[r] = "saveWrite"
    /\ user' = [c \in UserColumn |->
                   IF <<None, c>> \in dirty[r] THEN mem[r].user[c]
                                              ELSE user[c]]
    /\ state' = [s \in Req |->
                   IF state[s] = None THEN None
                   ELSE [c \in DOMAIN state[s] |->
                            IF <<s, c>> \in dirty[r] THEN mem[r].states[s][c]
                                                     ELSE state[s][c]]]
    /\ After(r)
    /\ UNCHANGED <<passed, audit>>

\* The transaction is rolled back.  The listener's error is only logged, any
\* other is the answer.
Reject(r) ==
    /\ pc[r] = "reject"
    /\ Answer(r, IF goal[r] = "clear" THEN "done" ELSE "rejected")
    /\ UNCHANGED <<user, state, passed, audit>>

\* A statement throws, or the process stops.
Fail(r) ==
    /\ r \in InFlight
    /\ Answer(r, "failed")
    /\ UNCHANGED <<user, state, passed, audit>>

-----------------------------------------------------------------------------
(* Time. *)

\* The date request d has set passes.
Pass(d) ==
    /\ d \notin passed
    /\ \E s \in Req : Stored(s) /\ state[s].expires = d
    /\ passed' = passed \cup {d}
    /\ UNCHANGED <<user, state, audit, pc, goal, mem, dirty>>

\* A failed login is lockTimeoutMs ago.
Age(r) ==
    /\ audit[r] = "recent"
    /\ audit' = [audit EXCEPT ![r] = "old"]
    /\ UNCHANGED <<user, state, passed, pc, goal, mem, dirty>>

Init ==
    /\ user = [password |-> None, deleted |-> FALSE]
    /\ state = NoStates
    /\ passed = {}
    /\ audit = [r \in Req |-> "none"]
    /\ pc = [r \in Req |-> "idle"]
    /\ goal = [r \in Req |-> "none"]
    /\ mem = [r \in Req |-> Nothing]
    /\ dirty = [r \in Req |-> {}]

Request(r) ==
    \/ Load(r) \/ DeleteSessions(r) \/ UpdateUser(r) \/ DeleteUser(r)
    \/ \E t \in Req : DeleteWithTempToken(r, t)

Step(r) ==
    \/ Verified(r) \/ Locked(r) \/ Mismatch(r) \/ Record(r) \/ Count(r)
    \/ LockFind(r) \/ LockInsert(r) \/ ResolveFind(r) \/ LimitInsert(r)
    \/ TempUser(r) \/ NothingDeleted(r) \/ Clear(r) \/ Delete(r)
    \/ SaveRead(r) \/ SaveWrite(r) \/ Reject(r)

Next == \E r \in Req : Request(r) \/ Step(r) \/ Fail(r) \/ Pass(r) \/ Age(r)

Spec == Init /\ [][Next]_vars
-----------------------------------------------------------------------------
TypeOK ==
    /\ user \in UserRow
    /\ state \in [Req -> StateRow \cup {None}]
    /\ passed \in SUBSET Req
    /\ audit \in [Req -> AuditLog]
    /\ pc \in [Req -> Phase]
    /\ goal \in [Req -> Goal]
    /\ mem \in [Req -> Memory]
    /\ dirty \in [Req -> SUBSET Column]

IsLock(s) == Stored(s) /\ state[s].name = "lock"

\* However failed logins interleave, the account is locked only after
\* MaxFailedLogins of them.
LockNeedsFailures ==
    (\E s \in Req : IsLock(s)) =>
        Cardinality({r \in Req : audit[r] # "none"}) >= MaxFailedLogins

\* And the other way round: of MaxFailedLogins failed logins within the period,
\* in any interleaving, one has locked the account by the time all are
\* answered, even if the database rejected the save of the lock's end.
FailuresLock ==
    /\ Cardinality(Recent) >= MaxFailedLogins
    /\ \A r \in Req : pc[r] \notin Working \cup {"failed"}
    => \E s \in Req : IsLock(s)

\* The end of a lock has passed: request d set it, and not that of a state of the
\* session limit, the row of which it would have inserted itself.
SomeLockEnded ==
    \E d \in passed : ~Stored(d) \/ state[d].name = "lock"

\* A request that comes when the account has a lock is let through only after
\* the end of a lock has passed, whatever stale saves do to the lock meanwhile.
LockKeepsOut ==
    \A r, s \in Req :
        [](IsLock(s) /\ pc[r] = "idle" =>
             [](pc[r] \in {"granted", "limited"} => SomeLockEnded))

\* Logins at the limit each resolve the active states of the session limit and
\* each insert one, a query and an insert apart, may stop in between, and stale
\* saves may make an expired state active again.  Still, no more temporary
\* tokens are valid than requests run at the same time: until a lock is set,
\* the save of which may bring resolved states back.
TempTokens == {s \in ActiveOf("limit") : state[s].token # None}

TempTokensBounded ==
    (\E s \in Req : IsLock(s)) \/ Cardinality(TempTokens) <= MaxConcurrent

\* The account is deleted, and no request that loaded it before is left.
Settled == user.deleted /\ \A r \in Req : mem[r].user = None

\* A stale save may undo the deletion of the account, but only one of a request
\* that was there before: later ones neither load nor restore the account.
DeletionSettles == [][Settled => Settled']_vars

\* What security.service.spec.ts expects of a lock: an end date.  Without any
\* failure, a lock that no request is still busy with has one.
LockExpires ==
    (\A r \in Req : pc[r] # "failed") =>
        \A s \in Req : IsLock(s) /\ state[s].expires = None =>
            \E r \in InFlight : mem[r].states[s] # None

\* What users.e2e-spec.ts expects: the account stays changed, or deleted, until
\* the next change.
ChangesStick ==
    [][user' = user \/ \E r \in Req : /\ pc[r] \in {"saveWrite", "delete"}
                                      /\ goal[r] \in {"update", "none"}]_vars
=============================================================================
