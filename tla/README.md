# Verification of the slideshow backend

TLA+ specifications of the NestJS backend of this repository
(`src/backends/nest`), the TLC configurations that check them on small
instances, and TLAPS proofs of their main invariants for every value of the
constants.

## The system

The backend is an HTTP API (NestJS, TypeORM, Postgres). Every request runs as a
chain of awaited calls; between two awaits any other request of the same Node
process, or of another process on the same database, may run. Requests share
nothing but the database. No service method except the outbox's
`getPendingEvents` runs in a transaction, and no row is locked elsewhere, so
what one statement read may have changed when the next one writes.

Two facts about the libraries matter everywhere and are modelled from how the
code uses them:

* `repository.save(entity)` is a SELECT of the row by id, soft-deleted rows
  included, a comparison of every column of the entity with the row, and an
  UPDATE of the columns that differ. An entity loaded earlier therefore writes
  its old values over whatever changed in between, `deleted_at` included.
* `softDelete()` is one UPDATE of `deleted_at` on all rows its condition
  matches, deleted before or not; other queries see only rows whose
  `deleted_at` is null.

### Components

| Component | State | Operations | Hard behaviour |
|---|---|---|---|
| Auth, sessions, tokens (`auth/`, `tokens/`) | table `sessions`; a request's `Session` entity; tokens at the client | login, refresh, logout, deleteOne, deleteMany, revoke | check-then-insert of the session limit; saves of stale entities; concurrent refreshes of one token; a request that stops half-way |
| Security (`auth/security/`) | table `audit_logs` (failed logins), `user_states` (ACCOUNT_LOCKED), a request's `User` entity | verifyCredentials, verifyRefreshToken, verifyTemporaryToken, lockUser | the lock is decided, written and checked in separate statements; saving a stale `User` |
| User states (`states/`, `listeners/state`) | tables `states`, `user_states` | findOrCreate, create, setToken, resolveStates, resolveState by the listener of SESSIONS_DELETED | find-then-create; a token set on a state resolved meanwhile; expiry |
| Users (`users/`) | table `users` | createUser, updateUser, deleteUser, setState, resolveState | two writes (user, session) with no transaction; unique keys |
| Outbox (`outbox/`) | table `outbox_events`; events claimed by a worker's batch | create, processPendingEvents (cron), complete, fail | several workers; crash after the claim; late or repeated answers of handlers; retry limit and back-off |
| Query options (`database/`) | none (pure) | parsing of page, size, sort, expand; relation paths | boundaries, bad input |
| Configuration (`config/`) | `process.env` and the loaded `config.yml`, fixed after start-up | validation, interpolation of `%VAR{default}%`, reading as YAML | the validation and YAML each read the same variable, by different rules |
| Guards, strategies, controllers (`auth/security/guards`, `strategies`, `*.controller.ts`) | none | which token opens which endpoint, what is answered | one request runs through sessions and account, and may end half-way in either |
| Listeners, events, logger (`listeners/`, `events/`, `logger/`) | `audit_logs` | one audit row and one log line per event | `emitAsync` waits for listeners; their errors are suppressed |
| Filters, pipes, DTOs, exceptions, entities, bootstrap | none | translation to and from HTTP | none |
| `docs/`, docs server, `docker/` | none | documentation and deployment | not modelled |

`docs/auth.md` also describes multi-factor login, which the code does not have,
and (lines 40-42) an answer 403 SESSION_LIMIT_EXCEEDED, where the code answers
200 SESSION_LIMIT_REACHED with a temporary token; the OpenAPI files agree with
the code.

### What makes each component correct

* **Sessions**: the session limit holds as far as the missing lock allows; a
  deleted session stays deleted; a client that was answered holds a token that
  works; a request touches only sessions of its own user.
* **Accounts**: the account is locked exactly when there were enough failed
  logins; a lock keeps everyone out until it ends, and does end; a change or
  deletion of the account is not undone.
* **Outbox**: an event is handled by one worker at a time, a bounded number of
  times, reaches a final status once, and does not wait for ever.
* **Query options**: the registry offers each legal path and no other; bad
  values never get through; every row is on exactly one page; whatever is
  accepted can be answered.
* **The API as a whole**: requests are answered as documented; an answer that
  says "error" leaves nothing behind; a deleted account gets no more sessions; a
  temporary token can be had by whoever needs one, and works once.
* **Configuration**: what the services are configured with is what was validated;
  what was validated can be loaded.

## Modules

| Module | Models | Extends / instantiates |
|---|---|---|
| `Sessions` | requests on the table `sessions`, statement by statement | `SessionLifecycle` |
| `SessionLifecycle` | abstract: the life of a session | |
| `SessionsProofs` | theorems about `Sessions` | `Sessions`, TLAPS |
| `Account` | failed logins, the lock, temporary tokens, change and deletion of one account | |
| `AccountProofs` | theorems about `Account` | `Account`, TLAPS |
| `Access` | the endpoints of one account, with guards and answers | composes `Sessions` and `Account` |
| `AccessProofs` | theorems about `Access` | `Access`, TLAPS |
| `AnswerProofs` | theorems about the answers of `Access` | `AccessProofs` |
| `ApiProofs` | what holds of the components holds in `Access`; temporary tokens | `AnswerProofs`, instances of `SessionsProofs` and `AccountProofs` |
| `Outbox` | overlapping batches, handlers, crashes | `EventDelivery` |
| `EventDelivery` | abstract: the life of an event | |
| `OutboxProofs` | theorems about `Outbox` | `Outbox`, TLAPS |
| `QueryOptions` | registry, parsing, joins, pages | |
| `QueryOptionsProofs` | theorems about `QueryOptions` | `QueryOptions`, TLAPS |
| `Startup` | environment and configuration | |
| `StartupProofs` | theorems about `Startup` | `Startup`, TLAPS |
| `MC*` | the instances TLC checks, one `.cfg` per run | the module of that name |

Operators called "Faulty variant" stand before the definition they vary. No
specification uses them; they are the mistakes each property was shown to
notice (PROJECT.json, "mutants").

### Sessions

One action per database statement. `session` is the table, `pc`, `call`, `sid`
and `snap` are the local variables of a request: its place in the code, its
input, `authUser.sessionId` or the id of the entity in hand, and that entity.
`save` is two actions, the SELECT that computes `dirty` (the columns that
differ) and the UPDATE of these columns from the entity.

* A request inserts at most one session and signs at most one pair of tokens,
  so sessions and tokens are named by their request. Requests are used once; a
  run with *n* requests covers all histories of *n* calls. Columns nothing here
  depends on (`last_active_at`, `revoke_reason`, ...) and rows of other tables
  are left out.
* `Login` is `verifyCredentials` having succeeded; `RefreshValid` is
  `verifyRefreshToken` having found the session and its hash equal to the token
  presented. A refresh that is refused (`RefreshInvalid`: no session, another
  token, an expired one; `LockedOut`: a locked user) changes no session. Expiry
  needs no clock for that reason.
* `Refresh`, `FindCurrent`, `CountSessions`, `Limit`, `Create`, `MarkRead`,
  `MarkWrite`, `TokenRead`, `TokenWrite` and `Respond` are the path through
  `AuthService` and `TokensService`; `Logout`, `DeleteSessions`,
  `UpdateOrDeleteUser`, `RevokeRead`, `RevokeWrite` the deletions. `Fail` ends
  a request after any statement (an error, a lost connection, the end of the
  process): what it wrote stays.
* `MaxConcurrent` bounds the requests in flight. It is part of the statement of
  `SessionLimit`, which is why it is a constant and not only a bound of a run.

### Account

One account, its user row, its `user_states` (the lock, the session-limit
states) and the failed logins in `audit_logs`. Dates and passwords are named
by the request that set them; `Pass` lets a date pass, `Age` a failed login grow
older than the period that is looked at. `mem` holds the entities a request
loaded: `lockUser` and the listener save the user *with its states*, as TypeORM
does, with all columns that differ; a row of the relation that is missing from
the array in memory is an orphan and makes the database refuse the save
(`Orphans`, `Reject`). Where TypeORM's treatment of an undefined column depends
on how the entity was made, both outcomes are allowed (`SaveRead`).

Whether a login is over the session limit, and with it what a request does to
sessions, is left open here (`Verified`); `Access` decides it.

A `SESSION_LIMIT_REACHED` state is inserted without an expiry and a token, which
a save sets; then the temporary token for it is signed and its hash stored
(`LimitInsert`, `SaveRead`, `SaveWrite`). `TempTokens` are the active states of
that kind that have their token.

### Access

The API of one account. A request is at the same time a request of `Sessions`
and one of `Account`, which are instances with variables of their own; a step of
`Access` is a step of the one, of the other, or of both at once where the code
makes one statement of them, or where the end of one is the beginning of the
other:

| Step | in Sessions | in Account |
|---|---|---|
| `PostLogin` | | `Load` |
| `Authenticated` | `Login` | (password right, no lock in memory) |
| `PostRefresh` | `RefreshValid` | `Load`: one query reads the session, its user and the states |
| `RefreshLocked` | `LockedOut` | `Locked` |
| `RefreshChecked` | `Refresh` | ends with it, unless the refresh goes on as a login |
| `OverLimit`, `AccountStep` | in phase "limiting", until `Limit` | `Verified`, then `resolveStates` and the new state |
| `Granted` | `Respond` | `Verified` |
| `DeleteRows`, `Report`, `Cleared` | `DeleteSessions` | `Clear` (the listener of SESSIONS_DELETED) or `NothingDeleted` |
| `FindSessionToRevoke`, `DeleteUser` | `UpdateOrDeleteUser`, `RevokeRead`, `RevokeWrite` | `UpdateUser` and its save before, `Delete` between |

`request` is what was asked and with which token, `reply` the code of the
answer. Tokens are named by the request that got them. An access token is
accepted until it expires (`HasAccess`), which no step bounds; a refresh token
while its session is there and has its hash (`RefreshMatches`); a temporary
token while its state is active and has its hash (`TempMatches`).

Requests that a guard or a pipe refuses, and those that only read, change
nothing: instead of being steps, which would multiply the states and show
nothing, their answers are given as sets that depend on the state, `Refusals` and
`Reads`. `AnswersDocumented` compares them, and the answers of the steps, with
`Documented`, the statuses of `docs/spec/paths`. `Undocumented` names those the
documents miss: 400 for a query or an id that does not validate, 404 for a
temporary token of a deleted account, 500 for a bearer token that is no JWT
(`sessions.guard.ts:50`). They are omissions of the documents rather than
disagreements, and no finding.

### Startup

One run of `ConfigModule.forRoot`: `Validate` (class-validator on a converted
copy of the environment; what comes from `.env` alone is written to `process.env`
as converted, what was in the environment already stays as it was), then
`Configure` (interpolation of `config.yml`, read as YAML). Each variable is thus
read twice, by JavaScript's rules and by YAML's, and only the second reading is
used. `given` is any environment: for every variable any spelling, set in the
process or in `.env`, or none.

The rules themselves are not part of the repository: `ToNumber`, `ToLowerCase`,
`PlainScalar` and `QuotedScalar` are constants, functions of the spelling of which
`ReadingAssumption` says only what the code relies on (integers in the form
JavaScript writes, `true`, `false` and the names of the environments are read as
such; `true` and `false` in other letters as a boolean or as a string). A spelling
is read as a value, as `Error` where `yaml.load` throws, or as `Open` where what it
gives depends on the other lines: behind an unclosed bracket or quote, a backslash
before the closing quote, an alias, a line break. With one that is `Open` the
process may stop or not, and what it is configured with is not modelled.

What is fixed is which variables depend on these readings. `ReadAsGiven` names
them: not those that have a default and take it, not the environment, and not
the integers and booleans of `.env`, which are rewritten. `ConfiguredAsValidated`
says that all others are configured as they were validated, and these exactly when
the readings agree (`Misread`); `ValidatedStarts` that nothing else but what YAML
cannot read among these, booleans excepted (`Breaks`), stops a validated process.
The classes of spellings, with one or two of each in `MCStartup`:

| Variable | Misread | Breaks |
|---|---|---|
| integer of the process | blank: 0 and null; `0X10`: 16 and a string | a control character that `Number()` skips |
| boolean of the process | mixed case, as `FAlsE`: false and a string, hence true | none |
| name of the database or its user | null (`~`, blank), booleans, numbers, lists; what a comment (`svc #1`), blanks or quotes take away | no plain scalar (`a: b`); open: `[x` |
| host and secrets | an escape (`a\b`); a quote and a comment | any other quote, an unknown escape (`a\qb`), a control character; open: a backslash at the end |

### Outbox

The claim is a transaction: `ClaimRead` is `SELECT ... FOR UPDATE SKIP LOCKED`
of the oldest due events, `ClaimWrite` the UPDATEs and the commit; in between
the rows are locked. Batches overlap, since cron starts one per minute in every
process whether or not the last one is done. `InitialAvailable` is
`available_at` of a new row, which `create` leaves to the schema: null in the
schema of the entity; "due" stands for a database whose column has a default.
The first is what `outbox_never_claimed` shows to be wrong, the second is what
the other run assumes so that there is anything to check.

Nothing in the source calls `create` or handles an event yet, and the module is
not imported by `app.module.ts`. Handlers are therefore modelled from the
service: a handler reports at most once, through `complete` or `fail`, before
`emitAsync` returns, or throws (`Unreported`). `Crash` ends a batch anywhere.
`last_error`, `processed_at`, `locked_at` and `locked_by` are written and never
read, and are left out.

### QueryOptions

A pure computation as a short state machine: `Register` (onModuleInit), `Parse`,
one `Join` per expanded path, `Fetch`. Raw values are classes: absent, empty,
an array, numerals, lists, other text. `schema` is any set of relations, so that
the registry is checked on cyclic schemas the backend does not have yet, and
`endpoint` any configuration of the decorator. `Fetch` answers when no search is
asked for (no caller of the builder names the fields to search in, without which
it throws) and no alias is joined twice (which Postgres rejects).

## Runs

| Run | Instance | Shows |
|---|---|---|
| `sessions_requests` | 2 users, 2 contexts, 3 requests, 2 at a time, limit 1 | `SessionLimit`, `FreshToken`, `OwnSessionsOnly`; `Sessions` implements `SessionLifecycle` (safety and that limbo ends) |
| `sessions_refresh_inserts` | 1 user, 2 contexts, 3 requests, 2 at a time | **violated**: a refresh inserts a session |
| `account_safety` | 3 requests, 2 at a time, 2 failures allowed | `LockNeedsFailures`, `FailuresLock`, `TempTokensBounded`, `LockKeepsOut`, `DeletionSettles` |
| `account_lock_expires` | 3 requests, 2 at a time, 1 failure allowed | **violated**: a lock without an end |
| `account_changes_stick` | 2 requests | **violated**: a stale save undoes a deletion |
| `access_api` | 1 account, 2 addresses, 2 user agents, 3 requests at a time, limit 1, 1 failure allowed | `AnswersDocumented`, `ErrorsLeaveNothing`, `OneTempTokenWorks`, `DeletedAccountEnds`, `TempTokenSpent` |
| `access_token_used_up` | 4 requests, 2 at a time, only logins and deletions of a session (`LoginsAndDeletions`) | **violated**: a temporary token can be used again |
| `outbox_events` | 3 events (1 unknown), 2 batches of 2, 2 attempts | `OneDelivery`, refinement of `EventDelivery`, `EventsSettle` |
| `outbox_never_claimed` | 2 events, 1 batch, null `available_at` | **violated**: no event is ever claimed |
| `query_options` | 5 entities, schemas of 7 or 8 relations, paths up to 3, sizes 2 and 3, 0 to 4 rows | the five properties of the module |
| `query_expansions` | the real schema and endpoints, paths up to 4 | **violated**: expand=states,states.state |
| `startup` | 30 spellings, in the process or in `.env`; a usual environment with up to two variables changed, one of them of seven that stand for all kinds (`TwoUnusual`) | `ConfiguredAsValidated`, `ValidatedStarts` |

That two logins together exceed the session limit, and that a stale save undeletes
a session, have no violation run of their own: `SessionLimit` and
`LifecycleSafety` say precisely how far each goes, and their mutants show that
they are not weaker than that.

Why these bounds are enough to be worth checking: every race in this code is
between a read and a later write of one request and one or two others. Two
contexts distinguish "the same session" from "another one"; a limit of 1 makes
every second login reach it; three requests allow the deletion, the stale save
and a third that relies on the outcome. Two attempts include a first, a last
and a retry; three events with a limit of two leave one waiting behind others.
Four rows with pages of 1 to 3 include full, partial and empty pages. No
variable of the configuration is read together with another unless one is `Open`, so
two unusual ones are one more than could matter. The theorems below need none of these bounds: every
safety property of a passing run is a theorem for all values of the constants, and
the runs show on small instances that it says what it should, each with a mutant
that breaks it.

With three requests `access_api` reaches every answer of every endpoint but two:
a temporary token whose user is locked or deleted between the query for the state
and that for the user, and a refresh that ends over the session limit. Both need
four requests. With four, two at a time, from one context, TLC finds no error in
1,149,218 states; that takes too long for a run.

Deadlock is not checked in any run: requests end, and a run with all requests
used up stops; an outbox with all events settled has only batches that find
nothing.

### Fairness

* `Sessions`: weak fairness of each request's next statement. Node runs every
  continuation, and every statement returns or fails. A failure, the arrival of
  a request and the order of requests are not fair.
* `Outbox`: weak fairness that time passes (`Ripen`), that cron starts a batch
  when one can be started, and that a batch goes on; strong fairness that some
  claim commits, since a batch that crashes between claim and commit again and
  again would otherwise starve all events. Crashes are never fair.
* `Account`, `Access`, `QueryOptions`, `Startup`: none; all their properties are
  safety properties.

## Proofs

`SessionsProofs`, from `NoneAssumption` (null is none of the values it stands
beside) and `BoundAssumption` (the bounds are positive):

* `TypeCorrect`. `TypeOK` is not inductive: a refresh reads the session its token
  names. `Shape` adds that a request that holds a session or handed out a token
  names an existing row, and that a request in the middle of a save has the entity
  in memory.
* `ImplementsLifecycle`. `NextRowStep` says what any step does to the rows: none
  disappears or changes its user, a new one is live, and a deleted row that no
  request holds is neither revived nor held again. This is the step of
  `SessionLifecycle` under the mapping `Status`.
* `OwnSessions`, from `Shape` action by action.
* `LimitHolds`. The number of live sessions alone is not inductive, since stale
  saves revive rows. The proof counts *potential* sessions of a user: the live
  ones, those a request holds and may revive, and those a request past the check
  will insert. When a request passes the check it has just counted fewer live
  sessions than the limit, and every other request in flight adds at most one
  potential session (`FewInFlight` bounds them); no other step adds any.

* `TokensFresh`. It takes three facts together (`TokenInv`): a token in a row was
  signed for that row (`RowTokens`); an entity of a request that saves has a token
  that was signed, its own if it is about to store one, a revocation writes
  `deleted_at`, and a refresh presents a token it was given for its own session
  (`RequestTokens`); and a session at rest has a token that was not exchanged
  (`RestTokens`). The last is the one that could go wrong: a stale save restores an
  exchanged token, but only while the refresh that exchanged it has yet to store
  its own, or holds the row. All three suppose that no request failed, and
  the step that ends a request with a failure makes the property true.

`AccountProofs`, from the assumptions `Account` makes about None and the limits:

* `TypeCorrect`, from `Shape`: what is in memory is of stored rows, and a request
  whose row is stored is done or about to save it.
* `NeedsFailures`: a request is past `Count` only if there were enough failed
  logins, and those are never removed (`FailuresInv`).
* `FailuresAlwaysLock`: once there are enough recent failures there is a lock, or a
  request that has recorded its failure and not counted yet, or one on its way to
  the lock, or one that failed (`LockComes`). Failures only age, so that the
  hypothesis cannot come true later than by a `Record`.
* `DeletionFinal`: while no request has the user in memory none can write it or, as
  it is deleted, load it (`NextSettled`).
* `TokensBounded`. To count the states that have a token is not inductive: a stale
  save can make a resolved state active again, and a failed request leaves an
  active state without a token, so the active states themselves are *not* bounded.
  `TokenShape` says that the token and the end of a state come from the request
  that inserted it and are stored together. `Outlook(Q)`, for a set Q of requests
  that have yet to insert a state, is what would be valid if exactly these went on:
  the states valid or being signed that none of Q is going to resolve, and those Q
  will insert. `Bounded` says that it has at most `MaxConcurrent` members for each
  Q. The query of `resolveStates` finds all valid states, so that only requests in
  flight remain (`BoundedFind`).
* `LockedStaysOut`: a lock is never resolved and its end is the date of a request
  that set one for a lock (`LockDates`); a request that comes when there is a lock
  loads it, so it is kept out until one of these dates has passed (`KeptOut`).

`AccessProofs`:

* `ImplementsComponents`: every step of the API is for `Sessions` a step of it or
  none, and the same for `Account`. The proof needs to know that a request that
  deletes or revokes has the token it presented (`ApiShape`).
* `AccountEnds`. `AccountShape` and `SessionsShape` are what is needed of the types
  of the two components; `Linked` says that a request on its way to a session has
  the user in memory. So when the deletion is settled no request is on its way
  (`OnItsWay`), all that is left in the sessions only deletes (`NextSessions`), and
  the account stays as it is (`NextAccount`).

`AnswerProofs`, on top of `ApiInv` of `AccessProofs` and from `NoneAssumption`:

* `NoErrorLeaves`. That a request with an error has left nothing is not inductive,
  since what it left may be in the memory of another request and be saved later.
  `AnswerInv` therefore names an owner for each thing a request makes: who inserted
  a session, or holds one in a save, goes on to an answer that is no error
  (`RowOwner`); a password that is in the table or in the memory of a request not
  about to set it was set by an update that is saved (`PasswordOf`); a state that is
  no lock belongs to a request about to sign its token (`StateOf`). What remains is
  that stale saves copy only what was there: `AccountRows`, `AccountUser` and
  `SessionsRows` say so of every step of a component.
* `AlwaysDocumented`. `LinksOf` is what each endpoint may be doing in the account:
  only a login or a refresh locks or signs, only an update changes the user.
  `InFlightActs` gives the answers each step can then give, `ListedDocumented` and
  `RefusalsDocumented` compare them with the documents; a deleted user, in the table
  or in memory, comes from a request for a deletion (`Gone`).

`ApiProofs`, on top of the modules before and from `BoundAssumption`, has two
instances: `SP` is `SessionsProofs` with the variables of the API that are the
sessions, `AP` is `AccountProofs` with those that are the account.

* `SessionsPromises` and `AccountPromises`: the API is a behaviour of
  `SP!Safety` and of `AP!Spec` (`SessionsSafety`, `AccountSafety`), so the theorems
  of the components hold in it. Theorems used through an instance need the
  assumptions of its module: `SessionsAssumptions` and `AccountAssumptions` derive
  them from those of `Access`. `Sessions` has fairness, which the API has not; its
  safety theorems are therefore also stated of `Safety`, its specification without
  fairness (`SafeShape` and the lemmas after it in `SessionsProofs`).
* `TypesCorrect`: `TypeOK` of `Access` is the types of the two components, and of
  what a request asked and was answered.
* `TempTokenWorks`. That some token works when all is quiet is not inductive: while
  logins run, each makes those before it useless. `OneWorks` of `AccountProofs` says
  that once there is a state of the session limit, there is a *clean* one (`Clean`: it
  is not resolved, no request has it in memory to resolve it, and its token is stored
  or will be), or a request that has yet to insert its own. `SignShape` says that who
  is to sign a token has inserted the state. `WorksInv` carries this to the API as
  long as it is `Calm`, that is nothing failed and nobody asked for a deletion, and
  there is no lock: both are for good once they are lost, so the invariant may rest on
  them. `TokenInv` ties the two components together: a token is handed out by both at
  once (`Limits`), who clears states was asked to delete sessions (`Deletes`), and the
  token a request presented had been handed out (`TokenOf`).
* `TempTokenIsSpent`. `TokenOf` also says that a request with a temporary token spends
  it: as `Spends` has it, the listener of its deletion has the state of the token in
  memory once it has loaded the states, and once it is about to write, the row of that
  state is resolved, or will be, or has expired. No save of another request undoes
  this (`ResolvedStays`), so what is left is a save that is rejected for a state the
  listener has not loaded.

`StartupProofs`, from `ReadingAssumption`. One lemma about one variable (`Reading`)
compares its two readings, by where it is set and by its kind (`Kinds`); `Rewritten`
is the case of `.env`. `Inv` says that what is validated was accepted and written
back as `Written`, and that what is configured was read from that. The theorems
`TypeCorrect`, `AsValidated` and `Starts` hold for every environment, any set of
spellings and any readings of them that satisfy the assumption: that a spelling of
the table above is in its class is a matter of js-yaml and of TLC's instance.

`OutboxProofs`, from `EventAssumption`, `NullAssumption` and `LimitAssumption`:
`TypeCorrect`, `DeliveredOnce`, `ImplementsDelivery`. The inductive invariant
adds to the types that a pending event has a try left, that an event is in
the hands of one batch only, which finds its row pending and due before its
claim is committed and marked "processing" after, and that an entity about to
be saved has the attempts of its row, changes its status, and has a try left if
it makes the event pending again.
`EventStep` then maps each step of one event to a step of `EventDelivery` or a
stutter.

`QueryOptionsProofs`, from the assumptions `QueryOptions` makes about its inputs:

* `FilterAlways`: the filter leaves a field the endpoint does not take out of the
  query string, and a missing field gets its default (`MissingDefault`); what the
  validation accepts once those fields are gone, it accepts filtered, although the
  filter also drops fields that are empty (`AcceptedFiltered`).
* `PagesAlwaysPartition`: row n is on page p just when p - 1 is (n - 1) div size
  (`PageOfRow`, `OnePage`), and a page is empty just when it lies beyond the number
  of pages (`PagesOfRows`, `EmptyPage`). `PageInv` says that page and size are
  positive and that an answer is the page asked for.

* `OffersAllSimplePaths`. The registry is a recursive function, and the provers can
  use no induction theorem that takes an operator. `SetInduction` is induction for a
  *set* of numbers, from the well-foundedness of the natural numbers, and takes none.
  By it there is a function that satisfies the recursion at every depth
  (`BuildExists`), which makes the definition mean what it says (`BuildIs`); and by it
  such a function gives at depth n the paths of up to n relations that avoid the
  ancestors (`BuildsSimple`): putting a relation before such a path gives one
  (`SimpleExtended`), and every one is made so (`SimpleShorter`).
* `JoinsAlwaysResolve` and `TypeCorrect`, from `RegistryInv`: between registration
  and the answer `allowed` is what `buildExpansionPaths` returns, and every path still
  to be joined is one of its. The beginnings of an offered path are paths too
  (`SimplePrefix`), and are joined in their order (`JoinResolves`).

Only model-checked: liveness (`LimboEnds`, `EventsSettle`), which needs ENABLED and is
out of the prover's reach.

## Findings

Each is a violation run above, with the quoted claim in PROJECT.json: a refresh
that inserts a session; a deletion or change of the account undone by a stale
save; a lock without an end; outbox events that are never due; expansions with a
common beginning; a temporary token that a deletion reported as a success does not use
up. The last was found by a proof: `TempTokenIsSpent` cannot do without the exception
for a login that overlaps with the deletion, and `access_token_used_up` shows why. The
listener's save is rejected, since the state the login inserted is missing from the
array in memory.

Sessions beyond the limit, the duplicate session of two concurrent logins from one
context (which the comment at `auth.service.ts:36` says is there) and the session
that a stale save undeletes have the same causes, and are described by
`SessionLimit` and `LifecycleSafety`.

## Not modelled

* The bodies of answers, the audit rows and log lines nothing reads, argon2 and
  JWT, which are taken to work; the logger; the documentation server and the
  containers.
* What makes a body or an id valid: `Access` has the answer VALIDATION_ERROR
  wherever a pipe may give it.
* Registration is one insert decided by a unique key; `Access` has its answers.
* ORDER BY, ILIKE and `withDeleted`, which the code hands to TypeORM as they are.

Hazards that no property covers, and why:

* `env.validation.ts:117`: integers have no minimum. With limits below 1 the code
  promises nothing that could be checked.
* `auth.service.ts:59`, `user-states.service.ts:121`: pages of 25 are taken for
  everything. The models assume limits that fit a page.
* `states.service.ts:23`: the race for the first row of a state name happens once
  in the life of a database.
* `entity-id.pipe.ts:18`: integers too wide for the columns; widths are left out.
* `query.builder.ts:192`, `sessions.service.ts:90`: decided by TypeORM and Postgres.
* `abstract.service.ts:242`: the deletion of a session deleted before counts as a
  success and resolves the session limit. Both models allow it; no document says
  what is right.
* `abstract.service.ts:213`: `findIds` selects the column `deleted_at` and not the
  property, so `bulkDelete` finds `deletedAt` undefined and counts every row it finds
  as deleted, also one that a stale save has revived. `Report` does so too; no
  property speaks of the ids in an answer.
* `outbox.service.ts:162`: a handler that answers late, or twice. There is none in
  the repository yet; `Outbox` assumes one answer before `emitAsync` returns.

Some properties stop short of a hazard they are listed for; its note in PROJECT.json
says where (`FreshToken` of a client left with a lost token, `LockKeepsOut` of
requests that came before the lock, `ErrorsLeaveNothing` of requests that failed).

## Plan

Done: all modules of the table above, and a theorem for every safety property of a
passing run. Next:

1. The back-off of `getNextTryDate` as an operator, with its bounds proved.
2. `OutboxProofs`: the lemmas the liveness of `Outbox` rests on, as far as they are
   safety (an event at rest is due again or final).
3. Shorter proofs where a lemma of `ApiProofs` repeats one of `AnswerProofs`.
