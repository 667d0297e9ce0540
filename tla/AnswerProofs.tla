---------------------------- MODULE AnswerProofs ----------------------------
(***************************************************************************)
(* Proofs about the answers of Access: each is one its endpoint documents, *)
(* and one that says "error" leaves nothing behind.                        *)
(***************************************************************************)
EXTENDS AccessProofs

-----------------------------------------------------------------------------
(* Steps of the account component. *)

Saving == {"saveRead", "saveWrite", "reject"}

\* r is a login or a refresh that has yet to be answered by the account.
Credentials(r) ==
    \/ apc[r] \in {"verify", "record", "count", "lockFind", "lockInsert",
                   "resolveFind", "limitInsert"}
    \/ goal[r] \in {"lock", "resolve", "token"}

\* r is over the session limit.
Over(r) == apc[r] \in {"resolveFind", "limitInsert"} \/ goal[r] \in {"resolve", "token"}

\* Who saves, and nobody else, does so for a purpose, and is refused only with a
\* relation of the user in memory.
GoalShape ==
    /\ goal \in [Req -> A!Goal]
    /\ \A r \in Req :
         /\ apc[r] \in Saving <=> goal[r] # "none"
         /\ goal[r] \in {"resolve", "token", "update"} => ~mem[r].related
         /\ apc[r] = "reject" => mem[r].related

\* Other requests than r stay as they are.
Alone(r) ==
    \A q \in Req \ {r} : apc'[q] = apc[q] /\ goal'[q] = goal[q] /\ mem'[q] = mem[q]

\* What a step of r comes to.
Moves(r) ==
    /\ Alone(r) /\ GoalShape'
    /\ Credentials(r)' => Credentials(r) \/ A!Load(r)
    /\ Over(r)' => Over(r) \/ apc[r] = "verify"
    /\ goal'[r] = "update" => goal[r] = "update" \/ A!UpdateUser(r)
    /\ apc'[r] = "delete" => apc[r] = "delete" \/ A!DeleteUser(r)

LEMMA MovesTo ==
  ASSUME AccountShape, GoalShape, NEW r \in Req, NEW phase, NEW g, NEW m,
         apc' = [apc EXCEPT ![r] = phase], goal' = [goal EXCEPT ![r] = g],
         mem' = [mem EXCEPT ![r] = m],
         g \in A!Goal, phase \in Saving <=> g # "none",
         g \in {"resolve", "token", "update"} => ~m.related,
         phase = "reject" => m.related,
         (\/ phase \in {"verify", "record", "count", "lockFind", "lockInsert",
                        "resolveFind", "limitInsert"}
          \/ g \in {"lock", "resolve", "token"})
           => Credentials(r) \/ A!Load(r),
         phase \in {"resolveFind", "limitInsert"} \/ g \in {"resolve", "token"}
           => Over(r) \/ apc[r] = "verify",
         g = "update" => goal[r] = "update" \/ A!UpdateUser(r),
         phase = "delete" => apc[r] = "delete" \/ A!DeleteUser(r)
  PROVE  Moves(r)
<1>1. /\ apc'[r] = phase /\ goal'[r] = g /\ mem'[r] = m
      /\ goal' \in [Req -> A!Goal]
  BY DEF AccountShape, GoalShape
<1>2. Alone(r)
  BY DEF Alone, AccountShape, GoalShape
<1>3. GoalShape'
  BY <1>1, <1>2 DEF GoalShape, Alone
<1>4. QED
  BY <1>1, <1>2, <1>3 DEF Moves, Credentials, Over

LEMMA AccountMoves ==
  ASSUME AccountShape, GoalShape, NEW r \in Req, AccountPart(r)
  PROVE  Moves(r)
<1> USE DEF Saving, A!Goal
<1>1. CASE UNCHANGED <<apc, goal, mem>>
  BY <1>1 DEF Moves, Alone, GoalShape, Credentials, Over
<1>2. /\ apc = [apc EXCEPT ![r] = apc[r]] /\ goal = [goal EXCEPT ![r] = goal[r]]
      /\ mem = [mem EXCEPT ![r] = mem[r]]
  BY DEF AccountShape, GoalShape
<1>3. goal[r] \in A!Goal /\ (apc[r] \in Saving <=> goal[r] # "none")
  BY DEF GoalShape
<1>4. ASSUME NEW phase, phase \notin Saving, A!Goto(r, phase), UNCHANGED <<goal, mem>>,
             goal[r] = "none",
             phase \in {"verify", "record", "count", "lockFind", "lockInsert",
                        "resolveFind", "limitInsert"} => Credentials(r),
             phase \in {"resolveFind", "limitInsert"} => Over(r) \/ apc[r] = "verify",
             phase = "delete" => A!DeleteUser(r)
      PROVE  Moves(r)
  BY <1>2, <1>3, <1>4, MovesTo DEF A!Goto
<1>5. ASSUME NEW outcome \in A!Answered, A!Answer(r, outcome) PROVE Moves(r)
  BY <1>5, MovesTo DEF A!Answer, A!Goto, A!Keep, A!Answered, A!Goal
<1>6. ASSUME NEW m, NEW g \in A!Goal \ {"none"}, A!Save(r, m, g),
             g \in {"resolve", "token", "update"} => ~m.related,
             g \in {"lock", "resolve", "token"} => Credentials(r),
             g \in {"resolve", "token"} => Over(r),
             g = "update" => A!UpdateUser(r)
      PROVE  Moves(r)
  BY <1>6, MovesTo DEF A!Save, A!Goto, A!Keep
<1>7. CASE A!Request(r)
  <2>1. CASE A!Load(r)
    <3>1. /\ apc' = [apc EXCEPT ![r] = "verify"] /\ UNCHANGED goal /\ goal[r] = "none"
          /\ mem' = [mem EXCEPT ![r] = A!UserWithStates]
      BY <1>3, <2>1 DEF A!Load, A!Goto, A!Keep, A!Arrive
    <3>2. QED
      BY <1>2, <2>1, <3>1, MovesTo
  <2>2. CASE \/ A!DeleteSessions(r) \/ A!DeleteUser(r)
             \/ \E t \in Req : A!DeleteWithTempToken(r, t)
    BY <1>3, <1>4, <2>2 DEF A!DeleteSessions, A!DeleteUser, A!DeleteWithTempToken, A!Arrive
  <2>3. CASE A!UpdateUser(r)
    BY <1>6, <2>3 DEF A!UpdateUser
  <2>4. QED
    BY <1>7, <2>1, <2>2, <2>3 DEF A!Request
<1>8. CASE A!Step(r)
  <2>1. CASE A!Verified(r) \/ A!Locked(r) \/ A!Mismatch(r) \/ A!Record(r) \/ A!Count(r)
    BY <1>3, <1>4, <1>5, <2>1 DEF A!Verified, A!Locked, A!Mismatch, A!Record, A!Count,
       A!Answered, Credentials
  <2>2. ASSUME NEW s, NEW row, A!SetLock(r, s, row), apc[r] \in {"lockFind", "lockInsert"}
        PROVE  Moves(r)
    BY <1>6, <2>2 DEF A!SetLock, Credentials
  <2>3. CASE A!LockFind(r)
    BY <1>3, <1>4, <2>2, <2>3 DEF A!LockFind, Credentials
  <2>4. CASE A!LockInsert(r)
    BY <2>2, <2>4 DEF A!LockInsert
  <2>5. CASE A!ResolveFind(r)
    <3>1. CASE A!Goto(r, "limitInsert") /\ A!Keep(r, A!Nothing) /\ UNCHANGED goal
      BY <1>2, <1>3, <2>5, <3>1, MovesTo DEF A!ResolveFind, A!Goto, A!Keep, Credentials, Over
    <3>2. CASE \E f : A!Save(r, [user |-> None, related |-> FALSE, states |-> f], "resolve")
      BY <1>6, <2>5, <3>2 DEF A!ResolveFind, Credentials, Over
    <3>3. QED
      BY <2>5, <3>1, <3>2 DEF A!ResolveFind
  <2>6. CASE A!LimitInsert(r)
    BY <1>6, <2>6 DEF A!LimitInsert, Credentials, Over
  <2>7. CASE A!TempUser(r) \/ A!NothingDeleted(r) \/ A!Delete(r)
    BY <1>3, <1>4, <1>5, <2>7 DEF A!TempUser, A!NothingDeleted, A!Delete, A!Answered
  <2>8. CASE A!Clear(r)
    <3>1. CASE user.deleted
      BY <1>5, <2>8, <3>1 DEF A!Clear, A!Answered
    <3>2. CASE ~user.deleted
      <4>1. \E f : A!Save(r, [user |-> user, related |-> TRUE, states |-> f], "clear")
        BY <2>8, <3>2 DEF A!Clear
      <4>2. QED
        BY <1>6, <4>1
    <3>3. QED
      BY <3>1, <3>2
  <2>9. CASE A!SaveRead(r)
    <3>1. /\ apc[r] = "saveRead" /\ UNCHANGED <<goal, mem>>
          /\ apc' = [apc EXCEPT ![r] = apc'[r]] /\ apc'[r] \in {"saveWrite", "reject"}
          /\ apc'[r] = "reject" => mem[r].related
      BY <2>9 DEF A!SaveRead, A!Goto, A!Orphans, AccountShape
    <3>2. PICK phase \in {"saveWrite", "reject"} :
             /\ apc' = [apc EXCEPT ![r] = phase]
             /\ phase = "reject" => mem[r].related
      BY <3>1
    <3>3. /\ goal' = [goal EXCEPT ![r] = goal[r]] /\ mem' = [mem EXCEPT ![r] = mem[r]]
          /\ goal[r] \in {"resolve", "token", "update"} => ~mem[r].related
          /\ goal[r] \in A!Goal \ {"none"} /\ phase \in Saving /\ phase # "delete"
      BY <1>2, <1>3, <3>1 DEF GoalShape
    <3>4. QED
      BY <3>2, <3>3, MovesTo DEF Credentials, Over
  <2>10. CASE A!SaveWrite(r)
    <3>1. CASE goal[r] = "resolve"
      BY <2>10, <3>1, MovesTo DEF A!SaveWrite, A!After, A!Goto, A!Keep, A!Nothing,
         Credentials, Over
    <3>2. CASE goal[r] # "resolve"
      BY <1>5, <2>10, <3>2 DEF A!SaveWrite, A!After, A!Answered
    <3>3. QED
      BY <3>1, <3>2
  <2>11. CASE A!Reject(r)
    BY <1>5, <2>11 DEF A!Reject, A!Answered
  <2>12. QED
    BY <1>8, <2>1, <2>3, <2>4, <2>5, <2>6, <2>7, <2>8, <2>9, <2>10, <2>11 DEF A!Step
<1>9. CASE A!Fail(r)
  BY <1>5, <1>9 DEF A!Fail, A!Answered
<1>10. CASE A!Pass(r) \/ A!Age(r) \/ UNCHANGED avars
  BY <1>1, <1>10 DEF A!Pass, A!Age, avars
<1>11. QED
  BY <1>7, <1>8, <1>9, <1>10 DEF AccountPart

-----------------------------------------------------------------------------
(* The rows of user_states. *)

\* A request that inserted a row is done, or about to save it.
Inserted(r) == A!Stored(r) => apc[r] \in A!Answered \/ goal[r] \in {"lock", "token"}

\* A save does not change the name of a state.
RowShape ==
    /\ state = [s \in Req |-> state[s]]
    /\ \A r \in Req : Inserted(r)
    /\ \A s \in Req : A!Stored(s) => "name" \in DOMAIN state[s]
    /\ \A r, s \in Req : <<s, "name">> \notin adirty[r]

\* A row keeps its name; a new one is that of r, and a lock unless r goes on to sign
\* it.
RowsKept(r) ==
    /\ RowShape'
    /\ \A s \in Req : A!Stored(s) /\ A!Stored(s)' => state'[s].name = state[s].name
    /\ \A s \in Req : ~A!Stored(s) /\ A!Stored(s)' =>
          s = r /\ (state'[r].name = "lock" \/ goal'[r] = "token")

LEMMA AccountRows ==
  ASSUME AccountShape, GoalShape, RowShape, NEW r \in Req, AccountPart(r)
  PROVE  RowsKept(r)
<1> USE NoneAssumption DEF A!Stored, Saving
<1>1. Alone(r)
  BY AccountMoves DEF Moves
<1>2. ASSUME Inserted(r)', state' = [s \in Req |-> state'[s]],
             \A s \in Req : A!Stored(s)' => A!Stored(s)
      PROVE  \A q \in Req : Inserted(q)'
  BY <1>1, <1>2 DEF Inserted, RowShape, Alone
<1>3. ASSUME UNCHANGED <<state, adirty>>, Inserted(r)' PROVE RowsKept(r)
  BY <1>2, <1>3 DEF RowsKept, RowShape
<1>4. ASSUME NEW outcome \in A!Answered, A!Answer(r, outcome), UNCHANGED state
      PROVE  RowsKept(r)
  <2>1. /\ apc'[r] = outcome
        /\ \A q, s \in Req : <<s, "name">> \notin adirty'[q]
    BY <1>4 DEF A!Answer, A!Goto, AccountShape, RowShape
  <2>2. Inserted(r)'
    BY <2>1 DEF Inserted
  <2>3. QED
    BY <1>2, <1>4, <2>1, <2>2 DEF RowsKept, RowShape
<1>5. ASSUME apc[r] \notin A!Answered \cup Saving PROVE ~A!Stored(r)
  BY <1>5 DEF RowShape, Inserted, GoalShape
<1>6. ASSUME NEW row, state' = [state EXCEPT ![r] = row], UNCHANGED adirty,
             row # None, "name" \in DOMAIN row, ~A!Stored(r),
             \/ row.name = "lock" /\ goal'[r] = "lock"
             \/ goal'[r] = "token"
      PROVE  RowsKept(r)
  <2>1. \A q \in Req : Inserted(q)'
    BY <1>1, <1>6 DEF Inserted, RowShape, Alone
  <2>2. QED
    BY <1>6, <2>1 DEF RowsKept, RowShape
<1> USE DEF A!Answered
<1>7. CASE A!Request(r)
  <2>1. UNCHANGED <<state, adirty>> /\ apc[r] = "idle"
    BY <1>7 DEF A!Request, A!Load, A!DeleteSessions, A!DeleteUser, A!UpdateUser,
       A!DeleteWithTempToken, A!Arrive
  <2>2. QED
    BY <1>3, <1>5, <2>1 DEF Inserted
<1>8. CASE A!Step(r)
  <2>1. CASE A!Verified(r) \/ A!Locked(r) \/ A!Mismatch(r) \/ A!Record(r) \/ A!Count(r)
             \/ A!TempUser(r) \/ A!NothingDeleted(r) \/ A!ResolveFind(r)
    <3>1. UNCHANGED state /\ ~A!Stored(r)
      BY <1>5, <2>1 DEF A!Verified, A!Locked, A!Mismatch, A!Record, A!Count,
         A!TempUser, A!NothingDeleted, A!ResolveFind
    <3>2. (\E outcome \in A!Answered : A!Answer(r, outcome)) \/ UNCHANGED adirty
      BY <2>1 DEF A!Verified, A!Locked, A!Mismatch, A!Record, A!Count,
         A!TempUser, A!NothingDeleted, A!ResolveFind
    <3>3. QED
      BY <1>3, <1>4, <3>1, <3>2 DEF Inserted
  <2>2. CASE A!LockFind(r)
    BY <1>3, <1>5, <2>2 DEF A!LockFind, Inserted
  <2>3. CASE A!LockInsert(r)
    <3> DEFINE row == [name |-> "lock", expires |-> None, resolved |-> FALSE,
                       token |-> None]
    <3>1. /\ state' = [state EXCEPT ![r] = row] /\ UNCHANGED adirty
          /\ goal' = [goal EXCEPT ![r] = "lock"] /\ ~A!Stored(r)
      BY <1>5, <2>3 DEF A!LockInsert, A!SetLock, A!Save
    <3>2. row # None
      <4>1. row \in A!StateRow
        BY DEF A!StateRow
      <4>2. QED
        BY <4>1
    <3>3. row.name = "lock" /\ "name" \in DOMAIN row
      OBVIOUS
    <3>4. QED
      <4> HIDE DEF row
      <4> QED BY <1>6, <3>1, <3>2, <3>3 DEF GoalShape
  <2>4. CASE A!LimitInsert(r)
    <3> DEFINE row == [name |-> "limit", expires |-> None, resolved |-> FALSE,
                       token |-> None]
    <3>1. /\ state' = [state EXCEPT ![r] = row] /\ UNCHANGED adirty
          /\ goal' = [goal EXCEPT ![r] = "token"] /\ ~A!Stored(r)
      BY <1>5, <2>4 DEF A!LimitInsert, A!Save
    <3>2. row # None
      <4>1. row \in A!StateRow
        BY DEF A!StateRow
      <4>2. QED
        BY <4>1
    <3>3. "name" \in DOMAIN row
      OBVIOUS
    <3>4. QED
      <4> HIDE DEF row
      <4> QED BY <1>6, <3>1, <3>2, <3>3 DEF GoalShape
  <2>5. CASE A!Clear(r)
    <3>1. UNCHANGED state /\ ~A!Stored(r)
      BY <1>5, <2>5 DEF A!Clear
    <3>2. A!Answer(r, "done") \/ UNCHANGED adirty
      BY <2>5 DEF A!Clear
    <3>3. QED
      BY <1>3, <1>4, <3>1, <3>2 DEF Inserted
  <2>6. CASE A!Delete(r) \/ A!Reject(r)
    BY <1>4, <2>6 DEF A!Delete, A!Reject
  <2>7. CASE A!SaveRead(r)
    <3>1. /\ UNCHANGED <<state, goal>> /\ apc[r] = "saveRead"
          /\ \E d : /\ adirty' = [adirty EXCEPT ![r] = d]
                    /\ d \subseteq A!UserDiffers(mem[r]) \cup A!StatesDiffer(mem[r])
      BY <2>7 DEF A!SaveRead
    <3> PICK d : /\ adirty' = [adirty EXCEPT ![r] = d]
                 /\ d \subseteq A!UserDiffers(mem[r]) \cup A!StatesDiffer(mem[r])
      BY <3>1
    <3>2. \A s : <<s, "name">> \notin A!UserDiffers(mem[r]) \cup A!StatesDiffer(mem[r])
      BY DEF A!UserDiffers, A!StatesDiffer, A!UserColumn, A!StateColumn
    <3>3. \A q, s \in Req : <<s, "name">> \notin adirty'[q]
      BY <3>1, <3>2 DEF RowShape, AccountShape
    <3>4. Inserted(r)'
      BY <3>1 DEF RowShape, Inserted
    <3>5. QED
      BY <1>2, <3>1, <3>3, <3>4 DEF RowsKept, RowShape
  <2>8. CASE A!SaveWrite(r)
    <3>1. /\ state' = [s \in Req |-> state'[s]]
          /\ \A s \in Req : A!Stored(s)' => A!Stored(s)
          /\ \A s \in Req : A!Stored(s) =>
                "name" \in DOMAIN state'[s] /\ state'[s].name = state[s].name
      BY <2>8 DEF A!SaveWrite, RowShape
    <3>2. \A q, s \in Req : <<s, "name">> \notin adirty'[q]
      BY <2>8 DEF A!SaveWrite, A!After, A!Answer, RowShape, AccountShape
    <3>3. Inserted(r)'
      BY <2>8, <3>1 DEF A!SaveWrite, A!After, A!Answer, A!Goto, RowShape, Inserted,
         AccountShape
    <3>4. QED
      BY <1>2, <3>1, <3>2, <3>3 DEF RowsKept, RowShape
  <2>9. QED
    BY <1>8, <2>1, <2>2, <2>3, <2>4, <2>5, <2>6, <2>7, <2>8 DEF A!Step
<1>9. CASE A!Fail(r)
  BY <1>4, <1>9 DEF A!Fail
<1>10. CASE A!Pass(r) \/ A!Age(r) \/ UNCHANGED avars
  BY <1>3, <1>10 DEF A!Pass, A!Age, avars, Inserted, RowShape
<1>11. QED
  BY <1>7, <1>8, <1>9, <1>10 DEF AccountPart

-----------------------------------------------------------------------------
(* The row of users. *)

\* The password request p has set is in the table or on its way there again: not
\* only in the memory of p, which is about to save it.
HasPassword(p) ==
    \/ user.password = p
    \/ \E q \in Req : /\ mem[q].user # None
                      /\ mem[q].user.password = p
                      /\ q # p \/ goal[p] # "update"

Gone == user.deleted \/ \E q \in Req : mem[q].user # None /\ mem[q].user.deleted

\* A password comes only from the save of the request that set it, a deletion
\* only from the UPDATE.
UserKept(r) ==
    /\ \A p \in Req : HasPassword(p)' =>
          \/ HasPassword(p)
          \/ p = r /\ apc[r] = "saveWrite" /\ goal[r] = "update" /\ apc'[r] = "done"
    /\ Gone' => Gone \/ A!Delete(r)

LEMMA AccountUser ==
  ASSUME AccountShape, GoalShape, NEW r \in Req, AccountPart(r)
  PROVE  UserKept(r)
<1> USE NoneAssumption DEF A!Nothing, Saving
<1>1. Alone(r)
  BY AccountMoves DEF Moves
<1>2. ASSUME UNCHANGED user, mem' = mem, goal[r] = "update" => goal'[r] = "update"
      PROVE  UserKept(r)
  BY <1>1, <1>2 DEF UserKept, HasPassword, Gone, Alone
<1>3. ASSUME UNCHANGED user, NEW m, mem' = [mem EXCEPT ![r] = m],
             \/ m.user \in {None, user}
             \/ m.user = mem[r].user /\ goal[r] # "update"
      PROVE  UserKept(r)
  <2>1. mem'[r] = m
    BY <1>3 DEF AccountShape
  <2>2. QED
    BY <1>1, <1>3, <2>1 DEF UserKept, HasPassword, Gone, Alone
<1>4. ASSUME NEW outcome, A!Answer(r, outcome), UNCHANGED user PROVE UserKept(r)
  BY <1>3, <1>4 DEF A!Answer, A!Keep
<1>5. ASSUME UNCHANGED user, NEW u \in {None, user}, NEW b, NEW f, NEW g,
              A!Save(r, [user |-> u, related |-> b, states |-> f], g)
       PROVE  UserKept(r)
  BY <1>3, <1>5 DEF A!Save, A!Keep
<1>6. apc[r] \notin Saving => goal[r] = "none"
  BY DEF GoalShape
<1>7. CASE A!Request(r)
  <2>1. CASE A!Load(r)
    BY <1>3, <2>1 DEF A!Load, A!Keep, A!UserWithStates
  <2>2. CASE A!UpdateUser(r)
    <3> DEFINE m == [user |-> [password |-> r, deleted |-> FALSE],
                     related |-> FALSE, states |-> A!NoStates]
    <3>1. /\ UNCHANGED user /\ mem' = [mem EXCEPT ![r] = m]
          /\ goal' = [goal EXCEPT ![r] = "update"]
      BY <2>2 DEF A!UpdateUser, A!Save, A!Keep
    <3>2. mem'[r] = m /\ goal'[r] = "update"
      BY <3>1 DEF AccountShape, GoalShape
    <3>3. mem'[r].user.password = r /\ ~mem'[r].user.deleted
      BY <3>2
    <3>4. QED
      <4> HIDE DEF m
      <4> QED BY <1>1, <3>1, <3>2, <3>3 DEF UserKept, HasPassword, Gone, Alone
  <2>3. CASE \/ A!DeleteSessions(r) \/ A!DeleteUser(r)
             \/ \E t \in Req : A!DeleteWithTempToken(r, t)
    BY <1>2, <2>3 DEF A!DeleteSessions, A!DeleteUser, A!DeleteWithTempToken
  <2>4. QED
    BY <1>7, <2>1, <2>2, <2>3 DEF A!Request
<1>8. CASE A!Step(r)
  <2>1. CASE A!Verified(r) \/ A!Locked(r) \/ A!Mismatch(r) \/ A!Record(r) \/ A!Count(r)
             \/ A!TempUser(r) \/ A!NothingDeleted(r)
    BY <1>2, <1>4, <2>1 DEF A!Verified, A!Locked, A!Mismatch, A!Record, A!Count,
       A!TempUser, A!NothingDeleted
  <2>2. ASSUME NEW s, NEW row, A!SetLock(r, s, row), UNCHANGED user, goal[r] = "none"
        PROVE  UserKept(r)
    BY <1>3, <2>2 DEF A!SetLock, A!Save, A!Keep
  <2>3. CASE A!LockFind(r)
    BY <1>2, <1>6, <2>2, <2>3 DEF A!LockFind
  <2>4. CASE A!LockInsert(r)
    BY <1>6, <2>2, <2>4 DEF A!LockInsert
  <2>5. CASE A!ResolveFind(r) \/ A!LimitInsert(r)
    <3>1. CASE A!Keep(r, A!Nothing)
      BY <1>3, <2>5, <3>1 DEF A!ResolveFind, A!LimitInsert, A!Keep
    <3>2. CASE \E f, g : A!Save(r, [user |-> None, related |-> FALSE, states |-> f], g)
      BY <1>5, <2>5, <3>2 DEF A!ResolveFind, A!LimitInsert
    <3>3. QED
      BY <2>5, <3>1, <3>2 DEF A!ResolveFind, A!LimitInsert
  <2>6. CASE A!Clear(r)
    <3>1. CASE user.deleted
      BY <1>4, <2>6, <3>1 DEF A!Clear
    <3>2. CASE ~user.deleted
      <4>1. UNCHANGED user /\ \E f : A!Save(r, [user |-> user, related |-> TRUE,
                                                states |-> f], "clear")
        BY <2>6, <3>2 DEF A!Clear
      <4>2. QED
        BY <1>5, <4>1
    <3>3. QED
      BY <3>1, <3>2
  <2>7. CASE A!Delete(r)
    <3>1. CASE UNCHANGED user
      BY <1>4, <2>7, <3>1 DEF A!Delete
    <3>2. CASE user' = [user EXCEPT !.deleted = TRUE]
      <4>1. user'.password = user.password /\ mem'[r].user = None
        BY <2>7, <3>2 DEF A!Delete, A!Answer, A!Keep, AccountShape, A!UserRow
      <4>2. QED
        BY <1>1, <2>7, <4>1 DEF UserKept, HasPassword, Alone
    <3>3. QED
      BY <2>7, <3>1, <3>2 DEF A!Delete
  <2>8. CASE A!SaveRead(r)
    BY <1>2, <2>8 DEF A!SaveRead
  <2>9. CASE A!SaveWrite(r)
    <3>1. \A q \in Req : mem'[q] = mem[q] \/ mem'[q].user = None
      BY <1>1, <2>9 DEF A!SaveWrite, A!After, A!Answer, A!Keep, AccountShape, Alone
    <3>2. mem'[r].user = None
      BY <2>9 DEF A!SaveWrite, A!After, A!Answer, A!Keep, AccountShape
    <3>3. /\ user'.password # user.password =>
                mem[r].user # None /\ user'.password = mem[r].user.password
          /\ user'.deleted # user.deleted =>
                mem[r].user # None /\ user'.deleted = mem[r].user.deleted
      BY <2>9 DEF A!SaveWrite, AccountShape, A!UserColumn
    <3>4. goal[r] = "update" => apc[r] = "saveWrite" /\ apc'[r] = "done"
      BY <2>9 DEF A!SaveWrite, A!After, A!Answer, A!Goto, AccountShape
    <3>5. QED
      BY <1>1, <3>2, <3>3, <3>4 DEF UserKept, HasPassword, Gone, Alone
  <2>10. CASE A!Reject(r)
    BY <1>4, <2>10 DEF A!Reject
  <2>11. QED
    BY <1>8, <2>1, <2>3, <2>4, <2>5, <2>6, <2>7, <2>8, <2>9, <2>10 DEF A!Step
<1>9. CASE A!Fail(r)
  BY <1>4, <1>9 DEF A!Fail
<1>10. CASE A!Pass(r) \/ A!Age(r) \/ UNCHANGED avars
  BY <1>2, <1>10 DEF A!Pass, A!Age, avars
<1>11. QED
  BY <1>7, <1>8, <1>9, <1>10 DEF AccountPart

-----------------------------------------------------------------------------
(* The API. *)

\* What each endpoint may be doing.
LinksOf(r) ==
    /\ request[r] = None => reply[r] = None /\ spc[r] = "idle" /\ apc[r] = "idle"
    /\ request[r] # None => request[r].endpoint # "createUser"
    /\ Credentials(r) => request[r].endpoint \in {"login", "refresh"}
    /\ Over(r) => spc[r] = "limiting"
    /\ apc[r] = "delete" => request[r].endpoint = "deleteUser"
    /\ goal[r] = "update" =>
         /\ request[r].endpoint = "updateUser"
         /\ reply[r] = None /\ spc[r] = "idle"

\* Answers that the documents list, of all the endpoints or of some.
Listed(e, c) ==
    \/ c \in Success \ {"RESOURCE_CREATED"}
    \/ c \in {"INVALID_CREDENTIALS", "SESSION_NOT_FOUND"}
    \/ c = "SESSION_REVOKED" /\ e = "refresh"
    \/ c = "RESOURCE_ALREADY_EXISTS" /\ e = "updateUser"
    \/ c = "INTERNAL_SERVER_ERROR" /\ e \in {"login", "refresh"}

LEMMA ListedDocumented ==
  ASSUME NEW e \in Endpoint \ {"createUser"}, NEW c, Listed(e, c)
  PROVE  Status(c) \in Documented(e)
<1> USE DEF Endpoint, SessionsEndpoint, AccessEndpoint
<1>1. 200 \in Documented(e)
  BY DEF Documented
<1>2. 401 \in Documented(e)
  BY DEF Documented
<1>3. e = "refresh" => 403 \in Documented(e)
  BY DEF Documented
<1>4. e = "updateUser" => 409 \in Documented(e)
  BY DEF Documented
<1>5. e \in {"login", "refresh"} => 500 \in Documented(e)
  BY DEF Documented
<1>6. CASE c \in Success \ {"RESOURCE_CREATED"}
  BY <1>1, <1>6 DEF Status, Success
<1>7. CASE c \in {"INVALID_CREDENTIALS", "SESSION_NOT_FOUND"}
  BY <1>2, <1>7 DEF Status
<1>8. CASE c = "SESSION_REVOKED" /\ e = "refresh"
  BY <1>3, <1>8 DEF Status
<1>9. CASE c = "RESOURCE_ALREADY_EXISTS" /\ e = "updateUser"
  BY <1>4, <1>9 DEF Status
<1>10. CASE c = "INTERNAL_SERVER_ERROR" /\ e \in {"login", "refresh"}
  BY <1>5, <1>10 DEF Status
<1>11. QED
  BY <1>6, <1>7, <1>8, <1>9, <1>10 DEF Listed

\* A request that inserts a session, or did, and has yet to answer.
Owning == {"create", "tokenRead", "tokenWrite", "respond"}

\* What a step of a request in flight comes to, and its answer, if it gives one.
Acts(r) ==
    /\ apc[r] = "idle" => apc'[r] = "idle"
    /\ Over(r)' => reply'[r] = None /\ spc'[r] = "limiting"
    /\ goal'[r] = "update" => reply'[r] = None /\ spc'[r] = "idle"
    /\ goal[r] = "update" /\ apc'[r] = "done" => reply'[r] = None
    /\ reply'[r] = None =>
         /\ spc[r] \in Owning => spc'[r] \in Owning
         /\ goal[r] = "token" => goal'[r] = "token"
         /\ apc[r] = "done" => apc'[r] = "done"
    /\ reply'[r] \in Error =>
         /\ spc[r] \notin Owning /\ goal[r] # "token"
         /\ apc[r] = "done" /\ request[r].endpoint = "updateUser"
              => reply'[r] = "SESSION_NOT_FOUND"
    /\ reply'[r] \notin {None, "failed"} =>
         \/ Listed(request[r].endpoint, reply'[r])
         \/ reply'[r] = "RESOURCE_NOT_FOUND" /\ user.deleted

LEMMA InFlightActs ==
  ASSUME ApiInv, GoalShape, NEW r \in Req, LinksOf(r), r \in InFlight, Step(r) \/ Fail(r)
  PROVE  Acts(r)
<1> USE NoneAssumption DEF Owning, Saving
<1> DEFINE e == request[r].endpoint
<1>1. /\ request[r] # None /\ reply[r] = None
      /\ e \in Endpoint \ {"createUser"}
  BY DEF InFlight, LinksOf, ApiInv, ApiShape, Received
<1>2. Moves(r)
  BY StepComponents, AccountMoves DEF ApiInv
<1>3. spc[r] \in OnItsWay => apc[r] = "verify"
  BY DEF ApiInv, Linked
<1>4. Waits => reply'[r] = None
  BY <1>1 DEF Waits
<1>5. ASSUME NEW c \in Code, Reply(r, e, c) PROVE reply'[r] = c /\ c # None
  BY <1>5 DEF Reply, ApiInv, ApiShape
<1>6. /\ apc[r] \in Saving <=> goal[r] # "none"
      /\ apc'[r] \in Saving <=> goal'[r] # "none"
  BY <1>2 DEF Moves, GoalShape
<1>7. /\ Credentials(r) => e \in {"login", "refresh"}
      /\ Over(r) => spc[r] = "limiting"
      /\ goal[r] = "update" => e = "updateUser" /\ spc[r] = "idle"
  BY DEF LinksOf
<1>8. /\ Over(r)' => Over(r) \/ apc[r] = "verify"
      /\ goal'[r] = "update" => goal[r] = "update" \/ apc[r] = "idle"
  BY <1>2 DEF Moves, A!UpdateUser, A!Arrive
<1>9. /\ \A phase : S!Goto(r, phase) => spc'[r] = phase
      /\ \A phase : A!Goto(r, phase) => apc'[r] = phase
  BY DEF S!Goto, A!Goto, ApiInv, SessionsShape, AccountShape
<1>10. /\ "SESSION_NOT_FOUND" \in Code /\ "INVALID_CREDENTIALS" \in Code
       /\ "RESOURCE_NOT_FOUND" \in Code /\ Deleted(r) \in Success
       /\ Grants \subseteq Success /\ Success \subseteq Code
       /\ Success \cap Error = {} /\ "failed" \notin Error
  BY DEF Code, Error, Success, Grants, Deleted
<1>11. ASSUME NEW c \in Success \ {"RESOURCE_CREATED"}, Reply(r, e, c),
              apc[r] = "idle" => apc'[r] = "idle",
              ~Over(r)', goal'[r] # "update", goal[r] = "update" => apc'[r] # "done"
       PROVE  Acts(r)
  BY <1>5, <1>10, <1>11 DEF Acts, Listed
<1>12. ASSUME NEW c \in {"INVALID_CREDENTIALS", "SESSION_NOT_FOUND"}, Reply(r, e, c),
              apc[r] = "idle" => apc'[r] = "idle",
              ~Over(r)', goal'[r] # "update", goal[r] = "update" => apc'[r] # "done",
              spc[r] \notin Owning, goal[r] # "token",
              apc[r] = "done" => c = "SESSION_NOT_FOUND"
       PROVE  Acts(r)
  BY <1>5, <1>10, <1>12 DEF Acts, Listed
<1>13. ASSUME Waits,
              apc[r] = "idle" => apc'[r] = "idle",
              Over(r)' => spc'[r] = "limiting",
              goal'[r] = "update" => spc'[r] = "idle",
              spc[r] \in Owning => spc'[r] \in Owning,
              goal[r] = "token" => goal'[r] = "token",
              apc[r] = "done" => apc'[r] = "done"
       PROVE  Acts(r)
  BY <1>4, <1>13 DEF Acts, Code
<1>14. ASSUME NEW c \in S!Context, Authenticated(r, c) PROVE Acts(r)
  <2>1. /\ Waits /\ spc[r] = "idle" /\ apc'[r] = "verify" /\ apc[r] = "verify"
        /\ spc'[r] = "find"
    BY <1>9, <1>14 DEF Authenticated, S!Login, avars
  <2>2. QED
    BY <1>6, <1>7, <1>8, <1>13, <2>1 DEF Over
<1>15. CASE Rejected(r)
  <2>1. /\ spc[r] = "idle" /\ spc'[r] = "idle" /\ apc[r] = "verify"
        /\ apc'[r] \in {"refused", "record"}
        /\ Goes(apc'[r], A!Working, r, "INVALID_CREDENTIALS")
    BY <1>9, <1>15 DEF Rejected, A!Mismatch, A!Locked, A!Answer, svars
  <2>2. QED
    BY <1>6, <1>12, <1>13, <2>1 DEF Over, Goes
<1>16. CASE RefreshLocked(r)
  <2>1. /\ spc[r] = "refresh" /\ apc[r] = "verify" /\ apc'[r] = "refused"
        /\ Reply(r, e, "INVALID_CREDENTIALS")
    BY <1>9, <1>16 DEF RefreshLocked, Is, S!LockedOut, A!Locked, A!Answer
  <2>2. QED
    BY <1>6, <1>12, <2>1 DEF Over
<1>17. CASE RefreshChecked(r)
  <2>1. /\ spc[r] = "refresh" /\ apc[r] = "verify" /\ apc'[r] \in {"verify", "done"}
        /\ Goes(spc'[r], S!Working, r, "SESSION_NOT_FOUND")
    BY <1>3, <1>9, <1>17 DEF RefreshChecked, S!Refresh, avars, OnItsWay
  <2>2. QED
    BY <1>6, <1>12, <1>13, <2>1 DEF Over, Goes
<1>18. CASE OverLimit(r)
  <2>1. /\ spc[r] = "limiting" /\ spc'[r] = "limiting" /\ Waits
        /\ apc[r] = "verify" /\ apc'[r] = "resolveFind"
    BY <1>18 DEF OverLimit, A!Verified, svars
  <2>2. QED
    BY <1>6, <1>13, <2>1
<1>19. CASE Granted(r)
  <2>1. /\ apc[r] = "verify" /\ apc'[r] = "granted"
        /\ \E c \in Grants : Reply(r, e, c)
    BY <1>19 DEF Granted, A!Verified, Grants
  <2>2. QED
    BY <1>6, <1>10, <1>11, <2>1 DEF Over, Grants
<1>20. CASE TempUser(r)
  <2>1. /\ apc[r] = "tempUser" /\ apc'[r] \in {"refused", "clear"} /\ spc'[r] = spc[r]
        /\ Goes(apc'[r], A!Working, r, IF user.deleted THEN "RESOURCE_NOT_FOUND"
                                                       ELSE "INVALID_CREDENTIALS")
    BY <1>9, <1>20 DEF TempUser, A!TempUser, A!Answer, svars
  <2>2. spc[r] \notin Owning
    BY <1>3, <2>1 DEF OnItsWay
  <2>3. CASE Reply(r, e, "RESOURCE_NOT_FOUND") /\ user.deleted /\ apc'[r] = "refused"
    BY <1>5, <1>6, <1>10, <2>1, <2>2, <2>3 DEF Acts, Over
  <2>4. CASE Waits \/ (Reply(r, e, "INVALID_CREDENTIALS") /\ apc'[r] = "refused")
    BY <1>6, <1>12, <1>13, <2>1, <2>2, <2>4 DEF Over
  <2>5. QED
    BY <2>1, <2>3, <2>4 DEF Goes, A!Working
<1>21. CASE DeleteRows(r) \/ Report(r)
  <2>1. /\ spc[r] \in {"idle", "ended"} /\ UNCHANGED <<avars, reply>>
        /\ goal[r] # "update"
    BY <1>7, <1>21 DEF DeleteRows, Report, IsDeletion, IsDeletionEndpoint, Is
  <2>2. ~Over(r)
    BY <1>7, <2>1
  <2>3. QED
    BY <1>1, <2>1, <2>2 DEF Acts, avars, Code, Over
<1>22. CASE Cleared(r)
  <2>1. /\ apc[r] = "clear" /\ apc'[r] \in {"done", "saveRead"} /\ spc'[r] = spc[r]
        /\ Goes(apc'[r], A!Working, r, Deleted(r))
        /\ goal'[r] \in {"none", "clear"}
    BY <1>9, <1>22 DEF Cleared, A!NothingDeleted, A!Clear, A!Answer, A!Save, svars,
       ApiInv, AccountShape, GoalShape
  <2>2. Deleted(r) \in Success \ {"RESOURCE_CREATED"}
    BY DEF Deleted, Success
  <2>3. QED
    BY <1>6, <1>11, <1>13, <2>1, <2>2 DEF Over, Goes
<1>23. CASE FindSessionToRevoke(r)
  <2>1. /\ spc[r] = "idle"
        /\ Goes(spc'[r], S!Working, r, "SESSION_NOT_FOUND")
        /\ \/ UNCHANGED avars
           \/ apc[r] = "delete" /\ apc'[r] = "refused"
    BY <1>23 DEF FindSessionToRevoke
  <2>2. ~Over(r) /\ ~Over(r)'
    BY <1>6, <1>7, <2>1 DEF Over, avars
  <2>3. goal'[r] # "update"
    <3>1. goal[r] # "update"
      BY <1>6, <1>23 DEF FindSessionToRevoke, Is, LinksOf
    <3>2. QED
      BY <1>6, <2>1, <3>1 DEF avars
  <2>4. QED
    BY <1>12, <1>13, <2>1, <2>2, <2>3 DEF Over, Goes, avars
<1>24. CASE DeleteUser(r)
  <2>1. /\ Waits /\ UNCHANGED svars /\ spc[r] = "revokeRead"
        /\ apc[r] = "delete" /\ apc'[r] = "done"
    BY <1>24 DEF DeleteUser, A!Delete
  <2>2. QED
    BY <1>6, <1>13, <2>1 DEF Over, svars
<1>25. CASE SessionStep(r)
  <2>1. spc[r] \in {"find", "count", "create", "markRead", "markWrite", "tokenRead",
                    "tokenWrite", "delete", "revokeRead", "revokeWrite"}
    BY <1>25 DEF SessionStep, S!FindCurrent, S!CountSessions, S!Create, S!MarkRead,
       S!MarkWrite, S!TokenRead, S!TokenWrite, S!Delete, S!RevokeRead, S!RevokeWrite
  <2>2. /\ spc[r] \in Owning => spc'[r] \in Owning
        /\ spc'[r] \notin S!Working => spc[r] \in {"delete", "revokeWrite"}
    BY <1>9, <1>25 DEF SessionStep, S!FindCurrent, S!CountSessions, S!Create, S!MarkRead,
       S!MarkWrite, S!TokenRead, S!TokenWrite, S!Delete, S!RevokeRead, S!RevokeWrite,
       S!Working
  <2>3. /\ UNCHANGED avars /\ ~Over(r) /\ ~Over(r)' /\ goal[r] # "update"
        /\ goal[r] # "token"
    BY <1>7, <1>25, <2>1 DEF SessionStep, Over, avars
  <2>4. CASE Waits
    BY <1>13, <2>2, <2>3, <2>4 DEF avars
  <2>5. CASE spc'[r] \notin S!Working
    <3>1. \/ \E c \in Success \ {"RESOURCE_CREATED"} : Reply(r, e, c)
          \/ e = "refresh" /\ Reply(r, e, "SESSION_REVOKED")
      BY <1>25, <2>5 DEF SessionStep, Goes, Success
    <3>2. CASE e = "refresh" /\ Reply(r, e, "SESSION_REVOKED")
      BY <1>5, <2>2, <2>3, <2>5, <3>2 DEF Acts, avars, Listed, Code, Error
    <3>3. QED
      BY <1>11, <2>3, <3>1, <3>2 DEF avars
  <2>6. QED
    BY <1>25, <2>4, <2>5 DEF SessionStep, Goes
<1>26. CASE AccountStep(r)
  <2>1. apc[r] \in {"record", "count", "lockFind", "lockInsert", "resolveFind",
                    "limitInsert", "saveRead", "saveWrite", "reject"}
    BY <1>26 DEF AccountStep, A!Record, A!Count, A!LockFind, A!LockInsert,
       A!ResolveFind, A!LimitInsert, A!SaveRead, A!SaveWrite, A!Reject
  <2>2. /\ spc[r] \notin Owning
        /\ Over(r)' => spc[r] = "limiting"
        /\ goal'[r] = "update" => spc[r] = "idle"
    BY <1>3, <1>7, <1>8, <2>1 DEF OnItsWay
  <2>3. /\ apc'[r] \in A!Working \cup {"limited", "refused", "done", "rejected"}
        /\ apc'[r] = "rejected" => apc[r] = "reject" /\ goal[r] # "clear"
        /\ goal[r] = "token" => apc'[r] = "limited" \/ goal'[r] = "token"
    BY <1>6, <1>9, <1>26 DEF AccountStep, A!Record, A!Count, A!LockFind, A!LockInsert,
       A!SetLock, A!ResolveFind, A!LimitInsert, A!SaveRead, A!SaveWrite, A!After,
       A!Reject, A!Save, A!Answer, A!Working, GoalShape
  <2>4. CASE apc'[r] \in A!Working
    <3>1. Waits /\ UNCHANGED svars
      BY <1>26, <2>4 DEF AccountStep, A!Working
    <3>2. QED
      BY <1>13, <2>1, <2>2, <2>3, <2>4, <3>1 DEF svars, A!Working
  <2>5. CASE apc'[r] \notin A!Working
    <3>1. apc'[r] # "idle" /\ goal'[r] = "none" /\ ~Over(r)'
      BY <1>6, <2>3, <2>5 DEF A!Working, Over
    <3>2. CASE Is(r, "updateUser") /\ apc'[r] = "done"
      <4>1. Waits
        BY <1>26, <3>2 DEF AccountStep
      <4>2. QED
        BY <1>13, <2>1, <2>2, <2>3, <3>1, <3>2, <4>1
    <3>3. CASE ~(Is(r, "updateUser") /\ apc'[r] = "done")
      <4>1. Reply(r, e, AccountCode(r, apc'[r]))
        BY <1>26, <2>5, <3>3 DEF AccountStep
      <4>2. CASE apc'[r] \in {"limited", "done"}
        <5>1. AccountCode(r, apc'[r]) \in Success \ {"RESOURCE_CREATED"}
          BY <4>2 DEF AccountCode, Deleted, Success
        <5>2. goal[r] = "update" => apc'[r] # "done"
          BY <1>7, <3>3 DEF Is
        <5>3. QED
          BY <1>11, <2>1, <3>1, <4>1, <5>1, <5>2
      <4>3. CASE apc'[r] = "refused"
        BY <1>12, <2>1, <2>2, <2>3, <3>1, <4>1, <4>3 DEF AccountCode
      <4>4. CASE apc'[r] = "rejected"
        <5>1. goal[r] = "lock"
          BY <1>6, <2>3, <4>4 DEF GoalShape, A!Goal
        <5>2. e \in {"login", "refresh"}
          BY <1>7, <5>1 DEF Credentials
        <5>3. reply'[r] = "INTERNAL_SERVER_ERROR" /\ reply'[r] # None
          BY <1>5, <4>1, <4>4 DEF AccountCode, Code, Error
        <5>4. QED
          BY <2>1, <2>2, <3>1, <5>1, <5>2, <5>3 DEF Acts, Listed
      <4>5. QED
        BY <2>3, <2>5, <4>2, <4>3, <4>4
    <3>4. QED
      BY <3>2, <3>3
  <2>6. QED
    BY <2>4, <2>5
<1>27. CASE Fail(r)
  <2>1. \/ apc'[r] = "failed"
        \/ UNCHANGED avars /\ apc[r] \notin A!Working
    BY <1>9, <1>27 DEF Fail, A!Fail, A!Answer, A!InFlight
  <2>2. /\ apc[r] = "idle" => apc'[r] = "idle"
        /\ goal'[r] = "none" /\ ~Over(r)'
        /\ goal[r] = "update" => apc'[r] # "done"
    BY <1>6, <1>27, <2>1 DEF Over, avars, A!Working, Fail, A!Fail, A!InFlight
  <2>3. CASE Reply(r, e, "failed")
    BY <1>5, <1>10, <2>2, <2>3 DEF Acts, Code
  <2>4. CASE Reply(r, e, "RESOURCE_ALREADY_EXISTS") /\ goal[r] = "update"
    <3>1. reply'[r] = "RESOURCE_ALREADY_EXISTS" /\ reply'[r] # None
      BY <1>5, <2>4 DEF Code, Error
    <3>2. QED
      BY <1>6, <1>7, <2>2, <2>4, <3>1 DEF Acts, Listed
  <2>5. CASE Reply(r, e, Deleted(r))
    <3>1. Deleted(r) \in Success \ {"RESOURCE_CREATED"}
      BY DEF Deleted, Success
    <3>2. QED
      BY <1>11, <2>2, <2>5, <3>1
  <2>6. QED
    BY <1>27, <2>3, <2>4, <2>5 DEF Fail, When
<1>28. QED
  BY <1>14, <1>15, <1>16, <1>17, <1>18, <1>19, <1>20, <1>21, <1>22, <1>23, <1>24,
     <1>25, <1>26, <1>27 DEF Step

\* What a request is after it has come in.
Enters(r) ==
    /\ request[r] = None
    /\ request'[r] # None /\ request'[r].endpoint \in Endpoint \ {"createUser"}
    /\ reply'[r] \in {None, "SESSION_NOT_FOUND"}
    /\ ~Over(r)'
    /\ Credentials(r)' => request'[r].endpoint \in {"login", "refresh"}
    /\ apc'[r] = "delete" => request'[r].endpoint = "deleteUser"
    /\ goal'[r] = "update" =>
         /\ request'[r].endpoint = "updateUser"
         /\ reply'[r] = None /\ spc'[r] = "idle"

LEMMA RequestEnters ==
  ASSUME ApiInv, GoalShape, NEW r \in Req, LinksOf(r), Request(r)
  PROVE  Enters(r)
<1> USE NoneAssumption DEF Saving
<1>1. request[r] = None
  BY DEF Request, PostLogin, PostRefresh, PostLogout, PatchUser, PostDeleteUser,
     PostDeletion, PostDeletionWithTempToken, Receive, Arrive
<1>2. reply[r] = None /\ spc[r] = "idle" /\ apc[r] = "idle"
  BY <1>1 DEF LinksOf
<1>3. ASSUME NEW e \in Endpoint, NEW t \in Req \cup {None}, Receive(r, e, t)
      PROVE  request'[r] # None /\ request'[r].endpoint = e /\ reply'[r] = None
  <2> DEFINE new == [endpoint |-> e, token |-> t, rows |-> {}, reported |-> FALSE]
  <2>1. new \in Received /\ new.endpoint = e
    BY DEF Received
  <2>2. request' = [request EXCEPT ![r] = new] /\ UNCHANGED reply
    BY <1>3 DEF Receive
  <2>3. request'[r] = new /\ reply'[r] = None
    BY <1>2, <2>2 DEF ApiInv, ApiShape
  <2>4. QED
    BY <2>1, <2>3
<1>4. AccountPart(r) /\ Moves(r)
  BY StepComponents, AccountMoves DEF ApiInv
<1>5. goal'[r] # "none" <=> apc'[r] \in Saving
  BY <1>4 DEF Moves, GoalShape
<1>6. /\ \A phase : S!Goto(r, phase) => spc'[r] = phase
      /\ \A phase : A!Goto(r, phase) => apc'[r] = phase
  BY DEF S!Goto, A!Goto, ApiInv, SessionsShape, AccountShape
<1> USE DEF Endpoint, SessionsEndpoint, AccessEndpoint
<1>7. CASE PostLogin(r)
  BY <1>1, <1>3, <1>5, <1>6, <1>7 DEF PostLogin, A!Load, Enters, Over, Credentials
<1>8. ASSUME NEW t \in Req, NEW c \in S!Context, PostRefresh(r, t, c) PROVE Enters(r)
  BY <1>1, <1>3, <1>5, <1>6, <1>8 DEF PostRefresh, A!Load, Enters, Over, Credentials
<1>9. ASSUME NEW t \in Req, PostLogout(r, t) PROVE Enters(r)
  <2>1. apc'[r] = "idle"
    BY <1>2, <1>9 DEF PostLogout, avars
  <2>2. ~Over(r)' /\ ~Credentials(r)' /\ goal'[r] # "update"
    BY <1>5, <2>1 DEF Over, Credentials
  <2>3. CASE Receive(r, "logout", t)
    BY <1>1, <1>3, <2>1, <2>2, <2>3 DEF Enters
  <2>4. CASE Reply(r, "logout", "SESSION_NOT_FOUND")
    <3> DEFINE new == [endpoint |-> "logout", token |-> None, rows |-> {},
                       reported |-> FALSE]
    <3>1. new \in Received /\ new.endpoint = "logout"
      BY DEF Received
    <3>2. request'[r] = new /\ reply'[r] = "SESSION_NOT_FOUND"
      BY <2>4 DEF Reply, ApiInv, ApiShape
    <3>3. QED
      <4> HIDE DEF new
      <4> QED BY <1>1, <2>1, <2>2, <3>1, <3>2 DEF Enters
  <2>5. QED
    BY <1>9, <2>3, <2>4 DEF PostLogout
<1>10. ASSUME NEW t \in Req, PatchUser(r, t) PROVE Enters(r)
  <2>1. /\ apc'[r] = "saveRead" /\ goal'[r] = "update" /\ spc'[r] = "idle"
        /\ Receive(r, "updateUser", t)
    BY <1>2, <1>6, <1>10 DEF PatchUser, A!UpdateUser, A!Save, svars, GoalShape
  <2>2. QED
    BY <1>1, <1>3, <2>1 DEF Enters, Over, Credentials
<1>11. ASSUME NEW t \in Req, PostDeleteUser(r, t) PROVE Enters(r)
  BY <1>1, <1>3, <1>5, <1>6, <1>11 DEF PostDeleteUser, A!DeleteUser, Enters, Over,
     Credentials
<1>12. ASSUME NEW t \in Req, NEW e \in {"deleteSession", "deleteSessions"},
              PostDeletion(r, e, t) \/ PostDeletionWithTempToken(r, e, t)
       PROVE  Enters(r)
  <2>1. apc'[r] \in {"clear", "tempUser"} /\ Receive(r, e, t)
    BY <1>6, <1>12 DEF PostDeletion, PostDeletionWithTempToken, A!DeleteSessions,
       A!DeleteWithTempToken
  <2>2. QED
    BY <1>1, <1>3, <1>5, <2>1 DEF Enters, Over, Credentials
<1>13. QED
  BY <1>7, <1>8, <1>9, <1>10, <1>11, <1>12 DEF Request

\* Others' requests and answers stay as they are, and r is still asking the same.
Asks(r) ==
    /\ \A q \in Req \ {r} : request'[q] = request[q] /\ reply'[q] = reply[q]
    /\ request[r] # None =>
         request'[r] # None /\ request'[r].endpoint = request[r].endpoint

LEMMA TalkAsks ==
  ASSUME ApiShape, NEW r \in Req, Talk(r)
  PROVE  Asks(r)
<1> USE NoneAssumption
<1>1. CASE Waits
  BY <1>1 DEF Waits, Asks
<1>2. ASSUME request[r] = None,
             \E new : request' = [request EXCEPT ![r] = new],
             UNCHANGED reply \/ \E c : reply' = [reply EXCEPT ![r] = c]
      PROVE  Asks(r)
  BY <1>2 DEF Asks, ApiShape
<1>3. ASSUME NEW e \in Endpoint, NEW t, NEW c,
             Receive(r, e, t) \/ (Arrive(r) /\ Reply(r, e, c))
      PROVE  Asks(r)
  BY <1>2, <1>3 DEF Receive, Reply, Arrive
<1>4. ASSUME r \in InFlight, NEW c, Reply(r, request[r].endpoint, c)
      PROVE  Asks(r)
  <2> DEFINE new == [endpoint |-> request[r].endpoint, token |-> None, rows |-> {},
                     reported |-> FALSE]
  <2>1. new \in Received /\ new.endpoint = request[r].endpoint
    BY <1>4 DEF InFlight, ApiShape, Received
  <2>2. request' = [request EXCEPT ![r] = new] /\ reply' = [reply EXCEPT ![r] = c]
    BY <1>4 DEF Reply
  <2>3. QED
    <3> HIDE DEF new
    <3> QED BY <2>1, <2>2 DEF Asks, ApiShape
<1>5. ASSUME Is(r, "deleteSession") \/ Is(r, "deleteSessions"), UNCHANGED reply,
             NEW ids \in SUBSET Req, NEW b \in BOOLEAN,
             request' = [request EXCEPT ![r].rows = ids, ![r].reported = b]
      PROVE  Asks(r)
  <2>1. request[r] \in Received
    BY <1>5 DEF Is, InFlight, ApiShape
  <2>2. /\ request'[r] = [endpoint |-> request[r].endpoint,
                          token |-> request[r].token, rows |-> ids, reported |-> b]
        /\ \A q \in Req \ {r} : request'[q] = request[q]
    BY <1>5, <2>1 DEF ApiShape, Received
  <2>3. request'[r] \in Received /\ request'[r].endpoint = request[r].endpoint
    BY <2>1, <2>2 DEF Received
  <2>4. request'[r] # None
    BY <2>3
  <2>5. UNCHANGED reply
    BY <1>5
  <2>6. QED
    BY <2>2, <2>3, <2>4, <2>5 DEF Asks
<1>6. QED
  BY <1>1, <1>3, <1>4, <1>5 DEF Talk

-----------------------------------------------------------------------------
(* The rows of sessions. *)

\* A row comes only from a request that creates it; what is held was found in the
\* table, held before or has just been created.
SessionsMade(r) ==
    /\ \A q \in Req \ {r} : spc'[q] = spc[q] /\ sid'[q] = sid[q]
    /\ \A s \in Req : S!Stored(s)' =>
         \/ S!Stored(s)
         \/ spc[r] \in SavingSession /\ s = sid[r]
         \/ spc[r] = "create" /\ s = r
    /\ spc'[r] \in SavingSession =>
         /\ sid'[r] \in Req
         /\ \/ S!Stored(sid'[r])
            \/ spc[r] \in SavingSession /\ sid'[r] = sid[r]
            \/ spc[r] = "create" /\ sid'[r] = r

LEMMA SessionsRows ==
  ASSUME SessionsShape, NEW r \in Req, SessionsPart(r)
  PROVE  SessionsMade(r)
<1> USE NoneAssumption DEF SavingSession
<1>1. ASSUME \E phase : spc' = [spc EXCEPT ![r] = phase],
             sid' = sid \/ \E s : sid' = [sid EXCEPT ![r] = s],
             \A s \in Req : S!Stored(s)' =>
               \/ S!Stored(s)
               \/ spc[r] \in SavingSession /\ s = sid[r]
               \/ spc[r] = "create" /\ s = r,
             spc'[r] \in SavingSession =>
               /\ sid'[r] \in Req
               /\ \/ S!Stored(sid'[r])
                  \/ spc[r] \in SavingSession /\ sid'[r] = sid[r]
                  \/ spc[r] = "create" /\ sid'[r] = r
      PROVE  SessionsMade(r)
  <2>1. \A q \in Req \ {r} : spc'[q] = spc[q] /\ sid'[q] = sid[q]
    BY <1>1 DEF SessionsShape
  <2>2. QED
    BY <1>1, <2>1 DEF SessionsMade
<1>2. /\ \A phase : S!Goto(r, phase) => spc'[r] = phase
      /\ \A s : sid' = [sid EXCEPT ![r] = s] => sid'[r] = s
  BY DEF S!Goto, SessionsShape
<1>3. spc[r] \in SavingSession => sid[r] \in Req
  BY DEF SessionsShape
<1>4. ASSUME NEW phase, phase \notin SavingSession, S!Goto(r, phase), UNCHANGED session,
             sid' = sid \/ \E s : sid' = [sid EXCEPT ![r] = s]
      PROVE  SessionsMade(r)
  BY <1>1, <1>2, <1>4 DEF S!Stored, S!Goto
<1>5. ASSUME NEW phase, S!Goto(r, phase), UNCHANGED <<session, sid>>,
             spc[r] \in SavingSession
      PROVE  SessionsMade(r)
  BY <1>1, <1>2, <1>3, <1>5 DEF S!Stored, S!Goto
<1>6. ASSUME NEW phase, S!Goto(r, phase), UNCHANGED session,
             NEW s \in Req, S!Stored(s), sid' = [sid EXCEPT ![r] = s] \/ (sid' = sid /\ sid[r] = s)
      PROVE  SessionsMade(r)
  <2>1. sid'[r] = s /\ S!Stored(s)'
    BY <1>2, <1>6 DEF S!Stored
  <2>2. QED
    BY <1>1, <1>6, <2>1 DEF S!Stored, S!Goto
<1>7. CASE UNCHANGED svars
  <2>1. spc' = [spc EXCEPT ![r] = spc[r]]
    BY <1>7 DEF svars, SessionsShape
  <2>2. QED
    BY <1>1, <1>3, <1>7, <2>1 DEF svars, S!Stored
<1>8. ASSUME NEW u, NEW s, S!ByAuthUser(u, s) # {} PROVE s \in Req /\ S!Stored(s)
  BY <1>8 DEF S!ByAuthUser, S!LiveOf, S!Live
<1>9. ASSUME NEW outcome, outcome \notin SavingSession, S!Answer(r, outcome),
             UNCHANGED session
      PROVE  SessionsMade(r)
  <2>1. \E s : sid' = [sid EXCEPT ![r] = s]
    BY <1>9 DEF S!Answer
  <2>2. QED
    BY <1>4, <1>9, <2>1 DEF S!Answer
<1>10. CASE S!Request(r)
  <2>1. ASSUME NEW u \in {Owner}, NEW c \in S!Context, S!Login(r, u, c)
        PROVE  SessionsMade(r)
    <3>1. \E s : sid' = [sid EXCEPT ![r] = s]
      BY <2>1 DEF S!Login
    <3>2. QED
      BY <1>4, <2>1, <3>1 DEF S!Login
  <2>2. ASSUME NEW t \in Req,
               S!RefreshInvalid(r, t) \/ \E c \in S!Context : S!RefreshValid(r, t, c)
        PROVE  SessionsMade(r)
    <3>1. /\ UNCHANGED session
          /\ sid' = sid \/ \E s : sid' = [sid EXCEPT ![r] = s]
          /\ S!Goto(r, "refresh") \/ S!Goto(r, "ended")
      BY <2>2 DEF S!RefreshValid, S!RefreshInvalid
    <3>2. QED
      BY <1>4, <3>1
  <2>3. ASSUME NEW t \in Req, S!Logout(r, t) \/ S!UpdateOrDeleteUser(r, t)
        PROVE  SessionsMade(r)
    <3>1. CASE S!ByAuthUser(S!Subject(t), sid[t]) = {}
      BY <1>4, <2>3, <3>1 DEF S!Logout, S!UpdateOrDeleteUser
    <3>2. CASE S!ByAuthUser(S!Subject(t), sid[t]) # {}
      <4>1. sid[t] \in Req /\ S!Stored(sid[t])
        BY <1>8, <3>2
      <4>2. /\ UNCHANGED session /\ sid' = [sid EXCEPT ![r] = sid[t]]
            /\ \E phase : S!Goto(r, phase)
        BY <2>3, <3>2 DEF S!Logout, S!UpdateOrDeleteUser
      <4>3. QED
        BY <1>6, <4>1, <4>2
    <3>3. QED
      BY <3>1, <3>2
  <2>4. ASSUME NEW t \in Req, NEW ids \in SUBSET Req, S!DeleteSessions(r, t, ids)
        PROVE  SessionsMade(r)
    <3>1. /\ spc'[r] = "ended" /\ sid' = sid
          /\ spc' = [spc EXCEPT ![r] = "ended"]
          /\ \A s \in Req : S!Stored(s)' => S!Stored(s)
      BY <1>2, <2>4 DEF S!DeleteSessions, S!SoftDelete, S!Stored, S!Goto
    <3>2. QED
      BY <1>1, <3>1
  <2>5. QED
    BY <1>10, <2>1, <2>2, <2>3, <2>4 DEF S!Request
<1>11. CASE S!Step(r)
  <2>1. CASE S!LockedOut(r) \/ S!Limit(r) \/ S!Respond(r)
    BY <1>9, <2>1 DEF S!LockedOut, S!Limit, S!Respond
  <2>2. CASE S!Refresh(r)
    <3>1. CASE S!ByAuthUser(call[r].user, sid[r]) = {}
      BY <1>9, <2>2, <3>1 DEF S!Refresh
    <3>2. CASE S!ByAuthUser(call[r].user, sid[r]) # {}
      <4>1. sid[r] \in Req /\ S!Stored(sid[r])
        BY <1>8, <3>2
      <4>2. UNCHANGED <<session, sid>> /\ \E phase : S!Goto(r, phase)
        BY <2>2, <3>2 DEF S!Refresh
      <4>3. QED
        BY <1>6, <4>1, <4>2
    <3>3. QED
      BY <3>1, <3>2
  <2>3. CASE S!FindCurrent(r)
    <3>1. PICK s \in S!OneOf(S!CurrentSessions(r)) :
             /\ sid' = [sid EXCEPT ![r] = s]
             /\ IF s = None THEN S!Goto(r, "count") ELSE S!Goto(r, "markRead")
      BY <2>3 DEF S!FindCurrent
    <3>2. UNCHANGED session
      BY <2>3 DEF S!FindCurrent
    <3>3. CASE s = None
      BY <1>4, <3>1, <3>2, <3>3
    <3>4. CASE s # None
      <4>1. s \in Req /\ S!Stored(s)
        BY <3>1, <3>4 DEF S!OneOf, S!CurrentSessions, S!ContextMatches, S!LiveOf, S!Live
      <4>2. QED
        BY <1>6, <3>1, <3>2, <3>4, <4>1
    <3>5. QED
      BY <3>3, <3>4
  <2>4. CASE S!CountSessions(r)
    <3>1. \E phase \in {"limiting", "create"} : S!Goto(r, phase)
      BY <2>4 DEF S!CountSessions
    <3>2. QED
      BY <1>4, <2>4, <3>1 DEF S!CountSessions
  <2>5. CASE S!Create(r)
    <3>1. /\ spc' = [spc EXCEPT ![r] = "tokenRead"] /\ spc[r] = "create"
          /\ sid' = [sid EXCEPT ![r] = r] /\ sid'[r] = r
      BY <1>2, <2>5 DEF S!Create, S!Goto
    <3>2. \A s \in Req \ {r} : session'[s] = session[s]
      BY <2>5 DEF S!Create, SessionsShape
    <3>3. QED
      BY <1>1, <3>1, <3>2 DEF S!Stored
  <2>6. CASE S!MarkRead(r) \/ S!TokenRead(r) \/ S!RevokeRead(r)
    BY <1>5, <2>6 DEF S!MarkRead, S!TokenRead, S!RevokeRead
  <2>7. CASE S!MarkWrite(r) \/ S!TokenWrite(r) \/ S!RevokeWrite(r)
    <3>1. /\ spc[r] \in SavingSession
          /\ \A s \in Req \ {sid[r]} : session'[s] = session[s]
          /\ \E phase : /\ spc' = [spc EXCEPT ![r] = phase]
                        /\ phase \notin SavingSession \/ sid' = sid
          /\ sid' = sid \/ \E s : sid' = [sid EXCEPT ![r] = s]
      BY <2>7 DEF S!MarkWrite, S!TokenWrite, S!RevokeWrite, S!SaveWrite, S!Goto,
         S!Answer, SessionsShape
    <3>2. spc'[r] \in SavingSession => sid' = sid
      BY <3>1 DEF SessionsShape
    <3>3. QED
      BY <1>1, <1>3, <3>1, <3>2 DEF S!Stored
  <2>8. CASE S!Delete(r)
    <3>1. /\ spc[r] \in SavingSession /\ spc'[r] \notin SavingSession
          /\ \A s \in Req \ {sid[r]} : session'[s] = session[s]
          /\ \E phase : spc' = [spc EXCEPT ![r] = phase]
          /\ \E s : sid' = [sid EXCEPT ![r] = s]
      BY <1>2, <2>8 DEF S!Delete, S!SoftDelete, S!Goto, S!Answer
    <3>2. QED
      BY <1>1, <3>1 DEF S!Stored
  <2>9. QED
    BY <1>11, <2>1, <2>2, <2>3, <2>4, <2>5, <2>6, <2>7, <2>8 DEF S!Step
<1>12. CASE S!Fail(r)
  BY <1>9, <1>12 DEF S!Fail
<1>13. QED
  BY <1>7, <1>10, <1>11, <1>12 DEF SessionsPart

-----------------------------------------------------------------------------
(* The invariant. *)

\* s inserted a session, or is about to: its answer is no error.
RowOwner(s) ==
    /\ reply[s] \notin Error
    /\ reply[s] = None => spc[s] \in Owning

\* The session r inserted, and the one it holds.
RowsOf(r) ==
    /\ S!Stored(r) => RowOwner(r)
    /\ spc[r] \in SavingSession => sid[r] \in Req /\ RowOwner(sid[r])

\* The password r set.
PasswordOf(r) ==
    HasPassword(r) =>
      /\ request[r] # None /\ request[r].endpoint = "updateUser"
      /\ reply[r] = None => apc[r] = "done"
      /\ reply[r] \in Error => reply[r] = "SESSION_NOT_FOUND"

\* The state of the session limit r inserted.
StateOf(r) ==
    A!Stored(r) /\ state[r].name # "lock" =>
      /\ reply[r] \notin Error
      /\ reply[r] = None => goal[r] = "token"

ReplyOf(r) ==
    reply[r] \notin {None, "failed"} =>
      \/ Listed(request[r].endpoint, reply[r])
      \/ reply[r] = "RESOURCE_NOT_FOUND" /\ DeletionAsked

\* Inductive, together with ApiInv.
AnswerInv ==
    /\ GoalShape /\ RowShape
    /\ Gone => DeletionAsked
    /\ \A r \in Req :
         LinksOf(r) /\ RowsOf(r) /\ PasswordOf(r) /\ StateOf(r) /\ ReplyOf(r)

LEMMA StepAnswer ==
  ASSUME ApiInv, AnswerInv, NEW r \in Req,
         Request(r) \/ Step(r) \/ Fail(r) \/ Time(r)
  PROVE  AnswerInv'
<1> USE NoneAssumption
<1>1. Moves(r) /\ RowsKept(r) /\ UserKept(r) /\ SessionsMade(r)
  BY StepComponents, AccountMoves, AccountRows, AccountUser, SessionsRows
     DEF ApiInv, AnswerInv
<1>2. Asks(r)
  BY StepTalk, TalkAsks DEF ApiInv, AccountShape
<1>3. LinksOf(r)
  BY DEF AnswerInv
\* What the step is.
<1>4. \/ Enters(r)
      \/ r \in InFlight /\ Acts(r)
      \/ UNCHANGED <<spc, sid, session, apc, goal, state, request, reply>>
  <2>1. CASE Request(r)
    BY <1>3, <2>1, RequestEnters DEF AnswerInv
  <2>2. CASE Step(r) \/ Fail(r)
    <3>1. r \in InFlight
      BY <2>2 DEF Step, Fail, Authenticated, Rejected, RefreshLocked, RefreshChecked,
         OverLimit, Granted, TempUser, DeleteRows, Report, Cleared, IsDeletion,
         FindSessionToRevoke, DeleteUser, SessionStep, AccountStep, Is
    <3>2. QED
      BY <1>3, <2>2, <3>1, InFlightActs DEF AnswerInv
  <2>3. CASE Time(r)
    BY <2>3 DEF Time, A!Pass, A!Age, svars, Waits
  <2>4. QED
    BY <2>1, <2>2, <2>3
<1>5. ASSUME NEW q \in Req \ {r}
      PROVE  /\ request'[q] = request[q] /\ reply'[q] = reply[q]
             /\ spc'[q] = spc[q] /\ sid'[q] = sid[q]
             /\ apc'[q] = apc[q] /\ goal'[q] = goal[q]
  BY <1>1, <1>2 DEF Asks, SessionsMade, Moves, Alone
<1>6. Enters(r) => spc[r] = "idle" /\ apc[r] = "idle" /\ reply[r] = None
  BY <1>3 DEF Enters, LinksOf
<1>7. r \in InFlight => request[r] # None /\ reply[r] = None
  BY DEF InFlight
<1>8. GoalShape' /\ RowShape'
  BY <1>1 DEF Moves, RowsKept
<1>9. DeletionAsked => DeletionAsked'
  BY <1>2 DEF DeletionAsked, Asks
<1>10. Gone' => DeletionAsked'
  <2>1. CASE Gone
    BY <1>9, <2>1 DEF AnswerInv
  <2>2. CASE A!Delete(r)
    <3>1. apc[r] = "delete"
      BY <2>2 DEF A!Delete
    <3>2. request[r] # None /\ request[r].endpoint = "deleteUser"
      BY <1>3, <3>1 DEF LinksOf
    <3>3. QED
      BY <1>9, <3>2 DEF DeletionAsked
  <2>3. QED
    BY <1>1, <2>1, <2>2 DEF UserKept
<1>11. ASSUME NEW s \in Req, RowOwner(s) PROVE RowOwner(s)'
  <2>1. CASE s # r
    BY <1>5, <1>11, <2>1 DEF RowOwner
  <2>2. CASE s = r
    BY <1>4, <1>6, <1>7, <1>11, <2>2 DEF RowOwner, Acts, Owning
  <2>3. QED
    BY <2>1, <2>2
<1>12. ASSUME NEW q \in Req PROVE RowsOf(q)'
  <2>1. \A s \in Req : S!Stored(s) => RowOwner(s)'
    BY <1>11 DEF AnswerInv, RowsOf
  <2>2. /\ spc[r] \in SavingSession => sid[r] \in Req
        /\ \A s \in Req : spc[r] \in SavingSession /\ s = sid[r] => RowOwner(s)'
    BY <1>11 DEF AnswerInv, RowsOf
  <2>3. CASE UNCHANGED <<spc, sid, session, apc, goal, state, request, reply>>
    BY <2>3 DEF AnswerInv, RowsOf, RowOwner, S!Stored
  <2>4. CASE Enters(r) \/ r \in InFlight
    <3>1. spc[r] = "create" => RowOwner(r)'
      BY <1>6, <1>7, <1>11, <2>4 DEF RowOwner, Owning, Error, Code
    <3>2. S!Stored(q)' => RowOwner(q)'
      BY <1>1, <2>1, <2>2, <3>1 DEF SessionsMade
    <3>3. ASSUME spc'[q] \in SavingSession
          PROVE  \E s \in Req : s = sid'[q] /\ RowOwner(s)'
      <4>1. CASE q # r
        <5>1. /\ spc[q] \in SavingSession /\ sid'[q] = sid[q]
              /\ sid[q] \in Req /\ RowOwner(sid[q])
          BY <1>5, <3>3, <4>1 DEF AnswerInv, RowsOf
        <5>2. PICK s \in Req : s = sid[q] /\ RowOwner(s)
          BY <5>1
        <5>3. RowOwner(s)'
          BY <1>11, <5>2
        <5>4. QED
          BY <5>1, <5>2, <5>3
      <4>2. CASE q = r
        <5>1. CASE S!Stored(sid'[r]) /\ sid'[r] \in Req
          BY <2>1, <4>2, <5>1
        <5>2. CASE spc[r] \in SavingSession /\ sid'[r] = sid[r]
          BY <2>2, <4>2, <5>2
        <5>3. CASE spc[r] = "create" /\ sid'[r] = r
          BY <3>1, <4>2, <5>3
        <5>4. QED
          BY <1>1, <3>3, <4>2, <5>1, <5>2, <5>3 DEF SessionsMade
      <4>3. QED
        BY <4>1, <4>2
    <3>4. QED
      BY <3>2, <3>3 DEF RowsOf, RowOwner
  <2>5. QED
    BY <1>4, <2>3, <2>4
<1>13. ASSUME NEW q \in Req PROVE LinksOf(q)'
  <2>1. CASE q # r
    <3>1. LinksOf(q)
      BY DEF AnswerInv
    <3>2. QED
      BY <1>5, <2>1, <3>1 DEF LinksOf, Credentials, Over
  <2>2. CASE q = r /\ Enters(r)
    BY <2>2 DEF LinksOf, Enters
  <2>3. CASE q = r /\ r \in InFlight /\ Acts(r)
    <3>1. /\ Credentials(r)' => Credentials(r)
          /\ goal'[r] = "update" => goal[r] = "update"
          /\ apc'[r] = "delete" => apc[r] = "delete"
      BY <1>1, <2>3 DEF Moves, Acts, A!Load, A!UpdateUser, A!DeleteUser, A!Arrive,
         A!Save, A!Goto, ApiInv, AccountShape
    <3>2. request'[r] # None /\ request'[r].endpoint = request[r].endpoint
      BY <1>2, <1>7, <2>3 DEF Asks
    <3>3. QED
      BY <1>3, <1>7, <2>3, <3>1, <3>2 DEF LinksOf, Acts
  <2>4. CASE UNCHANGED <<spc, sid, session, apc, goal, state, request, reply>>
    <3>1. LinksOf(q)
      BY DEF AnswerInv
    <3>2. QED
      BY <2>4, <3>1 DEF LinksOf, Credentials, Over
  <2>5. QED
    BY <1>4, <2>1, <2>2, <2>3, <2>4
<1>14. ASSUME NEW q \in Req PROVE PasswordOf(q)'
  <2> SUFFICES ASSUME HasPassword(q)'
               PROVE  /\ request'[q] # None /\ request'[q].endpoint = "updateUser"
                      /\ reply'[q] = None => apc'[q] = "done"
                      /\ reply'[q] \in Error => reply'[q] = "SESSION_NOT_FOUND"
    BY DEF PasswordOf
  <2>1. CASE HasPassword(q)
    <3>1. /\ request[q] # None /\ request[q].endpoint = "updateUser"
          /\ reply[q] = None => apc[q] = "done"
          /\ reply[q] \in Error => reply[q] = "SESSION_NOT_FOUND"
      BY <2>1 DEF AnswerInv, PasswordOf
    <3>2. CASE q # r
      BY <1>5, <3>1, <3>2
    <3>3. CASE q = r
      <4>1. request'[r] # None /\ request'[r].endpoint = request[r].endpoint
        BY <1>2, <3>1, <3>3 DEF Asks
      <4>2. QED
        BY <1>4, <1>7, <3>1, <3>3, <4>1 DEF Acts, Enters
    <3>4. QED
      BY <3>2, <3>3
  <2>2. CASE q = r /\ apc[r] = "saveWrite" /\ goal[r] = "update" /\ apc'[r] = "done"
    <3>1. r \in InFlight /\ Acts(r)
      BY <1>4, <1>6, <2>2
    <3>2. request'[r] # None /\ request'[r].endpoint = "updateUser"
      BY <1>2, <1>3, <1>7, <2>2, <3>1 DEF Asks, LinksOf
    <3>3. reply'[r] = None
      BY <2>2, <3>1 DEF Acts
    <3>4. QED
      BY <2>2, <3>2, <3>3 DEF Code
  <2>3. QED
    BY <1>1, <2>1, <2>2 DEF UserKept
<1>15. ASSUME NEW q \in Req PROVE StateOf(q)'
  <2> SUFFICES ASSUME A!Stored(q)', state'[q].name # "lock"
               PROVE  /\ reply'[q] \notin Error
                      /\ reply'[q] = None => goal'[q] = "token"
    BY DEF StateOf
  <2>1. CASE A!Stored(q)
    <3>1. state[q].name # "lock"
      BY <1>1, <2>1 DEF RowsKept
    <3>2. reply[q] \notin Error /\ (reply[q] = None => goal[q] = "token")
      BY <2>1, <3>1 DEF AnswerInv, StateOf
    <3>3. CASE q # r
      BY <1>5, <3>2, <3>3
    <3>4. CASE q = r
      <4>1. Enters(r) => goal[r] = "none"
        BY <1>6 DEF AnswerInv, GoalShape, Saving
      <4>2. QED
        BY <1>4, <1>6, <1>7, <3>2, <3>4, <4>1 DEF Acts
    <3>5. QED
      BY <3>3, <3>4
  <2>2. CASE ~A!Stored(q)
    <3>1. q = r /\ goal'[r] = "token"
      BY <1>1, <2>2 DEF RowsKept
    <3>2. ~ UNCHANGED state
      BY <2>2 DEF A!Stored
    <3>3. r \in InFlight /\ Acts(r)
      BY <1>4, <3>1, <3>2 DEF Enters, Over
    <3>4. QED
      BY <3>1, <3>3 DEF Acts, Over, Code
  <2>3. QED
    BY <2>1, <2>2
<1>16. ASSUME NEW q \in Req PROVE ReplyOf(q)'
  <2>1. CASE q # r
    BY <1>5, <1>9, <2>1 DEF AnswerInv, ReplyOf, Listed
  <2>2. CASE q = r /\ Enters(r)
    BY <2>2 DEF ReplyOf, Enters, Listed
  <2>3. CASE q = r /\ r \in InFlight /\ Acts(r)
    <3>1. request'[r].endpoint = request[r].endpoint
      BY <1>2, <1>7, <2>3 DEF Asks
    <3>2. user.deleted => DeletionAsked'
      BY <1>9 DEF AnswerInv, Gone
    <3>3. QED
      BY <2>3, <3>1, <3>2 DEF ReplyOf, Acts, Listed
  <2>4. CASE UNCHANGED <<spc, sid, session, apc, goal, state, request, reply>>
    BY <1>9, <2>4 DEF AnswerInv, ReplyOf, Listed
  <2>5. QED
    BY <1>4, <2>1, <2>2, <2>3, <2>4
<1>17. QED
  BY <1>8, <1>10, <1>12, <1>13, <1>14, <1>15, <1>16 DEF AnswerInv

LEMMA NextAnswer == ApiInv /\ AnswerInv /\ [Next]_vars => AnswerInv'
<1> SUFFICES ASSUME ApiInv, AnswerInv, [Next]_vars PROVE AnswerInv'
  OBVIOUS
<1>1. CASE UNCHANGED vars
  BY <1>1 DEF vars, svars, avars, AnswerInv, GoalShape, RowShape, Inserted, A!Stored,
     Gone, DeletionAsked, LinksOf, Credentials, Over, RowsOf, RowOwner, S!Stored,
     PasswordOf, HasPassword, StateOf, ReplyOf, Listed, Saving
<1>2. CASE Next
  BY <1>2, StepAnswer DEF Next
<1>3. QED
  BY <1>1, <1>2

LEMMA InitAnswer == Init => AnswerInv
<1> SUFFICES ASSUME Init PROVE AnswerInv
  OBVIOUS
<1> USE NoneAssumption
<1>1. /\ \A r \in Req : /\ request[r] = None /\ reply[r] = None
                        /\ spc[r] = "idle" /\ apc[r] = "idle" /\ goal[r] = "none"
                        /\ mem[r].user = None /\ ~mem[r].related /\ adirty[r] = {}
                        /\ ~A!Stored(r) /\ ~S!Stored(r)
      /\ user.password = None /\ ~user.deleted
      /\ goal \in [Req -> A!Goal] /\ state = [s \in Req |-> state[s]]
  BY DEF Init, S!Init, A!Init, A!Nothing, A!NoStates, A!Stored, S!Stored, A!Goal
<1>2. GoalShape /\ RowShape
  BY <1>1 DEF GoalShape, RowShape, Saving, Inserted
<1>3. ~Gone /\ \A r \in Req : ~HasPassword(r)
  BY <1>1 DEF Gone, HasPassword
<1>4. ASSUME NEW r \in Req
      PROVE  LinksOf(r) /\ RowsOf(r) /\ PasswordOf(r) /\ StateOf(r) /\ ReplyOf(r)
  BY <1>1, <1>3 DEF LinksOf, Credentials, Over, RowsOf, SavingSession, PasswordOf,
     StateOf, ReplyOf
<1>5. QED
  BY <1>2, <1>3, <1>4 DEF AnswerInv

-----------------------------------------------------------------------------
(* Safety. *)

\* Of an account: a request that is answered with an error (exceptions thrown in
\* auth.service.ts, security.service.ts and users.service.ts) has inserted no
\* session and no state but a lock, and its password is in the table only when
\* it was answered SESSION_NOT_FOUND after the change.
THEOREM NoErrorLeaves == Spec => []ErrorsLeaveNothing
<1>1. ApiInv /\ AnswerInv => ErrorsLeaveNothing
  <2> SUFFICES ASSUME ApiInv, AnswerInv, NEW r \in Req, reply[r] \in Error
               PROVE  /\ ~S!Stored(r)
                      /\ user.password = r => /\ request[r].endpoint = "updateUser"
                                              /\ reply[r] = "SESSION_NOT_FOUND"
                      /\ A!Stored(r) => A!IsLock(r)
    BY DEF ErrorsLeaveNothing
  <2>1. ~S!Stored(r)
    BY DEF AnswerInv, RowsOf, RowOwner
  <2>2. user.password = r => /\ request[r].endpoint = "updateUser"
                             /\ reply[r] = "SESSION_NOT_FOUND"
    BY DEF AnswerInv, PasswordOf, HasPassword
  <2>3. A!Stored(r) => A!IsLock(r)
    BY DEF AnswerInv, StateOf, A!IsLock
  <2>4. QED
    BY <2>1, <2>2, <2>3
<1>2. QED
  BY <1>1, InitApi, NextApi, InitAnswer, NextAnswer, PTL DEF Spec

\* Each answer of a guard, a pipe or an endpoint that only reads.
LEMMA RefusalsDocumented ==
  ASSUME NEW e \in Endpoint, NEW c \in Refusals(e) \cup Reads(e)
  PROVE  Status(c) \in Documented(e) \cup Undocumented(e)
<1> USE DEF Endpoint, SessionsEndpoint, AccessEndpoint
<1>1. e # "createUser" => 401 \in Documented(e)
  BY DEF Documented
<1>2. e = "refresh" => 500 \in Documented(e)
  BY DEF Documented
<1>3. e \notin {"login", "refresh", "createUser"} /\ e \in SessionsEndpoint
        => 404 \in Undocumented(e)
  BY DEF Undocumented, When
<1>4. e \in SessionsEndpoint => 500 \in Undocumented(e)
  BY DEF Undocumented, When
<1>5. e \in {"login", "createUser", "updateUser", "deleteSessions"}
        => 400 \in Documented(e)
  BY DEF Documented
<1>6. e \in {"getUser", "getSessions", "getSession", "deleteSession"}
        => 400 \in Undocumented(e)
  BY DEF Undocumented, When
<1>7. e \in {"getUser", "getSessions", "getSession"} => 200 \in Documented(e)
  BY DEF Documented
<1>8. e = "createUser" => 201 \in Documented(e)
  BY DEF Documented
<1>9. e = "createUser" => 409 \in Documented(e)
  BY DEF Documented
<1>10. CASE c = "VALIDATION_ERROR"
  <2>1. e \in {"login", "createUser", "updateUser", "deleteSessions",
               "getUser", "getSessions", "getSession", "deleteSession"}
    BY <1>10 DEF Refusals, Reads, When
  <2>2. QED
    BY <1>5, <1>6, <1>10, <2>1 DEF Status
<1>11. CASE c \in {"AUTHENTICATION_REQUIRED", "INVALID_CREDENTIALS",
                   "SESSION_EXPIRED", "SESSION_NOT_FOUND"}
  <2>1. e # "createUser"
    BY <1>11 DEF Refusals, Reads
  <2>2. QED
    BY <1>1, <1>11, <2>1 DEF Status
<1>12. CASE c = "RESOURCE_NOT_FOUND"
  <2>1. e \in SessionsEndpoint
    BY <1>12 DEF Refusals, Reads, When
  <2>2. QED
    BY <1>3, <1>12, <2>1 DEF Status
<1>13. CASE c = "INTERNAL_SERVER_ERROR"
  <2>1. e \in SessionsEndpoint \/ e = "refresh"
    BY <1>13 DEF Refusals, Reads, When
  <2>2. QED
    BY <1>2, <1>4, <1>13, <2>1 DEF Status
<1>14. CASE c \in {"RESOURCE_FETCHED", "RESOURCES_FETCHED"}
  <2>1. e \in {"getUser", "getSessions", "getSession"}
    BY <1>14 DEF Refusals, Reads, When
  <2>2. QED
    BY <1>7, <1>14, <2>1 DEF Status
<1>15. CASE c = "RESOURCE_CREATED"
  <2>1. e = "createUser"
    BY <1>15 DEF Refusals, Reads, When
  <2>2. QED
    BY <1>8, <1>15, <2>1 DEF Status
<1>16. CASE c = "RESOURCE_ALREADY_EXISTS"
  <2>1. e = "createUser"
    BY <1>16 DEF Refusals, Reads, When
  <2>2. QED
    BY <1>9, <1>16, <2>1 DEF Status
<1>17. QED
  <2>1. Refusals(e) \subseteq
          {"VALIDATION_ERROR", "AUTHENTICATION_REQUIRED", "INVALID_CREDENTIALS",
           "SESSION_EXPIRED", "SESSION_NOT_FOUND", "RESOURCE_NOT_FOUND",
           "INTERNAL_SERVER_ERROR"}
    BY DEF Refusals, When
  <2>2. Reads(e) \subseteq
          {"VALIDATION_ERROR", "RESOURCE_NOT_FOUND", "RESOURCE_FETCHED",
           "RESOURCES_FETCHED", "RESOURCE_CREATED", "RESOURCE_ALREADY_EXISTS"}
    BY DEF Reads, When
  <2>3. QED
    BY <1>10, <1>11, <1>12, <1>13, <1>14, <1>15, <1>16, <2>1, <2>2

\* Of an account: unless a statement fails, each request is answered with a
\* status docs/spec lists for its endpoint, but for those Undocumented names;
\* and past guard and pipes, but for the RESOURCE_NOT_FOUND of a request that
\* meets the deletion of its account.
THEOREM AlwaysDocumented == Spec => []AnswersDocumented
<1>1. ApiInv /\ AnswerInv => AnswersDocumented
  <2> SUFFICES ASSUME ApiInv, AnswerInv PROVE AnswersDocumented
    OBVIOUS
  <2>1. ASSUME NEW e \in Endpoint, NEW code \in Refusals(e) \cup Reads(e)
        PROVE  Status(code) \in Documented(e) \cup Undocumented(e)
    BY RefusalsDocumented
  <2>2. ASSUME NEW r \in Req, reply[r] \notin {None, "failed"}
        PROVE  \/ Status(reply[r]) \in Documented(request[r].endpoint)
               \/ reply[r] = "RESOURCE_NOT_FOUND" /\ DeletionAsked
    <3>1. request[r].endpoint \in Endpoint \ {"createUser"}
      BY <2>2 DEF AnswerInv, LinksOf, ApiInv, ApiShape, Received
    <3>2. CASE Listed(request[r].endpoint, reply[r])
      BY <3>1, <3>2, ListedDocumented
    <3>3. QED
      BY <2>2, <3>2 DEF AnswerInv, ReplyOf
  <2>3. QED
    BY <2>1, <2>2 DEF AnswersDocumented
<1>2. QED
  BY <1>1, InitApi, NextApi, InitAnswer, NextAnswer, PTL DEF Spec
=============================================================================
