---------------------------- MODULE AccountProofs ----------------------------
(***************************************************************************)
(* Proofs about Account, for any set of requests and any limits.           *)
(***************************************************************************)
EXTENDS Account, FiniteSetTheorems, TLAPS

Saving == {"saveRead", "saveWrite", "reject"}

\* What every action relies on, besides the types: a request saves for a
\* purpose, UPDATEs only columns of entities it has in memory, which are
\* entities of stored rows; and it is done, or about to save, once the row it
\* makes is there.
Shape ==
    /\ TypeOK
    /\ \A r \in Req :
         /\ goal[r] = "none" <=> pc[r] \notin Saving
         /\ pc[r] \notin {"saveWrite", "reject"} => dirty[r] = {}
         /\ \A c \in UserColumn : <<None, c>> \in dirty[r] => mem[r].user # None
         /\ \A s \in Req : \A c \in StateColumn :
              <<s, c>> \in dirty[r] => mem[r].states[s] # None
         /\ \A s \in Req : mem[r].states[s] # None =>
              Stored(s) /\ mem[r].states[s].name = state[s].name
         /\ Stored(r) => pc[r] \in Answered \/ goal[r] \in {"lock", "token"}

\* The UPDATE of a row of user_states.
Written(row, s, entity, columns) ==
    [c \in DOMAIN row |-> IF <<s, c>> \in columns THEN entity[c] ELSE row[c]]

LEMMA WrittenType ==
  ASSUME NEW s \in Req, NEW row \in StateRow, NEW entity \in StateRow \cup {None},
         NEW columns \in SUBSET Column,
         \A c \in StateColumn : <<s, c>> \in columns => entity # None
  PROVE  /\ Written(row, s, entity, columns) \in StateRow
         /\ Written(row, s, entity, columns).name = row.name
         /\ Written(row, s, entity, columns).expires =
              IF <<s, "expires">> \in columns THEN entity.expires ELSE row.expires
         /\ Written(row, s, entity, columns).resolved =
              IF <<s, "resolved">> \in columns THEN entity.resolved ELSE row.resolved
         /\ Written(row, s, entity, columns).token =
              IF <<s, "token">> \in columns THEN entity.token ELSE row.token
<1>1. /\ DOMAIN row = {"name", "expires", "resolved", "token"}
      /\ row.name \in {"lock", "limit"} /\ row.expires \in Req \cup {None}
      /\ row.resolved \in BOOLEAN /\ row.token \in Req \cup {None}
  BY DEF StateRow
<1>2. <<s, "name">> \notin columns
  BY NoneAssumption DEF Column, StateColumn, UserColumn
<1>3. \A c \in StateColumn : <<s, c>> \in columns =>
         /\ entity.expires \in Req \cup {None} /\ entity.resolved \in BOOLEAN
         /\ entity.token \in Req \cup {None}
  BY DEF StateRow
<1>4. Written(row, s, entity, columns) =
        [name |-> row.name,
         expires |-> IF <<s, "expires">> \in columns THEN entity.expires ELSE row.expires,
         resolved |-> IF <<s, "resolved">> \in columns THEN entity.resolved ELSE row.resolved,
         token |-> IF <<s, "token">> \in columns THEN entity.token ELSE row.token]
  BY <1>1, <1>2 DEF Written
<1>5. QED
  BY <1>1, <1>3, <1>4 DEF StateRow, StateColumn

LEMMA MemoryType ==
  ASSUME NEW m \in Memory
  PROVE  /\ m.user \in UserRow \cup {None} /\ m.related \in BOOLEAN
         /\ m.states \in [Req -> StateRow \cup {None}]
BY DEF Memory

LEMMA NothingType == Nothing \in Memory /\ \A s \in Req : Nothing.states[s] = None
BY DEF Nothing, NoStates, Memory

LEMMA InitShape == Init => Shape
BY NothingType DEF Init, Shape, TypeOK, Stored, NoStates, Nothing, UserRow, AuditLog, Phase,
   Goal, Saving

LEMMA ActiveType ==
  /\ OneOf(ActiveOf("lock")) \subseteq {None} \cup {s \in Req : IsLock(s)}
  /\ ActiveOf("limit") \subseteq {s \in Req : Stored(s) /\ state[s].name = "limit"}
BY DEF OneOf, ActiveOf, IsLock

\* A request that saves nothing, and changes nothing stored.
LEMMA QuietShape ==
  ASSUME Shape, NEW r \in Req, NEW phase \in Phase \ Saving,
         pc[r] \notin Saving,
         Stored(r) => phase \in Answered,
         Goto(r, phase), UNCHANGED <<user, state, passed, goal, dirty>>,
         audit' \in [Req -> AuditLog],
         mem' = mem \/ (\E m \in Memory :
             /\ Keep(r, m)
             /\ \A s \in Req : m.states[s] # None =>
                  Stored(s) /\ m.states[s].name = state[s].name)
  PROVE  Shape'
<1>1. mem' \in [Req -> Memory]
  BY DEF Shape, TypeOK, Keep
<1>2. /\ pc' = [pc EXCEPT ![r] = phase] /\ pc' \in [Req -> Phase]
      /\ TypeOK'
  BY <1>1 DEF Shape, TypeOK, Goto
<1>3. \A q, s \in Req : mem'[q].states[s] # None =>
         Stored(s) /\ mem'[q].states[s].name = state[s].name
  BY DEF Shape, TypeOK, Keep
<1>4. dirty[r] = {}
  BY DEF Shape, Saving
<1>5. \A q \in Req : q # r => mem'[q] = mem[q] /\ pc'[q] = pc[q]
  BY <1>2 DEF Shape, TypeOK, Keep
<1>6. pc'[r] = phase /\ goal[r] = "none"
  BY <1>2 DEF Shape, TypeOK
<1>7. \A q \in Req :
        /\ goal'[q] = "none" <=> pc'[q] \notin Saving
        /\ pc'[q] \notin {"saveWrite", "reject"} => dirty'[q] = {}
        /\ Stored(q)' => pc'[q] \in Answered \/ goal'[q] \in {"lock", "token"}
  BY <1>4, <1>5, <1>6 DEF Shape, Stored
<1>8. \A q \in Req :
        /\ \A c \in UserColumn : <<None, c>> \in dirty'[q] => mem'[q].user # None
        /\ \A s \in Req : \A c \in StateColumn :
              <<s, c>> \in dirty'[q] => mem'[q].states[s] # None
  BY <1>4, <1>5 DEF Shape
<1>9. QED
  BY <1>2, <1>3, <1>7, <1>8 DEF Shape, Stored

LEMMA AnswerShape ==
  ASSUME Shape, NEW r \in Req, NEW outcome \in Answered,
         pc[r] \in Working,
         Answer(r, outcome),
         user' \in UserRow, audit' \in [Req -> AuditLog], passed' \in SUBSET Req,
         state' \in [Req -> StateRow \cup {None}],
         \A s \in Req : /\ Stored(s) <=> state'[s] # None
                        /\ Stored(s) => state'[s].name = state[s].name
  PROVE  Shape'
<1> USE NothingType DEF Shape, TypeOK, Answer, Goto, Keep
<1>1. TypeOK'
  BY DEF Goal, Phase
<1>2. \A q \in Req : q # r => /\ pc'[q] = pc[q] /\ goal'[q] = goal[q]
                              /\ dirty'[q] = dirty[q] /\ mem'[q] = mem[q]
  OBVIOUS
<1>3. pc'[r] = outcome /\ goal'[r] = "none" /\ dirty'[r] = {} /\ mem'[r] = Nothing
  OBVIOUS
<1>4. outcome \notin Saving
  BY DEF Answered, Saving
<1>5. QED
  BY <1>1, <1>2, <1>3, <1>4 DEF Stored, Saving

\* A save begins, perhaps after the INSERT of the row of the request.
LEMMA SaveShape ==
  ASSUME Shape, NEW r \in Req, NEW m \in Memory,
         NEW g \in {"lock", "resolve", "token", "clear", "update"},
         pc[r] \notin Saving \cup Answered,
         Save(r, m, g), UNCHANGED <<user, passed, audit, dirty>>,
         state' \in [Req -> StateRow \cup {None}],
         \A s \in Req : s # r => state'[s] = state[s],
         Stored(r) => UNCHANGED state,
         Stored(r)' => g \in {"lock", "token"},
         \A s \in Req : m.states[s] # None =>
             Stored(s)' /\ m.states[s].name = state'[s].name
  PROVE  Shape'
<1> USE DEF Shape, TypeOK, Save, Goto, Keep
<1>1. TypeOK'
  BY DEF Goal, Phase, Working
<1>2. \A q \in Req : q # r => /\ pc'[q] = pc[q] /\ goal'[q] = goal[q]
                              /\ dirty'[q] = dirty[q] /\ mem'[q] = mem[q]
  OBVIOUS
<1>3. pc'[r] = "saveRead" /\ goal'[r] = g /\ dirty'[r] = {} /\ mem'[r] = m
  BY DEF Saving
<1>4. \A s \in Req : Stored(s) => Stored(s)' /\ state'[s] = state[s]
  BY DEF Stored
<1>5. QED
  BY <1>1, <1>2, <1>3, <1>4 DEF Stored, Saving

\* The lock of row s is to be saved with its end.
LEMMA SetLockShape ==
  ASSUME Shape, NEW r \in Req, NEW s \in Req, NEW row \in StateRow,
         pc[r] \in {"lockFind", "lockInsert"},
         SetLock(r, s, row), UNCHANGED <<user, passed, audit, dirty>>,
         row.name = "lock", state' = state \/ (s = r /\ state' = [state EXCEPT ![r] = row]),
         Stored(s)', state'[s].name = "lock"
  PROVE  /\ Shape'
         /\ \E m \in Memory : Save(r, m, "lock") /\ m.user = mem[r].user
<1> DEFINE new == [name |-> row.name, expires |-> r,
                   resolved |-> row.resolved, token |-> row.token]
           old == mem[r].states[s]
           m(x) == [user |-> mem[r].user, related |-> TRUE,
                    states |-> [mem[r].states EXCEPT ![s] = x]]
<1>1. PICK x \in {old, new} : Save(r, m(x), "lock")
  BY DEF SetLock
<1>2. mem[r] \in Memory
  BY DEF Shape, TypeOK
<1>3. new \in StateRow /\ new.name = "lock"
  BY DEF StateRow
<1>4. m(x) \in Memory
  BY <1>2, <1>3, MemoryType DEF Memory
<1>5. m(x).states = [mem[r].states EXCEPT ![s] = x] /\ m(x).user = mem[r].user
  OBVIOUS
<1>6. ~Stored(r)
  BY DEF Shape, Answered, Saving
<1>7. \A q \in Req : m(x).states[q] # None =>
         Stored(q)' /\ m(x).states[q].name = state'[q].name
  <2> SUFFICES ASSUME NEW q \in Req, m(x).states[q] # None
               PROVE  Stored(q)' /\ m(x).states[q].name = state'[q].name
    OBVIOUS
  <2>1. CASE q = s
    <3>1. m(x).states[s] = x
      BY <1>2, <1>5, MemoryType
    <3>2. CASE x = new
      BY <2>1, <3>1, <3>2, <1>3
    <3>3. CASE x = old
      BY <2>1, <3>1, <3>3, <1>6 DEF Shape, Stored
    <3>4. QED
      BY <3>2, <3>3
  <2>2. CASE q # s
    BY <2>2, <1>2, <1>5, <1>6, MemoryType DEF Shape, TypeOK, Stored
  <2>3. QED
    BY <2>1, <2>2
<1>8. /\ state' \in [Req -> StateRow \cup {None}]
      /\ \A q \in Req : q # r => state'[q] = state[q]
  BY DEF Shape, TypeOK
<1>9. Shape'
  <2> HIDE DEF m
  <2> QED BY <1>1, <1>4, <1>6, <1>7, <1>8, SaveShape DEF Saving, Answered
<1>10. QED
  BY <1>1, <1>4, <1>5, <1>9

\* States of the session limit found and resolved in memory.
Resolved(found, other) ==
    [s \in Req |-> IF s \in found
                   THEN [name |-> "limit", expires |-> state[s].expires,
                         resolved |-> TRUE, token |-> state[s].token]
                   ELSE other[s]]

LEMMA ResolvedType ==
  ASSUME Shape, NEW other \in [Req -> StateRow \cup {None}],
         \A s \in Req : other[s] # None => Stored(s) /\ other[s].name = state[s].name
  PROVE  LET res == Resolved(ActiveOf("limit"), other)
         IN /\ res \in [Req -> StateRow \cup {None}]
            /\ \A s \in Req : res[s] # None => Stored(s) /\ res[s].name = state[s].name
BY ActiveType DEF Resolved, Shape, TypeOK, Stored, StateRow

LEMMA ResolveFindShape ==
  ASSUME Shape, NEW r \in Req, ResolveFind(r)
  PROVE  Shape'
<1> DEFINE res == Resolved(ActiveOf("limit"), NoStates)
           m == [user |-> None, related |-> FALSE, states |-> res]
<1>1. /\ NoStates \in [Req -> StateRow \cup {None}]
      /\ \A s \in Req : NoStates[s] = None
  BY DEF NoStates
<1>2. /\ res \in [Req -> StateRow \cup {None}]
      /\ \A s \in Req : res[s] # None => Stored(s) /\ res[s].name = state[s].name
  BY <1>1, ResolvedType
<1>3. res = [s \in Req |->
               IF s \in ActiveOf("limit")
               THEN [name |-> "limit", expires |-> state[s].expires,
                     resolved |-> TRUE, token |-> state[s].token]
               ELSE None]
  BY DEF Resolved, NoStates
<1>4. pc[r] = "resolveFind" /\ UNCHANGED <<user, state, passed, audit, dirty>>
  BY DEF ResolveFind
<1>5. ~Stored(r)
  BY <1>4 DEF Shape, Answered, Saving
<1>6. CASE ActiveOf("limit") = {}
  <2>1. Goto(r, "limitInsert") /\ Keep(r, Nothing) /\ UNCHANGED goal
    BY <1>6 DEF ResolveFind
  <2>2. \E n \in Memory : /\ Keep(r, n)
                          /\ \A s \in Req : n.states[s] # None =>
                               Stored(s) /\ n.states[s].name = state[s].name
    BY <2>1, NothingType
  <2>3. "limitInsert" \in Phase \ Saving /\ pc[r] \notin Saving
    BY <1>4 DEF Phase, Working, Saving
  <2>4. audit' \in [Req -> AuditLog]
    BY <1>4 DEF Shape, TypeOK
  <2>5. QED
    BY <1>4, <1>5, <2>1, <2>2, <2>3, <2>4, QuietShape
<1>7. CASE ActiveOf("limit") # {}
  <2>1. Save(r, m, "resolve")
    BY <1>3, <1>7 DEF ResolveFind
  <2>2. m \in Memory /\ m.states = res
    BY <1>2 DEF Memory
  <2> HIDE DEF m
  <2>3. QED
    BY <1>2, <1>4, <1>5, <2>1, <2>2, SaveShape DEF Saving, Answered, Stored, Shape, TypeOK
<1>8. QED
  BY <1>6, <1>7

LEMMA ClearShape ==
  ASSUME Shape, NEW r \in Req, Clear(r)
  PROVE  Shape'
<1> DEFINE res == Resolved(ActiveOf("limit"), state)
           m == [user |-> user, related |-> TRUE, states |-> res]
<1>1. /\ res \in [Req -> StateRow \cup {None}]
      /\ \A s \in Req : res[s] # None => Stored(s) /\ res[s].name = state[s].name
  BY ResolvedType DEF Shape, TypeOK, Stored
<1>2. res = [s \in Req |->
               IF s \in ActiveOf("limit")
               THEN [name |-> "limit", expires |-> state[s].expires,
                     resolved |-> TRUE, token |-> state[s].token]
               ELSE state[s]]
  BY DEF Resolved
<1>3. pc[r] = "clear" /\ UNCHANGED <<user, state, passed, audit>>
  BY DEF Clear
<1>4. ~Stored(r)
  BY <1>3 DEF Shape, Answered, Saving
<1>5. CASE user.deleted
  BY <1>3, <1>5, AnswerShape DEF Clear, Shape, TypeOK, Working, Answered, Stored
<1>6. CASE ~user.deleted
  <2>1. Save(r, m, "clear") /\ UNCHANGED dirty
    BY <1>2, <1>6 DEF Clear
  <2>2. m \in Memory /\ m.states = res
    BY <1>1 DEF Memory, Shape, TypeOK
  <2> HIDE DEF m
  <2>3. QED
    BY <1>1, <1>3, <1>4, <2>1, <2>2, SaveShape DEF Saving, Answered, Stored, Shape, TypeOK
<1>7. QED
  BY <1>5, <1>6

\* The columns in which the entities of a request differ from their rows.
Differing(r, new) ==
    /\ \A c \in UserColumn : <<None, c>> \in new => mem[r].user # None
    /\ \A s \in Req : \A c \in StateColumn :
         <<s, c>> \in new => /\ mem[r].states[s] # None
                             /\ mem[r].states[s][c] # state[s][c]
    /\ \A s \in Req : \A c \in StateColumn :
         mem[r].states[s] # None /\ mem[r].states[s][c] # state[s][c] =>
             <<s, c>> \in new \/ (goal[r] = "token" /\ s = r /\ c = "resolved")

LEMMA SaveReadEffect ==
  ASSUME Shape, NEW r \in Req, SaveRead(r)
  PROVE  /\ pc[r] = "saveRead" /\ UNCHANGED <<user, state, passed, audit, goal, mem>>
         /\ \E phase \in {"saveWrite", "reject"} : pc' = [pc EXCEPT ![r] = phase]
         /\ \E new \in SUBSET Column :
              dirty' = [dirty EXCEPT ![r] = new] /\ Differing(r, new)
<1> DEFINE differs == UserDiffers(mem[r]) \cup StatesDiffer(mem[r])
           optional == IF goal[r] = "token" THEN {<<r, "resolved">>} ELSE {}
<1>1. PICK left \in SUBSET (differs \cap optional) :
         dirty' = [dirty EXCEPT ![r] = differs \ left]
  BY DEF SaveRead
<1>2. differs \subseteq Column
  BY DEF UserDiffers, StatesDiffer, Column
<1>3. /\ \A c \in UserColumn : <<None, c>> \in differs => mem[r].user # None
      /\ \A s \in Req : \A c \in StateColumn :
           <<s, c>> \in differs <=> mem[r].states[s] # None /\ mem[r].states[s][c] # state[s][c]
  BY NoneAssumption DEF UserDiffers, StatesDiffer
<1>4. \A s \in Req : \A c \in StateColumn :
         <<s, c>> \in left => goal[r] = "token" /\ s = r /\ c = "resolved"
  BY <1>1
<1> DEFINE new == differs \ left
<1>5. new \in SUBSET Column /\ dirty' = [dirty EXCEPT ![r] = new]
  BY <1>1, <1>2
<1>6. Differing(r, new)
  <2> HIDE DEF differs
  <2> QED BY <1>3, <1>4 DEF Differing
<1>7. \E phase \in {"saveWrite", "reject"} : pc' = [pc EXCEPT ![r] = phase]
  BY DEF SaveRead, Goto
<1>8. pc[r] = "saveRead" /\ UNCHANGED <<user, state, passed, audit, goal, mem>>
  BY DEF SaveRead
<1>9. QED
  <2> HIDE DEF new
  <2> QED BY <1>5, <1>6, <1>7, <1>8

LEMMA SaveReadShape ==
  ASSUME Shape, NEW r \in Req, SaveRead(r)
  PROVE  Shape'
<1>1. PICK new \in SUBSET Column :
         dirty' = [dirty EXCEPT ![r] = new] /\ Differing(r, new)
  BY SaveReadEffect
<1>2. PICK phase \in {"saveWrite", "reject"} : pc' = [pc EXCEPT ![r] = phase]
  BY SaveReadEffect
<1>3. pc[r] = "saveRead" /\ UNCHANGED <<user, state, passed, audit, goal, mem>>
  BY SaveReadEffect
<1>4. TypeOK'
  BY <1>1, <1>2, <1>3 DEF Shape, TypeOK, Phase, Working
<1>5. \A q \in Req : q # r => pc'[q] = pc[q] /\ dirty'[q] = dirty[q]
  BY <1>1, <1>2 DEF Shape, TypeOK
<1>6. pc'[r] = phase /\ dirty'[r] = new
  BY <1>1, <1>2 DEF Shape, TypeOK
<1>7. \A q \in Req :
        /\ goal'[q] = "none" <=> pc'[q] \notin Saving
        /\ pc'[q] \notin {"saveWrite", "reject"} => dirty'[q] = {}
        /\ Stored(q)' => pc'[q] \in Answered \/ goal'[q] \in {"lock", "token"}
        /\ \A s \in Req : mem'[q].states[s] # None =>
              Stored(s)' /\ mem'[q].states[s].name = state'[s].name
  BY <1>3, <1>5, <1>6 DEF Shape, Stored, Saving, Answered
<1>8. \A q \in Req :
        /\ \A c \in UserColumn : <<None, c>> \in dirty'[q] => mem'[q].user # None
        /\ \A s \in Req : \A c \in StateColumn :
              <<s, c>> \in dirty'[q] => mem'[q].states[s] # None
  BY <1>1, <1>3, <1>5, <1>6 DEF Shape, Differing
<1>9. QED
  BY <1>4, <1>7, <1>8 DEF Shape

\* The UPDATEs of a save.
LEMMA SaveWriteEffect ==
  ASSUME Shape, NEW r \in Req, SaveWrite(r)
  PROVE  /\ pc[r] = "saveWrite" /\ After(r) /\ UNCHANGED <<passed, audit>>
         /\ user' \in UserRow
         /\ mem[r].user = None => UNCHANGED user
         /\ state' \in [Req -> StateRow \cup {None}]
         /\ \A s \in Req : Stored(s)' <=> Stored(s)
         /\ \A s \in Req : Stored(s) =>
              /\ state'[s].name = state[s].name
              /\ state'[s].expires = IF <<s, "expires">> \in dirty[r]
                                     THEN mem[r].states[s].expires ELSE state[s].expires
              /\ state'[s].resolved = IF <<s, "resolved">> \in dirty[r]
                                      THEN mem[r].states[s].resolved ELSE state[s].resolved
              /\ state'[s].token = IF <<s, "token">> \in dirty[r]
                                   THEN mem[r].states[s].token ELSE state[s].token
<1>1. pc[r] = "saveWrite" /\ After(r) /\ UNCHANGED <<passed, audit>>
  BY DEF SaveWrite
<1>2. mem[r].user \in UserRow \cup {None} /\ mem[r].states \in [Req -> StateRow \cup {None}]
  BY MemoryType DEF Shape, TypeOK
<1>3. user' = [c \in UserColumn |->
                 IF <<None, c>> \in dirty[r] THEN mem[r].user[c] ELSE user[c]]
  BY DEF SaveWrite
<1>4. user = [password |-> user.password, deleted |-> user.deleted]
      /\ user.password \in Req \cup {None} /\ user.deleted \in BOOLEAN
  BY DEF Shape, TypeOK, UserRow
<1>5. user' = [password |-> IF <<None, "password">> \in dirty[r]
                            THEN mem[r].user.password ELSE user.password,
               deleted |-> IF <<None, "deleted">> \in dirty[r]
                           THEN mem[r].user.deleted ELSE user.deleted]
  BY <1>3 DEF UserColumn
<1>6. user' \in UserRow /\ (mem[r].user = None => UNCHANGED user)
  BY <1>2, <1>4, <1>5 DEF Shape, UserColumn, UserRow
<1>7. ASSUME NEW s \in Req, Stored(s)
      PROVE  /\ state'[s] \in StateRow
             /\ state'[s].name = state[s].name
             /\ state'[s].expires = IF <<s, "expires">> \in dirty[r]
                                    THEN mem[r].states[s].expires ELSE state[s].expires
             /\ state'[s].resolved = IF <<s, "resolved">> \in dirty[r]
                                     THEN mem[r].states[s].resolved ELSE state[s].resolved
             /\ state'[s].token = IF <<s, "token">> \in dirty[r]
                                  THEN mem[r].states[s].token ELSE state[s].token
  <2>1. state[s] \in StateRow /\ dirty[r] \in SUBSET Column
    BY <1>7 DEF Shape, TypeOK, Stored
  <2>2. state'[s] = Written(state[s], s, mem[r].states[s], dirty[r])
    BY <1>7 DEF SaveWrite, Written, Stored
  <2>3. \A c \in StateColumn : <<s, c>> \in dirty[r] => mem[r].states[s] # None
    BY DEF Shape
  <2> DEFINE entity == mem[r].states[s]
             row == state[s]
             columns == dirty[r]
  <2>4. entity \in StateRow \cup {None} /\ row \in StateRow /\ columns \in SUBSET Column
    BY <1>2, <2>1
  <2>7. \A c \in StateColumn : <<s, c>> \in columns => entity # None
    BY <2>3
  <2> HIDE DEF entity, row, columns
  <2>5. LET new == Written(row, s, entity, columns)
        IN /\ new \in StateRow /\ new.name = row.name
           /\ new.expires = IF <<s, "expires">> \in columns
                            THEN entity.expires ELSE row.expires
           /\ new.resolved = IF <<s, "resolved">> \in columns
                             THEN entity.resolved ELSE row.resolved
           /\ new.token = IF <<s, "token">> \in columns
                          THEN entity.token ELSE row.token
    BY <2>4, <2>7, WrittenType
  <2>6. QED
    BY <2>2, <2>5 DEF entity, row, columns
<1>8. \A s \in Req : ~Stored(s) => state'[s] = None
  BY DEF SaveWrite, Stored
<1>9. /\ state' \in [Req -> StateRow \cup {None}]
      /\ \A s \in Req : Stored(s)' <=> Stored(s)
  <2>1. DOMAIN state' = Req /\ state' = [s \in Req |-> state'[s]]
    BY DEF SaveWrite
  <2>2. QED
    BY <1>7, <1>8, <2>1, NoneAssumption DEF Stored
<1>10. QED
  BY <1>1, <1>6, <1>7, <1>9

LEMMA SaveWriteShape ==
  ASSUME Shape, NEW r \in Req, SaveWrite(r)
  PROVE  Shape'
<1>1. CASE goal[r] # "resolve"
  <2>1. PICK outcome \in {"limited", "refused", "done"} : Answer(r, outcome)
    BY <1>1, SaveWriteEffect DEF After
  <2>2. pc[r] \in Working /\ outcome \in Answered
    BY SaveWriteEffect DEF Working, Answered
  <2>3. audit' \in [Req -> AuditLog] /\ passed' \in SUBSET Req
    BY SaveWriteEffect DEF Shape, TypeOK
  <2>4. \A s \in Req : /\ Stored(s) <=> state'[s] # None
                       /\ Stored(s) => state'[s].name = state[s].name
    BY SaveWriteEffect DEF Stored
  <2>5. user' \in UserRow /\ state' \in [Req -> StateRow \cup {None}]
    BY SaveWriteEffect
  <2>6. QED
    BY <2>1, <2>2, <2>3, <2>4, <2>5, AnswerShape
<1>2. CASE goal[r] = "resolve"
  <2>1. /\ pc' = [pc EXCEPT ![r] = "limitInsert"] /\ mem' = [mem EXCEPT ![r] = Nothing]
        /\ goal' = [goal EXCEPT ![r] = "none"] /\ dirty' = [dirty EXCEPT ![r] = {}]
    BY <1>2, SaveWriteEffect DEF After, Goto, Keep
  <2>2. TypeOK'
    BY <2>1, SaveWriteEffect, NothingType DEF Shape, TypeOK, Goal, Phase, Working
  <2>3. \A q \in Req : q # r => /\ pc'[q] = pc[q] /\ goal'[q] = goal[q]
                                /\ dirty'[q] = dirty[q] /\ mem'[q] = mem[q]
    BY <2>1 DEF Shape, TypeOK
  <2>4. pc'[r] = "limitInsert" /\ goal'[r] = "none" /\ dirty'[r] = {} /\ mem'[r] = Nothing
    BY <2>1 DEF Shape, TypeOK
  <2>5. ~Stored(r) /\ ~Stored(r)'
    BY <1>2, SaveWriteEffect DEF Shape, Answered
  <2>6. \A s \in Req : Stored(s) => Stored(s)' /\ state'[s].name = state[s].name
    BY SaveWriteEffect
  <2>7. \A q \in Req : Stored(q)' => Stored(q)
    BY SaveWriteEffect
  <2>8. QED
    BY <2>2, <2>3, <2>4, <2>5, <2>6, <2>7, NothingType DEF Shape, Saving
<1>3. QED
  BY <1>1, <1>2

\* LockFind and LockInsert: a lock is found, is inserted, or will be.
LEMMA LockSteps ==
  ASSUME Shape, NEW r \in Req, LockFind(r) \/ LockInsert(r)
  PROVE  /\ Shape'
         /\ \/ pc' = [pc EXCEPT ![r] = "lockInsert"] /\ mem' = mem /\ UNCHANGED state
            \/ /\ \E m \in Memory : Save(r, m, "lock") /\ m.user = mem[r].user
               /\ \E s \in Req : IsLock(s)'
<1>1. CASE LockFind(r)
  <2>1. PICK s \in OneOf(ActiveOf("lock")) :
           IF s = None THEN Goto(r, "lockInsert") /\ UNCHANGED <<goal, mem>>
                       ELSE SetLock(r, s, state[s])
    BY <1>1 DEF LockFind
  <2>2. pc[r] = "lockFind" /\ UNCHANGED <<user, state, passed, audit, dirty>>
    BY <1>1 DEF LockFind
  <2>3. ~Stored(r)
    BY <2>2 DEF Shape, Answered, Saving
  <2>4. CASE s = None
    <3>1. Goto(r, "lockInsert") /\ UNCHANGED <<goal, mem>>
      BY <2>1, <2>4
    <3>2. "lockInsert" \in Phase \ Saving /\ pc[r] \notin Saving
      BY <2>2 DEF Phase, Working, Saving
    <3>3. audit' \in [Req -> AuditLog]
      BY <2>2 DEF Shape, TypeOK
    <3>4. Shape'
      BY <2>2, <2>3, <3>1, <3>2, <3>3, QuietShape
    <3>5. QED
      BY <2>2, <3>1, <3>4 DEF Goto
  <2>5. CASE s # None
    <3>1. SetLock(r, s, state[s])
      BY <2>1, <2>5
    <3>2. s \in Req /\ IsLock(s) /\ state[s] \in StateRow
      BY <2>5, ActiveType DEF IsLock, Stored, Shape, TypeOK
    <3>3. Stored(s)' /\ state'[s].name = "lock" /\ state[s].name = "lock"
      BY <2>2, <3>2 DEF IsLock, Stored
    <3>4. QED
      BY <2>2, <3>1, <3>2, <3>3, SetLockShape DEF IsLock
  <2>6. QED
    BY <2>4, <2>5
<1>2. CASE LockInsert(r)
  <2> DEFINE row == [name |-> "lock", expires |-> None, resolved |-> FALSE,
                     token |-> None]
  <2>1. /\ pc[r] = "lockInsert" /\ state' = [state EXCEPT ![r] = row]
        /\ SetLock(r, r, row) /\ UNCHANGED <<user, passed, audit, dirty>>
    BY <1>2 DEF LockInsert
  <2>2. row \in StateRow /\ row.name = "lock"
    BY DEF StateRow
  <2> HIDE DEF row
  <2>3. Stored(r)' /\ state'[r].name = "lock"
    BY <2>1, <2>2, NoneAssumption DEF Stored, Shape, TypeOK
  <2>4. QED
    BY <2>1, <2>2, <2>3, SetLockShape DEF IsLock
<1>3. QED
  BY <1>1, <1>2

LEMMA NextShape == Shape /\ [Next]_vars => Shape'
<1> SUFFICES ASSUME Shape, [Next]_vars PROVE Shape'
  OBVIOUS
<1>1. CASE UNCHANGED vars
  BY <1>1 DEF vars, Shape, TypeOK, Stored
<1> SUFFICES ASSUME NEW r \in Req, Request(r) \/ Step(r) \/ Fail(r) \/ Pass(r) \/ Age(r)
             PROVE  Shape'
  BY <1>1 DEF Next
<1>a. UserWithStates \in Memory /\ UserWithStates.states = state
  BY DEF UserWithStates, Memory, Shape, TypeOK
<1>b. pc[r] = "idle" => ~Stored(r)
  BY DEF Shape, Answered, Saving
<1>2. CASE Load(r)
  <2>1. \E m \in Memory : /\ Keep(r, m)
                          /\ \A s \in Req : m.states[s] # None =>
                               Stored(s) /\ m.states[s].name = state[s].name
    BY <1>2, <1>a DEF Load, Stored
  <2>2. QED
    BY <1>2, <1>b, <2>1, QuietShape DEF Load, Arrive, Phase, Working, Saving, Shape, TypeOK
<1>3. CASE DeleteSessions(r)
  BY <1>3, <1>b, QuietShape DEF DeleteSessions, Arrive, Phase, Working, Saving, Shape, TypeOK
<1>4. CASE UpdateUser(r)
  <2> DEFINE m == [user |-> [password |-> r, deleted |-> FALSE],
                   related |-> FALSE, states |-> NoStates]
  <2>1. m \in Memory /\ \A s \in Req : m.states[s] = None
    BY DEF Memory, UserRow, NoStates
  <2>2. pc[r] = "idle" /\ Save(r, m, "update") /\ UNCHANGED <<user, state, passed, audit, dirty>>
    BY <1>4 DEF UpdateUser, Arrive
  <2> HIDE DEF m
  <2>3. QED
    BY <1>b, <2>1, <2>2, SaveShape DEF Saving, Answered, Shape, TypeOK, Stored
<1>5. CASE DeleteUser(r)
  BY <1>5, <1>b, QuietShape DEF DeleteUser, Arrive, Phase, Working, Saving, Shape, TypeOK
<1>6. ASSUME NEW t \in Req, DeleteWithTempToken(r, t)
      PROVE  Shape'
  BY <1>6, <1>b, QuietShape DEF DeleteWithTempToken, Arrive, Phase, Working, Saving,
     Shape, TypeOK
<1>7. CASE Verified(r)
  <2>1. CASE Answer(r, "granted") \/ Answer(r, "done")
    BY <1>7, <2>1, AnswerShape DEF Verified, Working, Answered, Shape, TypeOK, Stored
  <2>2. CASE Goto(r, "resolveFind") /\ UNCHANGED <<goal, mem, dirty>>
    BY <1>7, <2>2, QuietShape DEF Verified, Phase, Working, Saving, Answered, Shape, TypeOK
  <2>3. QED
    BY <1>7, <2>1, <2>2 DEF Verified
<1>8. CASE Locked(r)
  BY <1>8, AnswerShape DEF Locked, Working, Answered, Shape, TypeOK, Stored
<1>9. CASE Mismatch(r)
  BY <1>9, QuietShape DEF Mismatch, Phase, Working, Saving, Answered, Shape, TypeOK
<1>10. CASE Record(r)
  <2>1. audit' \in [Req -> AuditLog]
    BY <1>10 DEF Record, Shape, TypeOK, AuditLog
  <2>2. QED
    BY <1>10, <2>1, QuietShape DEF Record, Phase, Working, Saving, Answered, Shape
<1>11. CASE Count(r)
  <2>1. CASE Answer(r, "refused")
    BY <1>11, <2>1, AnswerShape DEF Count, Working, Answered, Shape, TypeOK, Stored
  <2>2. CASE Goto(r, "lockFind") /\ UNCHANGED <<goal, mem, dirty>>
    BY <1>11, <2>2, QuietShape DEF Count, Phase, Working, Saving, Answered, Shape, TypeOK
  <2>3. QED
    BY <1>11, <2>1, <2>2 DEF Count
<1>12. CASE LockFind(r) \/ LockInsert(r)
  BY <1>12, LockSteps
<1>13. CASE ResolveFind(r)
  BY <1>13, ResolveFindShape
<1>14. CASE LimitInsert(r)
  <2> DEFINE row == [name |-> "limit", expires |-> None, resolved |-> FALSE,
                     token |-> None]
             signed == [name |-> "limit", expires |-> r, resolved |-> FALSE,
                        token |-> r]
             m == [user |-> None, related |-> FALSE,
                   states |-> [NoStates EXCEPT ![r] = signed]]
  <2>1. /\ pc[r] = "limitInsert" /\ state' = [state EXCEPT ![r] = row]
        /\ Save(r, m, "token") /\ UNCHANGED <<user, passed, audit, dirty>>
    BY <1>14 DEF LimitInsert
  <2>2. row \in StateRow /\ signed \in StateRow /\ row.name = "limit" /\ signed.name = "limit"
    BY DEF StateRow
  <2> HIDE DEF row, signed
  <2>3. /\ m \in Memory /\ m.states[r] = signed
        /\ \A s \in Req : s # r => m.states[s] = None
    BY <2>2 DEF Memory, NoStates
  <2>4. ~Stored(r)
    BY <2>1 DEF Shape, Answered, Saving
  <2>5. /\ state' \in [Req -> StateRow \cup {None}] /\ state'[r] = row
        /\ \A s \in Req : s # r => state'[s] = state[s]
    BY <2>1, <2>2 DEF Shape, TypeOK
  <2>6. \A s \in Req : m.states[s] # None =>
             Stored(s)' /\ m.states[s].name = state'[s].name
    BY <2>2, <2>3, <2>5, NoneAssumption DEF Stored
  <2> HIDE DEF m
  <2>7. QED
    BY <2>1, <2>3, <2>4, <2>5, <2>6, SaveShape DEF Saving, Answered
<1>15. CASE TempUser(r)
  <2>1. CASE Answer(r, "refused")
    BY <1>15, <2>1, AnswerShape DEF TempUser, Working, Answered, Shape, TypeOK, Stored
  <2>2. CASE Goto(r, "clear") /\ UNCHANGED <<goal, mem, dirty>>
    BY <1>15, <2>2, QuietShape DEF TempUser, Phase, Working, Saving, Answered, Shape, TypeOK
  <2>3. QED
    BY <1>15, <2>1, <2>2 DEF TempUser
<1>16. CASE NothingDeleted(r)
  BY <1>16, AnswerShape DEF NothingDeleted, Working, Answered, Shape, TypeOK, Stored
<1>17. CASE Clear(r)
  BY <1>17, ClearShape
<1>18. CASE Delete(r)
  <2>1. user' \in UserRow
    BY <1>18 DEF Delete, Shape, TypeOK, UserRow
  <2>2. QED
    BY <1>18, <2>1, AnswerShape DEF Delete, Working, Answered, Shape, TypeOK, Stored
<1>19. CASE SaveRead(r)
  BY <1>19, SaveReadShape
<1>20. CASE SaveWrite(r)
  BY <1>20, SaveWriteShape
<1>21. CASE Reject(r)
  BY <1>21, AnswerShape DEF Reject, Working, Answered, Shape, TypeOK, Stored
<1>22. CASE Fail(r)
  BY <1>22, AnswerShape DEF Fail, InFlight, Answered, Shape, TypeOK, Stored
<1>23. CASE Pass(r)
  BY <1>23 DEF Pass, Shape, TypeOK, Stored
<1>24. CASE Age(r)
  BY <1>24 DEF Age, Shape, TypeOK, Stored, AuditLog
<1>25. QED
  BY <1>2, <1>3, <1>4, <1>5, <1>6, <1>7, <1>8, <1>9, <1>10, <1>11, <1>12, <1>13,
     <1>14, <1>15, <1>16, <1>17, <1>18, <1>19, <1>20, <1>21, <1>22, <1>23, <1>24
     DEF Request, Step

\* In every state, a request is done or about to save once its row is there,
\* and it has in memory only entities of stored rows.
THEOREM ShapeInvariant == Spec => []Shape
BY InitShape, NextShape, PTL DEF Spec

\* Every variable keeps its type, whatever the order of the requests' steps.
THEOREM TypeCorrect == Spec => []TypeOK
BY ShapeInvariant, PTL DEF Shape

-----------------------------------------------------------------------------
(* The lock and the failed logins. *)

SomeLock == \E s \in Req : IsLock(s)

Counted == {r \in Req : audit[r] # "none"}

Locking == {"count", "lockFind", "lockInsert"}

Enough == Cardinality(Recent) >= MaxFailedLogins

\* Only three actions write to user_states.
LEMMA StateStep ==
  ASSUME Shape, [Next]_vars
  PROVE  UNCHANGED state \/ \E r \in Req : LockInsert(r) \/ LimitInsert(r) \/ SaveWrite(r)
<1>1. CASE UNCHANGED vars
  BY <1>1 DEF vars
<1> SUFFICES ASSUME NEW r \in Req, Request(r) \/ Step(r) \/ Fail(r) \/ Pass(r) \/ Age(r)
             PROVE  UNCHANGED state \/ LockInsert(r) \/ LimitInsert(r) \/ SaveWrite(r)
  BY <1>1 DEF Next
<1>2. CASE Request(r)
  BY <1>2 DEF Request, Load, DeleteSessions, UpdateUser, DeleteUser, DeleteWithTempToken
<1>3. CASE Step(r)
  BY <1>3 DEF Step, Verified, Locked, Mismatch, Record, Count, LockFind, ResolveFind,
     TempUser, NothingDeleted, Clear, Delete, SaveRead, Reject
<1>4. CASE Fail(r) \/ Pass(r) \/ Age(r)
  BY <1>4 DEF Fail, Pass, Age
<1>5. QED
  BY <1>2, <1>3, <1>4

\* A row of user_states is never removed and keeps its name; a new lock comes
\* from LockInsert.
LEMMA RowStep ==
  ASSUME Shape, [Next]_vars
  PROVE  /\ \A s \in Req : Stored(s) => Stored(s)' /\ state'[s].name = state[s].name
         /\ \A s \in Req : IsLock(s) => IsLock(s)'
         /\ \A s \in Req : IsLock(s)' => IsLock(s) \/ pc[s] = "lockInsert"
<1>1. CASE UNCHANGED state
  BY <1>1 DEF Stored, IsLock
<1>2. ASSUME NEW r \in Req, LockInsert(r)
      PROVE  /\ \A s \in Req : Stored(s) => Stored(s)' /\ state'[s].name = state[s].name
             /\ \A s \in Req : IsLock(s)' => IsLock(s) \/ pc[s] = "lockInsert"
  <2>1. pc[r] = "lockInsert" /\ ~Stored(r)
    BY <1>2 DEF LockInsert, Shape, Answered, Saving
  <2>2. \A s \in Req : s # r => state'[s] = state[s]
    BY <1>2 DEF LockInsert, Shape, TypeOK
  <2>3. QED
    BY <2>1, <2>2 DEF Stored, IsLock
<1>3. ASSUME NEW r \in Req, LimitInsert(r)
      PROVE  /\ \A s \in Req : Stored(s) => Stored(s)' /\ state'[s].name = state[s].name
             /\ \A s \in Req : IsLock(s)' => IsLock(s)
  <2>1. ~Stored(r)
    BY <1>3 DEF LimitInsert, Shape, Answered, Saving
  <2>2. \A s \in Req : s # r => state'[s] = state[s]
    BY <1>3 DEF LimitInsert, Shape, TypeOK
  <2>3. state'[r].name = "limit"
    BY <1>3 DEF LimitInsert, Shape, TypeOK
  <2>4. QED
    BY <2>1, <2>2, <2>3 DEF Stored, IsLock
<1>4. ASSUME NEW r \in Req, SaveWrite(r)
      PROVE  /\ \A s \in Req : Stored(s) => Stored(s)' /\ state'[s].name = state[s].name
             /\ \A s \in Req : IsLock(s)' => IsLock(s)
  BY <1>4, SaveWriteEffect DEF IsLock
<1>5. /\ \A s \in Req : Stored(s) => Stored(s)' /\ state'[s].name = state[s].name
      /\ \A s \in Req : IsLock(s)' => IsLock(s) \/ pc[s] = "lockInsert"
  BY <1>1, <1>2, <1>3, <1>4, StateStep
<1>6. QED
  BY <1>5 DEF IsLock

\* Requests reach the lock only with enough failed logins, and then stop only
\* where there is a lock, or by failing.
LockingStep ==
    /\ \A q \in Req : pc'[q] \in {"lockFind", "lockInsert"} =>
         pc[q] \in {"lockFind", "lockInsert"} \/ Enough
    /\ \A q \in Req : pc[q] \in Locking /\ Enough =>
         pc'[q] \in Locking \cup {"failed"} \/ SomeLock'
    /\ \A q \in Req : pc[q] = "failed" => pc'[q] = "failed"

LEMMA QuietLocking ==
  ASSUME Shape, NEW r \in Req, NEW phase \in Phase \ {"lockFind", "lockInsert"},
         pc[r] \notin Locking \cup {"failed"} \/ phase = "failed",
         pc[r] # "failed",
         pc' = [pc EXCEPT ![r] = phase]
  PROVE  LockingStep
BY DEF LockingStep, Locking, Shape, TypeOK

LEMMA NextLocking ==
  ASSUME Shape, [Next]_vars
  PROVE  LockingStep
<1>1. CASE UNCHANGED vars
  BY <1>1 DEF vars, LockingStep, Locking
<1> SUFFICES ASSUME NEW r \in Req, Request(r) \/ Step(r) \/ Fail(r) \/ Pass(r) \/ Age(r)
             PROVE  LockingStep
  BY <1>1 DEF Next
<1>2. CASE Request(r)
  <2>1. pc[r] = "idle" /\ \E phase \in {"verify", "clear", "saveRead", "delete", "tempUser"} :
           pc' = [pc EXCEPT ![r] = phase]
    BY <1>2 DEF Request, Load, DeleteSessions, UpdateUser, DeleteUser, DeleteWithTempToken,
       Arrive, Goto, Save
  <2>2. QED
    BY <2>1, QuietLocking DEF Phase, Working, Locking
<1>3. CASE Verified(r) \/ Locked(r) \/ Mismatch(r) \/ ResolveFind(r)
        \/ LimitInsert(r) \/ TempUser(r) \/ NothingDeleted(r) \/ Clear(r) \/ Delete(r)
        \/ Reject(r)
  <2>1. /\ pc[r] \in {"verify", "resolveFind", "limitInsert", "tempUser", "clear",
                      "delete", "reject"}
        /\ \E phase \in Answered \cup {"resolveFind", "record", "limitInsert",
                                       "saveRead", "clear"} :
              pc' = [pc EXCEPT ![r] = phase]
    BY <1>3 DEF Verified, Locked, Mismatch, ResolveFind, LimitInsert, TempUser,
       NothingDeleted, Clear, Delete, Reject, Goto, Save, Answer, Answered
  <2>2. QED
    BY <2>1, QuietLocking DEF Phase, Working, Answered, Locking
<1>4. CASE Record(r)
  BY <1>4, QuietLocking DEF Record, Goto, Phase, Working, Locking
<1>5. CASE Count(r)
  <2>1. CASE Enough
    BY <1>5, <2>1 DEF Count, Enough, Goto, LockingStep, Locking, Shape, TypeOK
  <2>2. CASE ~Enough
    BY <1>5, <2>2 DEF Count, Enough, Answer, Goto, LockingStep, Locking, Shape, TypeOK
  <2>3. QED
    BY <2>1, <2>2
<1>6. CASE LockFind(r) \/ LockInsert(r)
  <2>1. pc[r] \in {"lockFind", "lockInsert"}
    BY <1>6 DEF LockFind, LockInsert
  <2>2. \/ pc' = [pc EXCEPT ![r] = "lockInsert"]
        \/ pc' = [pc EXCEPT ![r] = "saveRead"] /\ SomeLock'
    BY <1>6, LockSteps DEF Save, Goto, SomeLock
  <2>3. QED
    BY <2>1, <2>2 DEF LockingStep, Locking, Shape, TypeOK
<1>7. CASE SaveRead(r)
  <2>1. PICK phase \in {"saveWrite", "reject"} : pc' = [pc EXCEPT ![r] = phase]
    BY <1>7, SaveReadEffect
  <2>2. QED
    BY <1>7, <2>1, SaveReadEffect, QuietLocking DEF Phase, Working, Locking
<1>8. CASE SaveWrite(r)
  <2>1. pc[r] = "saveWrite" /\ \E phase \in Answered \cup {"limitInsert"} :
           pc' = [pc EXCEPT ![r] = phase]
    BY <1>8 DEF SaveWrite, After, Answer, Goto, Answered
  <2>2. QED
    BY <2>1, QuietLocking DEF Phase, Working, Answered, Locking
<1>9. CASE Fail(r)
  BY <1>9, QuietLocking DEF Fail, InFlight, Answer, Goto, Phase, Working, Answered
<1>10. CASE Pass(r) \/ Age(r)
  BY <1>10 DEF Pass, Age, LockingStep, Locking
<1>11. QED
  BY <1>2, <1>3, <1>4, <1>5, <1>6, <1>7, <1>8, <1>9, <1>10 DEF Step

\* The audit log only grows, by the failed login of a request that goes on to
\* count them; the failed logins only age.
LEMMA AuditStep ==
  ASSUME Shape, [Next]_vars
  PROVE  /\ Counted \subseteq Counted'
         /\ Counted' = Counted \/ \E r \in Req : Counted' = Counted \cup {r}
         /\ Recent' \subseteq Recent \/ \E r \in Req : pc'[r] = "count"
<1>1. CASE UNCHANGED audit
  BY <1>1 DEF Counted, Recent
<1>2. ASSUME NEW r \in Req, Record(r)
      PROVE  Counted' \in {Counted, Counted \cup {r}} /\ pc'[r] = "count"
  BY <1>2 DEF Record, Goto, Counted, Shape, TypeOK
<1>3. ASSUME NEW r \in Req, Age(r)
      PROVE  Counted' = Counted /\ Recent' \subseteq Recent
  BY <1>3 DEF Age, Counted, Recent, Shape, TypeOK
<1>4. UNCHANGED audit \/ \E r \in Req : Record(r) \/ Age(r)
  <2>1. CASE UNCHANGED vars
    BY <2>1 DEF vars
  <2> SUFFICES ASSUME NEW r \in Req, Request(r) \/ Step(r) \/ Fail(r) \/ Pass(r) \/ Age(r)
               PROVE  UNCHANGED audit \/ Record(r) \/ Age(r)
    BY <2>1 DEF Next
  <2>2. CASE Request(r)
    BY <2>2 DEF Request, Load, DeleteSessions, UpdateUser, DeleteUser, DeleteWithTempToken
  <2>3. CASE Step(r)
    BY <2>3 DEF Step, Verified, Locked, Mismatch, Count, LockFind, LockInsert, ResolveFind,
       LimitInsert, TempUser, NothingDeleted, Clear, Delete, SaveRead, SaveWrite, Reject
  <2>4. CASE Fail(r) \/ Pass(r) \/ Age(r)
    BY <2>4 DEF Fail, Pass
  <2>5. QED
    BY <2>2, <2>3, <2>4
<1>5. QED
  BY <1>1, <1>2, <1>3, <1>4

\* There is a lock, or a request about to set one, only after enough failures.
FailuresInv ==
    /\ IsFiniteSet(Counted)
    /\ SomeLock \/ (\E r \in Req : pc[r] \in {"lockFind", "lockInsert"}) =>
         Cardinality(Counted) >= MaxFailedLogins

LEMMA InitFailures == Init => FailuresInv
<1> SUFFICES ASSUME Init PROVE FailuresInv
  OBVIOUS
<1>1. Counted = {}
  BY DEF Init, Counted
<1>2. QED
  BY <1>1, FS_EmptySet DEF Init, FailuresInv, SomeLock, IsLock, Stored, NoStates

LEMMA NextFailures == Shape /\ FailuresInv /\ [Next]_vars => FailuresInv'
<1> SUFFICES ASSUME Shape, FailuresInv, [Next]_vars PROVE FailuresInv'
  OBVIOUS
<1>1. IsFiniteSet(Counted')
  BY AuditStep, FS_AddElement DEF FailuresInv
<1>2. Cardinality(Counted) \in Nat /\ Cardinality(Counted') \in Nat
      /\ Cardinality(Counted) <= Cardinality(Counted')
  BY <1>1, AuditStep, FS_Subset, FS_CardinalityType DEF FailuresInv
<1>3. Enough => Cardinality(Counted) >= MaxFailedLogins
  <2>1. Recent \subseteq Counted
    BY DEF Recent, Counted
  <2>2. Cardinality(Recent) \in Nat /\ Cardinality(Recent) <= Cardinality(Counted)
    BY <2>1, FS_Subset, FS_CardinalityType DEF FailuresInv
  <2>3. QED
    BY <1>2, <2>2, BoundAssumption DEF Enough
<1>4. ASSUME SomeLock' \/ \E r \in Req : pc'[r] \in {"lockFind", "lockInsert"}
      PROVE  Cardinality(Counted) >= MaxFailedLogins
  <2>1. CASE SomeLock'
    BY <2>1, RowStep DEF SomeLock, FailuresInv
  <2>2. CASE \E r \in Req : pc'[r] \in {"lockFind", "lockInsert"}
    BY <1>3, <2>2, NextLocking DEF LockingStep, FailuresInv
  <2>3. QED
    BY <1>4, <2>1, <2>2
<1>5. QED
  BY <1>1, <1>2, <1>4, BoundAssumption DEF FailuresInv

\* In every interleaving of failed logins, of any number, a lock is preceded by
\* MaxFailedLogins of them.
THEOREM NeedsFailures == Spec => []LockNeedsFailures
<1>1. FailuresInv => LockNeedsFailures
  BY DEF FailuresInv, LockNeedsFailures, SomeLock, Counted
<1>2. QED
  BY <1>1, InitFailures, NextFailures, ShapeInvariant, PTL DEF Spec

\* With enough recent failures there is a lock, or a request on its way to one,
\* unless one failed.
LockComes ==
    Enough => \/ SomeLock
              \/ \E r \in Req : pc[r] \in Locking \cup {"failed"}

LEMMA NextLockComes ==
  Shape /\ FailuresInv /\ LockComes /\ [Next]_vars => LockComes'
<1> SUFFICES ASSUME Shape, FailuresInv, LockComes, [Next]_vars, Enough'
             PROVE  SomeLock' \/ \E r \in Req : pc'[r] \in Locking \cup {"failed"}
  BY DEF LockComes
<1>1. CASE \E r \in Req : pc'[r] = "count"
  BY <1>1 DEF Locking
<1>2. CASE Recent' \subseteq Recent
  <2>1. IsFiniteSet(Recent)
    BY FS_Subset DEF FailuresInv, Recent, Counted
  <2>2. Cardinality(Recent') <= Cardinality(Recent) /\ Cardinality(Recent) \in Nat
        /\ Cardinality(Recent') \in Nat
    BY <1>2, <2>1, FS_Subset, FS_CardinalityType
  <2>3. Enough
    BY <2>2, BoundAssumption DEF Enough
  <2>4. CASE SomeLock
    BY <2>4, RowStep DEF SomeLock
  <2>5. CASE \E r \in Req : pc[r] \in Locking \cup {"failed"}
    BY <2>3, <2>5, NextLocking DEF LockingStep
  <2>6. QED
    BY <2>3, <2>4, <2>5 DEF LockComes
<1>3. QED
  BY <1>1, <1>2, AuditStep

\* MaxFailedLogins failed logins within the period lock the account, however
\* they interleave and whatever the database rejects, if no request fails.
THEOREM FailuresAlwaysLock == Spec => []FailuresLock
<1>1. Init => LockComes
  <2> SUFFICES ASSUME Init PROVE ~Enough
    BY DEF LockComes
  <2>1. Recent = {}
    BY DEF Init, Recent
  <2>2. QED
    BY <2>1, FS_EmptySet, BoundAssumption DEF Enough
<1>2. LockComes => FailuresLock
  BY DEF LockComes, FailuresLock, Enough, SomeLock, Locking, Working
<1>3. QED
  BY <1>1, <1>2, InitFailures, NextFailures, NextLockComes, ShapeInvariant, PTL DEF Spec

-----------------------------------------------------------------------------
(* The deletion of the account. *)

\* A request keeps its entity of the user or gives it up.
LEMMA SettledStep ==
  ASSUME Shape, Settled, NEW r \in Req, UNCHANGED user,
         \/ mem' = mem
         \/ \E m \in Memory : mem' = [mem EXCEPT ![r] = m] /\ m.user = None
  PROVE  Settled'
BY DEF Settled, Shape, TypeOK

LEMMA NextSettled == Shape /\ [Next]_vars => (Settled => Settled')
<1> SUFFICES ASSUME Shape, Settled, [Next]_vars PROVE Settled'
  OBVIOUS
<1> USE DEF Settled
<1>1. CASE UNCHANGED vars
  BY <1>1 DEF vars
<1> SUFFICES ASSUME NEW r \in Req, Request(r) \/ Step(r) \/ Fail(r) \/ Pass(r) \/ Age(r)
             PROVE  Settled'
  BY <1>1 DEF Next
<1>a. Nothing \in Memory /\ Nothing.user = None
  BY NothingType DEF Nothing
<1>2. CASE Request(r)
  <2>1. UNCHANGED <<user, mem>>
    BY <1>2 DEF Request, Load, DeleteSessions, UpdateUser, DeleteUser, DeleteWithTempToken
  <2>2. QED
    BY <2>1
<1>3. CASE Verified(r) \/ Locked(r) \/ Mismatch(r) \/ Record(r) \/ Count(r)
        \/ TempUser(r) \/ NothingDeleted(r) \/ Clear(r) \/ Reject(r) \/ Fail(r)
  <2>1. UNCHANGED user /\ (mem' = mem \/ mem' = [mem EXCEPT ![r] = Nothing])
    BY <1>3 DEF Verified, Locked, Mismatch, Record, Count, TempUser, NothingDeleted, Clear,
       Reject, Fail, Answer, Keep, Goto
  <2>2. QED
    BY <1>a, <2>1, SettledStep
<1>4. CASE LockFind(r) \/ LockInsert(r)
  <2>1. UNCHANGED user
    BY <1>4 DEF LockFind, LockInsert
  <2>2. mem' = mem \/ \E m \in Memory : mem' = [mem EXCEPT ![r] = m] /\ m.user = None
    BY <1>4, LockSteps DEF Save, Keep
  <2>3. QED
    BY <2>1, <2>2, SettledStep
<1>5. CASE ResolveFind(r)
  <2> DEFINE res == Resolved(ActiveOf("limit"), NoStates)
             m == [user |-> None, related |-> FALSE, states |-> res]
  <2>1. res \in [Req -> StateRow \cup {None}] /\ NoStates \in [Req -> StateRow \cup {None}]
    BY ResolvedType DEF NoStates
  <2>2. res = [s \in Req |->
                 IF s \in ActiveOf("limit")
                 THEN [name |-> "limit", expires |-> state[s].expires,
                       resolved |-> TRUE, token |-> state[s].token]
                 ELSE None]
    BY DEF Resolved, NoStates
  <2>3. m \in Memory /\ m.user = None
    BY <2>1 DEF Memory
  <2>4. UNCHANGED user /\ (Keep(r, Nothing) \/ Keep(r, m))
    BY <1>5, <2>2 DEF ResolveFind, Save
  <2> HIDE DEF m
  <2>5. QED
    BY <1>a, <2>3, <2>4, SettledStep DEF Keep
<1>6. CASE LimitInsert(r)
  <2> DEFINE signed == [name |-> "limit", expires |-> r, resolved |-> FALSE,
                        token |-> r]
             m == [user |-> None, related |-> FALSE,
                   states |-> [NoStates EXCEPT ![r] = signed]]
  <2>1. UNCHANGED user /\ Keep(r, m)
    BY <1>6 DEF LimitInsert, Save
  <2>2. m \in Memory /\ m.user = None
    BY DEF Memory, NoStates, StateRow
  <2> HIDE DEF m
  <2>3. QED
    BY <2>1, <2>2, SettledStep DEF Keep
<1>7. CASE Delete(r)
  <2>1. [user EXCEPT !.deleted = TRUE] = user
    <3>1. user = [password |-> user.password, deleted |-> TRUE]
      BY DEF Shape, TypeOK, UserRow
    <3>2. QED
      BY <3>1
  <2>2. UNCHANGED user /\ mem' = [mem EXCEPT ![r] = Nothing]
    BY <1>7, <2>1 DEF Delete, Answer, Keep
  <2>3. QED
    BY <1>a, <2>2, SettledStep
<1>8. CASE SaveRead(r)
  BY <1>8, SaveReadEffect, SettledStep
<1>9. CASE SaveWrite(r)
  <2>1. UNCHANGED user /\ mem' = [mem EXCEPT ![r] = Nothing]
    BY <1>9, SaveWriteEffect DEF After, Answer, Keep
  <2>2. QED
    BY <1>a, <2>1, SettledStep
<1>10. CASE Pass(r) \/ Age(r)
  BY <1>10 DEF Pass, Age
<1>11. QED
  BY <1>2, <1>3, <1>4, <1>5, <1>6, <1>7, <1>8, <1>9, <1>10 DEF Step

\* A deleted account that no earlier request still has in memory stays deleted.
THEOREM DeletionFinal == Spec => DeletionSettles
<1>1. Shape /\ [Next]_vars => [Settled => Settled']_vars
  BY NextSettled
<1>2. QED
  BY <1>1, ShapeInvariant, PTL DEF Spec, DeletionSettles

-----------------------------------------------------------------------------
(* Temporary tokens. *)

\* A step of r, or of time, leaves what other requests have in memory alone.
Others(r) ==
    \A q \in Req \ {r} : /\ pc'[q] = pc[q] /\ goal'[q] = goal[q]
                         /\ mem'[q] = mem[q] /\ dirty'[q] = dirty[q]

LEMMA OthersStay ==
  ASSUME Shape, NEW r \in Req, Request(r) \/ Step(r) \/ Fail(r) \/ Pass(r) \/ Age(r)
  PROVE  Others(r)
<1> USE DEF Others, Shape, TypeOK, Goto, Keep, Save, Answer
<1>1. CASE Request(r)
  BY <1>1 DEF Request, Load, DeleteSessions, UpdateUser, DeleteUser, DeleteWithTempToken
<1>2. CASE Verified(r) \/ Locked(r) \/ Mismatch(r) \/ Record(r) \/ Count(r)
        \/ TempUser(r) \/ NothingDeleted(r) \/ Delete(r) \/ Reject(r) \/ Fail(r)
  BY <1>2 DEF Verified, Locked, Mismatch, Record, Count, TempUser, NothingDeleted, Delete,
     Reject, Fail
<1>3. CASE LockFind(r)
  <2>1. UNCHANGED dirty /\ \E s \in OneOf(ActiveOf("lock")) :
          \/ Goto(r, "lockInsert") /\ UNCHANGED <<goal, mem>>
          \/ SetLock(r, s, state[s])
    BY <1>3 DEF LockFind
  <2>2. QED
    BY <2>1 DEF SetLock
<1>4. CASE LockInsert(r)
  BY <1>4 DEF LockInsert, SetLock
<1>5. CASE ResolveFind(r) \/ LimitInsert(r) \/ Clear(r)
  BY <1>5 DEF ResolveFind, LimitInsert, Clear
<1>6. CASE SaveRead(r)
  BY <1>6, SaveReadEffect
<1>7. CASE SaveWrite(r)
  BY <1>7 DEF SaveWrite, After
<1>8. CASE Pass(r) \/ Age(r)
  BY <1>8 DEF Pass, Age
<1>9. QED
  BY <1>1, <1>2, <1>3, <1>4, <1>5, <1>6, <1>7, <1>8 DEF Step

FewInFlight == IsFiniteSet(InFlight) /\ Cardinality(InFlight) <= MaxConcurrent

LEMMA InitFewInFlight == Init => FewInFlight
<1> SUFFICES ASSUME Init PROVE FewInFlight
  OBVIOUS
<1>1. InFlight = {}
  BY DEF Init, InFlight, Working
<1>2. QED
  BY <1>1, FS_EmptySet, BoundAssumption DEF FewInFlight

LEMMA NextFewInFlight == Shape /\ FewInFlight /\ [Next]_vars => FewInFlight'
<1> SUFFICES ASSUME Shape, FewInFlight, [Next]_vars PROVE FewInFlight'
  OBVIOUS
<1>1. CASE InFlight' \subseteq InFlight
  BY <1>1, FS_Subset, FS_CardinalityType, BoundAssumption DEF FewInFlight
<1>2. CASE UNCHANGED vars
  BY <1>1, <1>2 DEF vars, InFlight
<1> SUFFICES ASSUME NEW r \in Req, Request(r) \/ Step(r) \/ Fail(r) \/ Pass(r) \/ Age(r)
             PROVE  FewInFlight'
  BY <1>2 DEF Next
<1>3. CASE Request(r)
  <2>1. Arrive(r)
    BY <1>3 DEF Request, Load, DeleteSessions, UpdateUser, DeleteUser, DeleteWithTempToken
  <2>2. InFlight' \subseteq InFlight \cup {r}
    BY <1>3, OthersStay DEF Others, InFlight
  <2>3. /\ IsFiniteSet(InFlight \cup {r})
        /\ Cardinality(InFlight \cup {r}) <= Cardinality(InFlight) + 1
    <3>1. IsFiniteSet(InFlight) /\ Cardinality(InFlight) \in Nat
      BY FS_CardinalityType DEF FewInFlight
    <3> DEFINE n == Cardinality(InFlight)
    <3>2. IsFiniteSet(InFlight \cup {r})
          /\ (Cardinality(InFlight \cup {r}) = n \/ Cardinality(InFlight \cup {r}) = n + 1)
      BY <3>1, FS_AddElement
    <3>3. QED
      BY <3>1, <3>2
  <2>4. IsFiniteSet(InFlight') /\ Cardinality(InFlight') <= Cardinality(InFlight \cup {r})
    BY <2>2, <2>3, FS_Subset
  <2>5. QED
    BY <2>1, <2>3, <2>4, FS_CardinalityType, BoundAssumption DEF FewInFlight, Arrive
<1>4. CASE Step(r) \/ Fail(r)
  <2>1. pc[r] \in Working
    BY <1>4 DEF Step, Fail, InFlight, Verified, Locked, Mismatch, Record, Count, LockFind,
       LockInsert, ResolveFind, LimitInsert, TempUser, NothingDeleted, Clear, Delete,
       SaveRead, SaveWrite, Reject, Working
  <2>2. QED
    BY <1>1, <1>4, <2>1, OthersStay DEF Others, InFlight
<1>5. CASE Pass(r) \/ Age(r)
  BY <1>1, <1>5 DEF Pass, Age, InFlight
<1>6. QED
  BY <1>3, <1>4, <1>5

IsLimit(s) == Stored(s) /\ state[s].name = "limit"

\* The token of a state and its end come from the request that made it, and are
\* stored together.
Pair(s, row) == row.token = row.expires /\ row.token \in {s, None}

\* What entity e of row s may be in a request r that saves for the purpose g.
Fits(g, r, s, e) ==
    /\ g # "update"
    /\ g = "resolve" => IsLimit(s) /\ e.resolved
    /\ g = "token" => s = r
    /\ IsLimit(s) => Pair(s, e) /\ (g = "clear" => e.resolved \/ s \in passed)

TokenShape ==
    /\ \A s \in Req : IsLimit(s) => Pair(s, state[s])
    /\ \A r \in Req : /\ goal[r] = "lock" => SomeLock
                      /\ goal[r] = "resolve" => ~mem[r].related
    /\ \A r, s \in Req : mem[r].states[s] # None =>
         /\ Fits(goal[r], r, s, mem[r].states[s])
         /\ IsLimit(s) => (<<s, "token">> \in dirty[r] <=> <<s, "expires">> \in dirty[r])

\* What is left to show of a step of r that keeps the rows' tokens and ends.
LEMMA TokenShapeStep ==
  ASSUME Shape, Shape', TokenShape, [Next]_vars, NEW r \in Req, Others(r),
         \A s \in Req : IsLimit(s)' => Pair(s, state'[s]),
         passed \subseteq passed',
         goal'[r] = "lock" => SomeLock',
         goal'[r] = "resolve" => ~mem'[r].related,
         \A s \in Req : mem'[r].states[s] # None =>
           /\ Fits(goal[r], r, s, mem[r].states[s])'
           /\ IsLimit(s)' =>
                (<<s, "token">> \in dirty'[r] <=> <<s, "expires">> \in dirty'[r])
  PROVE  TokenShape'
<1>1. SomeLock => SomeLock'
  BY RowStep DEF SomeLock
<1>2. \A s \in Req : Stored(s) => Stored(s)' /\ (IsLimit(s)' <=> IsLimit(s))
  BY RowStep DEF IsLimit
<1>3. \A q \in Req : /\ goal'[q] = "lock" => SomeLock'
                     /\ goal'[q] = "resolve" => ~mem'[q].related
  BY <1>1 DEF Others, TokenShape
<1>4. ASSUME NEW q \in Req \ {r}, NEW s \in Req, mem'[q].states[s] # None
      PROVE  /\ Fits(goal[q], q, s, mem[q].states[s])'
             /\ IsLimit(s)' =>
                  (<<s, "token">> \in dirty'[q] <=> <<s, "expires">> \in dirty'[q])
  <2>1. mem'[q] = mem[q] /\ goal'[q] = goal[q] /\ dirty'[q] = dirty[q]
    BY DEF Others
  <2>2. Stored(s)
    BY <1>4, <2>1 DEF Shape
  <2>3. IsLimit(s)' <=> IsLimit(s)
    BY <1>2, <2>2
  <2>4. QED
    BY <1>4, <2>1, <2>3 DEF TokenShape, Fits, Pair
<1>5. QED
  BY <1>3, <1>4 DEF TokenShape

\* A step after which r saves nothing.
LEMMA TokenShapeQuiet ==
  ASSUME Shape, Shape', TokenShape, [Next]_vars, NEW r \in Req, Others(r),
         UNCHANGED <<state, passed>>, goal'[r] = "none",
         \/ mem'[r] = mem[r] \/ mem'[r].states = state
         \/ \A s \in Req : mem'[r].states[s] = None
  PROVE  TokenShape'
<1>1. \A s \in Req : IsLimit(s)' => IsLimit(s) /\ Pair(s, state'[s])
  BY DEF TokenShape, IsLimit, Stored
<1>2. dirty'[r] = {}
  BY DEF Shape, Saving
<1>3. ASSUME NEW s \in Req, mem'[r].states[s] # None
      PROVE  Fits(goal[r], r, s, mem[r].states[s])'
  <2>1. IsLimit(s)' => Pair(s, mem'[r].states[s])
    BY <1>1, <1>3 DEF TokenShape, Fits
  <2>2. QED
    BY <2>1 DEF Fits, Pair
<1>4. QED
  BY <1>1, <1>2, <1>3, TokenShapeStep

\* The lock of LockFind and LockInsert: r's other entities stay.
LEMMA LockEffect ==
  ASSUME Shape, NEW r \in Req, LockFind(r) \/ LockInsert(r)
  PROVE  /\ UNCHANGED <<user, passed, audit, dirty>>
         /\ \A s \in Req : IsLimit(s)' => IsLimit(s) /\ state'[s] = state[s]
         /\ \/ UNCHANGED <<goal, mem>> /\ pc' = [pc EXCEPT ![r] = "lockInsert"]
            \/ /\ goal'[r] = "lock"
               /\ \E s \in Req :
                    /\ IsLock(s)'
                    /\ \A t \in Req \ {s} : mem'[r].states[t] = mem[r].states[t]
                    /\ \/ mem'[r].states[s] = mem[r].states[s]
                       \/ /\ mem'[r].states[s].expires = r
                          /\ mem'[r].states[s].resolved => Stored(s) /\ state[s].resolved
<1>1. ASSUME NEW s \in Req, NEW row, SetLock(r, s, row)
      PROVE  /\ goal'[r] = "lock"
             /\ \A t \in Req \ {s} : mem'[r].states[t] = mem[r].states[t]
             /\ \/ mem'[r].states[s] = mem[r].states[s]
                \/ /\ mem'[r].states[s].expires = r
                   /\ mem'[r].states[s].resolved = row.resolved
  <2> DEFINE new == [name |-> row.name, expires |-> r,
                     resolved |-> row.resolved, token |-> row.token]
  <2>1. PICK x \in {new, mem[r].states[s]} : Save(r, [user |-> mem[r].user, related |-> TRUE,
                          states |-> [mem[r].states EXCEPT ![s] = x]], "lock")
    BY <1>1 DEF SetLock
  <2>2. goal'[r] = "lock" /\ mem'[r].states = [mem[r].states EXCEPT ![s] = x]
    BY <2>1 DEF Save, Keep, Shape, TypeOK
  <2>3. mem[r].states \in [Req -> StateRow \cup {None}]
    BY MemoryType DEF Shape, TypeOK
  <2>4. new.expires = r /\ new.resolved = row.resolved
    OBVIOUS
  <2> HIDE DEF new
  <2>5. QED
    BY <2>1, <2>2, <2>3, <2>4
<1>2. CASE LockFind(r)
  <2>1. PICK s \in OneOf(ActiveOf("lock")) :
           IF s = None THEN Goto(r, "lockInsert") /\ UNCHANGED <<goal, mem>>
                       ELSE SetLock(r, s, state[s])
    BY <1>2 DEF LockFind
  <2>2. UNCHANGED <<user, state, passed, audit, dirty>>
    BY <1>2 DEF LockFind
  <2>3. CASE s = None
    BY <2>1, <2>2, <2>3 DEF IsLimit, Stored, Goto
  <2>4. CASE s # None
    <3>1. s \in Req /\ IsLock(s)' /\ Stored(s) /\ SetLock(r, s, state[s])
      BY <2>1, <2>2, <2>4, ActiveType DEF IsLock, Stored
    <3>2. /\ goal'[r] = "lock"
          /\ \A t \in Req \ {s} : mem'[r].states[t] = mem[r].states[t]
          /\ \/ mem'[r].states[s] = mem[r].states[s]
             \/ /\ mem'[r].states[s].expires = r
                /\ mem'[r].states[s].resolved = state[s].resolved
      BY <1>1, <3>1
    <3>3. QED
      BY <2>2, <3>1, <3>2 DEF IsLimit, Stored
  <2>5. QED
    BY <2>3, <2>4
<1>3. CASE LockInsert(r)
  <2> DEFINE row == [name |-> "lock", expires |-> None, resolved |-> FALSE,
                     token |-> None]
  <2>1. /\ state' = [state EXCEPT ![r] = row] /\ SetLock(r, r, row)
        /\ UNCHANGED <<user, passed, audit, dirty>>
    BY <1>3 DEF LockInsert
  <2>2. row.name = "lock" /\ row \in StateRow /\ ~row.resolved
    BY DEF StateRow
  <2> HIDE DEF row
  <2>3. state'[r] = row /\ \A s \in Req \ {r} : state'[s] = state[s]
    BY <2>1 DEF Shape, TypeOK
  <2>4. IsLock(r)' /\ \A s \in Req : IsLimit(s)' => s # r
    BY <2>2, <2>3, NoneAssumption DEF IsLock, IsLimit, Stored
  <2>5. \A s \in Req : IsLimit(s)' => IsLimit(s) /\ state'[s] = state[s]
    BY <2>3, <2>4 DEF IsLimit, Stored
  <2>6. QED
    BY <1>1, <2>1, <2>2, <2>4, <2>5
<1>4. QED
  BY <1>2, <1>3

LEMMA NextTokenShape ==
  ASSUME Shape, Shape', TokenShape, [Next]_vars
  PROVE  TokenShape'
<1>1. CASE UNCHANGED vars
  BY <1>1 DEF vars, TokenShape, Fits, Pair, IsLimit, Stored, SomeLock, IsLock
<1> SUFFICES ASSUME NEW r \in Req, Request(r) \/ Step(r) \/ Fail(r) \/ Pass(r) \/ Age(r)
             PROVE  TokenShape'
  BY <1>1 DEF Next
<1>a. Others(r)
  BY OthersStay
<1>b. UNCHANGED state => \A s \in Req : IsLimit(s)' => IsLimit(s) /\ Pair(s, state'[s])
  BY DEF TokenShape, IsLimit, Stored
<1>c. /\ mem \in [Req -> Memory] /\ goal \in [Req -> Goal] /\ pc \in [Req -> Phase]
      /\ dirty \in [Req -> SUBSET Column]
  BY DEF Shape, TypeOK
<1>2. CASE Load(r) \/ DeleteSessions(r) \/ DeleteUser(r)
        \/ \E t \in Req : DeleteWithTempToken(r, t)
  <2>1. UNCHANGED <<state, passed, goal>> /\ pc[r] = "idle"
        /\ (mem'[r] = mem[r] \/ mem'[r].states = state)
    BY <1>2, <1>c DEF Load, DeleteSessions, DeleteUser, DeleteWithTempToken, Arrive, Keep,
       UserWithStates
  <2>2. goal'[r] = "none"
    BY <2>1 DEF Shape, Saving
  <2>3. QED
    BY <1>a, <2>1, <2>2, TokenShapeQuiet
<1>3. CASE UpdateUser(r)
  <2>1. /\ UNCHANGED <<state, passed>> /\ goal'[r] = "update"
        /\ \A s \in Req : mem'[r].states[s] = None
    BY <1>3, <1>c DEF UpdateUser, Save, Keep, NoStates
  <2>2. QED
    BY <1>a, <1>b, <2>1, TokenShapeStep
<1>4. CASE Verified(r) \/ Locked(r) \/ Mismatch(r) \/ Record(r) \/ Count(r)
        \/ TempUser(r) \/ NothingDeleted(r) \/ Delete(r) \/ Reject(r) \/ Fail(r)
  <2>1. UNCHANGED <<state, passed>>
    BY <1>4 DEF Verified, Locked, Mismatch, Record, Count, TempUser, NothingDeleted, Delete,
       Reject, Fail
  <2>2. \/ mem' = mem /\ goal' = goal /\ pc[r] \notin Saving
        \/ mem'[r] = Nothing /\ goal'[r] = "none"
    BY <1>4, <1>c DEF Verified, Locked, Mismatch, Record, Count, TempUser, NothingDeleted,
       Delete, Reject, Fail, Answer, Keep, Saving
  <2>3. goal'[r] = "none"
    BY <2>2 DEF Shape
  <2>4. QED
    BY <1>a, <2>1, <2>2, <2>3, TokenShapeQuiet, NothingType
<1>5. CASE LockFind(r) \/ LockInsert(r)
  <2>1. goal[r] = "none" /\ dirty[r] = {}
    BY <1>5 DEF LockFind, LockInsert, Shape, Saving
  <2>2. \A s \in Req : IsLimit(s)' => Pair(s, state'[s])
    BY <1>5, LockEffect DEF TokenShape
  <2>3. \A s \in Req : IsLimit(s)' /\ mem[r].states[s] # None => Pair(s, mem[r].states[s])
    BY <1>5, LockEffect DEF TokenShape, Fits
  <2>4. CASE UNCHANGED <<goal, mem>>
    <3>1. \A s \in Req : mem'[r].states[s] # None => Fits(goal[r], r, s, mem[r].states[s])'
      BY <2>1, <2>3, <2>4 DEF Fits, Pair
    <3>2. QED
      BY <1>5, <1>a, <2>1, <2>2, <2>4, <3>1, LockEffect, TokenShapeStep
  <2>5. ASSUME goal'[r] = "lock", NEW t \in Req, IsLock(t)',
               \A s \in Req \ {t} : mem'[r].states[s] = mem[r].states[s]
        PROVE  TokenShape'
    <3>1. ~IsLimit(t)' /\ SomeLock'
      BY <2>5 DEF IsLock, IsLimit, SomeLock
    <3>2. \A s \in Req : mem'[r].states[s] # None => Fits(goal[r], r, s, mem[r].states[s])'
      BY <2>3, <2>5, <3>1 DEF Fits, Pair
    <3>3. dirty'[r] = {}
      BY <1>5, <2>1, LockEffect
    <3>4. QED
      BY <1>5, <1>a, <2>2, <2>5, <3>1, <3>2, <3>3, LockEffect, TokenShapeStep
  <2>6. QED
    BY <1>5, <2>4, <2>5, LockEffect
<1>6. CASE ResolveFind(r)
  <2>1. pc[r] = "resolveFind" /\ UNCHANGED <<user, state, passed, audit, dirty>>
    BY <1>6 DEF ResolveFind
  <2>2. goal[r] = "none" /\ dirty[r] = {}
    BY <2>1 DEF Shape, Saving
  <2>3. CASE ActiveOf("limit") = {}
    <3>1. goal'[r] = "none" /\ mem'[r] = Nothing
      BY <1>6, <1>c, <2>2, <2>3 DEF ResolveFind, Keep
    <3>2. QED
      BY <1>a, <2>1, <3>1, TokenShapeQuiet, NothingType
  <2>4. CASE ActiveOf("limit") # {}
    <3> DEFINE res == Resolved(ActiveOf("limit"), NoStates)
    <3>1. goal'[r] = "resolve" /\ mem'[r].related = FALSE /\ mem'[r].states = res
      <4>1. res = [s \in Req |->
                     IF s \in ActiveOf("limit")
                     THEN [name |-> "limit", expires |-> state[s].expires,
                           resolved |-> TRUE, token |-> state[s].token]
                     ELSE None]
        BY DEF Resolved, NoStates
      <4>2. Save(r, [user |-> None, related |-> FALSE, states |-> res], "resolve")
        BY <1>6, <2>4, <4>1 DEF ResolveFind
      <4> HIDE DEF res
      <4>3. QED
        BY <1>c, <4>2 DEF Save, Keep
    <3>2. ASSUME NEW s \in Req, res[s] # None
          PROVE  IsLimit(s)' /\ res[s].resolved /\ Pair(s, res[s])
      <4>1. s \in ActiveOf("limit") /\ res[s].resolved
            /\ res[s].token = state[s].token /\ res[s].expires = state[s].expires
        BY <3>2 DEF Resolved, NoStates
      <4>2. IsLimit(s) /\ Pair(s, state[s])
        BY <4>1 DEF ActiveOf, IsLimit, TokenShape
      <4>3. QED
        BY <2>1, <4>1, <4>2 DEF IsLimit, Stored, Pair
    <3> HIDE DEF res
    <3>3. \A s \in Req : mem'[r].states[s] # None => Fits(goal[r], r, s, mem[r].states[s])'
      BY <3>1, <3>2 DEF Fits, Pair
    <3>4. QED
      BY <1>a, <1>b, <2>1, <2>2, <3>1, <3>3, TokenShapeStep
  <2>5. QED
    BY <2>3, <2>4
<1>7. CASE LimitInsert(r)
  <2> DEFINE row == [name |-> "limit", expires |-> None, resolved |-> FALSE,
                     token |-> None]
             signed == [name |-> "limit", expires |-> r, resolved |-> FALSE,
                        token |-> r]
  <2>1. /\ pc[r] = "limitInsert" /\ state' = [state EXCEPT ![r] = row]
        /\ goal'[r] = "token" /\ mem'[r].states = [NoStates EXCEPT ![r] = signed]
        /\ UNCHANGED <<user, passed, audit, dirty>>
    BY <1>7, <1>c DEF LimitInsert, Save, Keep
  <2>2. Pair(r, row) /\ Pair(r, signed)
    BY DEF Pair
  <2> HIDE DEF row, signed
  <2>3. state'[r] = row /\ \A s \in Req \ {r} : state'[s] = state[s]
    BY <2>1 DEF Shape, TypeOK
  <2>4. mem'[r].states[r] = signed /\ \A s \in Req \ {r} : mem'[r].states[s] = None
    BY <2>1 DEF NoStates
  <2>5. dirty'[r] = {}
    BY <2>1 DEF Shape
  <2>6. \A s \in Req : IsLimit(s)' => Pair(s, state'[s])
    BY <2>2, <2>3 DEF TokenShape, IsLimit, Stored
  <2>7. \A s \in Req : mem'[r].states[s] # None => Fits(goal[r], r, s, mem[r].states[s])'
    BY <2>1, <2>2, <2>4 DEF Fits, Pair
  <2>8. QED
    BY <1>a, <2>1, <2>5, <2>6, <2>7, TokenShapeStep
<1>8. CASE Clear(r)
  <2>1. pc[r] = "clear" /\ UNCHANGED <<state, passed>> /\ dirty[r] = {}
    BY <1>8 DEF Clear, Shape
  <2>2. CASE user.deleted
    <3>1. goal'[r] = "none" /\ mem'[r] = Nothing
      BY <1>8, <1>c, <2>2 DEF Clear, Answer, Keep
    <3>2. QED
      BY <1>a, <2>1, <3>1, TokenShapeQuiet, NothingType
  <2>3. CASE ~user.deleted
    <3> DEFINE res == Resolved(ActiveOf("limit"), state)
    <3>1. goal'[r] = "clear" /\ mem'[r].states = res /\ UNCHANGED dirty
      BY <1>8, <1>c, <2>3 DEF Clear, Save, Keep, Resolved
    <3>2. ASSUME NEW s \in Req, IsLimit(s)
          PROVE  Pair(s, res[s]) /\ (res[s].resolved \/ s \in passed)
      <4>1. Pair(s, state[s])
        BY <3>2 DEF TokenShape
      <4>2. CASE s \in ActiveOf("limit")
        BY <4>1, <4>2 DEF Resolved, Pair
      <4>3. CASE s \notin ActiveOf("limit")
        <5>1. res[s] = state[s] /\ ~IsActive(state[s])
          BY <3>2, <4>3 DEF Resolved, ActiveOf, IsLimit
        <5>2. QED
          BY <4>1, <5>1 DEF IsActive, Pair
      <4>4. QED
        BY <4>2, <4>3
    <3> HIDE DEF res
    <3>3. \A s \in Req : mem'[r].states[s] # None => Fits(goal[r], r, s, mem[r].states[s])'
      BY <2>1, <3>1, <3>2 DEF Fits, Pair, IsLimit, Stored
    <3>4. QED
      BY <1>a, <1>b, <2>1, <3>1, <3>3, TokenShapeStep
  <2>4. QED
    BY <2>2, <2>3
<1>9. CASE SaveRead(r)
  <2>1. UNCHANGED <<user, state, passed, audit, goal, mem>>
    BY <1>9, SaveReadEffect
  <2>2. PICK new \in SUBSET Column :
           dirty' = [dirty EXCEPT ![r] = new] /\ Differing(r, new)
    BY <1>9, SaveReadEffect
  <2>3. ASSUME NEW s \in Req, mem[r].states[s] # None, IsLimit(s)
        PROVE  <<s, "token">> \in new <=> <<s, "expires">> \in new
    <3>1. Pair(s, state[s]) /\ Pair(s, mem[r].states[s])
      BY <2>3 DEF TokenShape, Fits
    <3>2. \A c \in {"token", "expires"} :
             <<s, c>> \in new <=> mem[r].states[s][c] # state[s][c]
      BY <2>2, <2>3 DEF Differing, StateColumn
    <3>3. QED
      BY <3>1, <3>2 DEF Pair
  <2>4. \A s \in Req : mem'[r].states[s] # None =>
           /\ Fits(goal[r], r, s, mem[r].states[s])'
           /\ IsLimit(s)' =>
                (<<s, "token">> \in dirty'[r] <=> <<s, "expires">> \in dirty'[r])
    BY <1>c, <2>1, <2>2, <2>3 DEF TokenShape, Fits, Pair, IsLimit, Stored
  <2>5. goal'[r] = "lock" => SomeLock'
    BY <2>1, RowStep DEF TokenShape, SomeLock
  <2>6. goal'[r] = "resolve" => ~mem'[r].related
    BY <2>1 DEF TokenShape
  <2>7. QED
    BY <1>a, <1>b, <2>1, <2>4, <2>5, <2>6, TokenShapeStep
<1>10. CASE SaveWrite(r)
  <2>1. UNCHANGED passed /\ goal'[r] = "none" /\ mem'[r] = Nothing
    BY <1>10, <1>c, SaveWriteEffect DEF After, Answer, Keep
  <2>2. ASSUME NEW s \in Req, IsLimit(s)'
        PROVE  Pair(s, state'[s])
    <3>1. IsLimit(s)
      BY <1>10, <2>2, SaveWriteEffect DEF IsLimit
    <3>2. Pair(s, state[s])
      BY <3>1 DEF TokenShape
    <3>3. CASE <<s, "token">> \in dirty[r] \/ <<s, "expires">> \in dirty[r]
      <4>1. mem[r].states[s] # None
        BY <3>3 DEF Shape, StateColumn
      <4>2. /\ <<s, "token">> \in dirty[r] /\ <<s, "expires">> \in dirty[r]
            /\ Pair(s, mem[r].states[s])
        BY <3>1, <3>3, <4>1 DEF TokenShape, Fits
      <4>3. QED
        BY <1>10, <3>1, <4>2, SaveWriteEffect DEF Pair, IsLimit
    <3>4. CASE ~(<<s, "token">> \in dirty[r] \/ <<s, "expires">> \in dirty[r])
      BY <1>10, <3>1, <3>2, <3>4, SaveWriteEffect DEF Pair, IsLimit
    <3>5. QED
      BY <3>3, <3>4
  <2>3. QED
    BY <1>a, <2>1, <2>2, NothingType, TokenShapeStep
<1>11. CASE Pass(r) \/ Age(r)
  <2>1. UNCHANGED <<state, goal, mem, dirty>> /\ passed \subseteq passed'
    BY <1>11 DEF Pass, Age
  <2>2. \A s \in Req : mem'[r].states[s] # None =>
           /\ Fits(goal[r], r, s, mem[r].states[s])'
           /\ IsLimit(s)' =>
                (<<s, "token">> \in dirty'[r] <=> <<s, "expires">> \in dirty'[r])
    BY <2>1 DEF TokenShape, Fits, Pair, IsLimit, Stored
  <2>3. goal'[r] = "lock" => SomeLock'
    BY <2>1, RowStep DEF TokenShape, SomeLock
  <2>4. goal'[r] = "resolve" => ~mem'[r].related
    BY <2>1 DEF TokenShape
  <2>5. QED
    BY <1>a, <1>b, <2>1, <2>2, <2>3, <2>4, TokenShapeStep
<1>12. QED
  BY <1>2, <1>3, <1>4, <1>5, <1>6, <1>7, <1>8, <1>9, <1>10, <1>11 DEF Request, Step

Pending == {r \in Req : goal[r] = "resolve" \/ pc[r] = "limitInsert"}

Signing == {r \in Req : goal[r] = "token"}

\* The states that the save of r is going to resolve.
Covered(r) ==
    {s \in Req : /\ goal[r] = "resolve"
                 /\ \/ pc[r] = "saveRead" /\ mem[r].states[s] # None
                    \/ pc[r] = "saveWrite" /\ <<s, "resolved">> \in dirty[r]}

Valid == {s \in Req : IsLimit(s) /\ ~state[s].resolved /\ s \notin passed}

Few(S) == IsFiniteSet(S) /\ Cardinality(S) <= MaxConcurrent

\* The states that will be valid if the requests of Q go on to insert theirs, and
\* those that are not to be resolved by one of them.
Outlook(Q) ==
    Signing \cup Q \cup (Valid \ UNION {Covered(r) : r \in Q})

Bounded == SomeLock \/ \A Q \in SUBSET Pending : Few(Outlook(Q))

LEMMA FewSubset ==
  ASSUME NEW S, NEW T, Few(S), T \subseteq S
  PROVE  Few(T)
BY FS_Subset, FS_CardinalityType, BoundAssumption DEF Few

\* A step of r that begins no save of a state, and makes none valid that was not
\* about to be signed.
LEMMA BoundedStep ==
  ASSUME Shape, [Next]_vars, Bounded, NEW r \in Req, Others(r),
         Valid' \subseteq Valid \cup Signing,
         r \in Signing' => r \in Signing,
         r \in Pending' => r \in Pending /\ Covered(r) \cap Valid' \subseteq Covered(r)'
  PROVE  Bounded'
<1>1. CASE SomeLock
  BY <1>1, RowStep DEF SomeLock, Bounded
<1>2. CASE ~SomeLock
  <2>1. ASSUME NEW q \in Req, q # r
        PROVE  /\ q \in Signing' => q \in Signing
               /\ q \in Pending' => q \in Pending
               /\ Covered(q)' = Covered(q)
    BY <2>1 DEF Others, Signing, Pending, Covered
  <2>2. Signing' \subseteq Signing /\ Pending' \subseteq Pending
    BY <2>1 DEF Signing, Pending
  <2>3. \A q \in Pending' : Covered(q) \cap Valid' \subseteq Covered(q)'
    BY <2>1 DEF Pending
  <2>4. ASSUME NEW Q \in SUBSET Pending'
        PROVE  Few(Outlook(Q))'
    <3>1. Q \in SUBSET Pending
      BY <2>2
    <3>2. Outlook(Q)' \subseteq Outlook(Q)
      BY <2>2, <2>3 DEF Outlook
    <3>3. Few(Outlook(Q))
      BY <1>2, <3>1 DEF Bounded
    <3>4. QED
      BY <3>2, <3>3, FewSubset DEF Few
  <2>5. QED
    BY <2>4 DEF Bounded
<1>3. QED
  BY <1>1, <1>2

\* A step after which r saves no state.
LEMMA BoundedQuiet ==
  ASSUME Shape, [Next]_vars, Bounded, NEW r \in Req, Others(r),
         UNCHANGED <<state, passed>>,
         goal'[r] \notin {"resolve", "token"}, pc'[r] # "limitInsert"
  PROVE  Bounded'
<1>1. Valid' = Valid
  BY DEF Valid, IsLimit, Stored
<1>2. QED
  BY <1>1, BoundedStep DEF Signing, Pending

\* The INSERT of a state: r counted already.
LEMMA BoundedInsert ==
  ASSUME Shape, [Next]_vars, Bounded, NEW r \in Req, Others(r), LimitInsert(r)
  PROVE  Bounded'
<1>1. CASE SomeLock
  BY <1>1, RowStep DEF SomeLock, Bounded
<1>2. CASE ~SomeLock
  <2>1. /\ pc[r] = "limitInsert" /\ goal'[r] = "token" /\ pc'[r] = "saveRead"
        /\ UNCHANGED passed /\ \A s \in Req \ {r} : state'[s] = state[s]
    BY DEF LimitInsert, Save, Goto, Shape, TypeOK
  <2>2. r \in Pending /\ r \notin Pending' /\ Covered(r) = {}
    BY <2>1 DEF Pending, Covered, Shape, Saving
  <2>3. ASSUME NEW q \in Req, q # r
        PROVE  /\ q \in Signing' => q \in Signing
               /\ q \in Pending' => q \in Pending
               /\ Covered(q)' = Covered(q)
    BY <2>3 DEF Others, Signing, Pending, Covered
  <2>4. Signing' \subseteq Signing \cup {r} /\ Pending' \subseteq Pending \ {r}
    BY <2>2, <2>3 DEF Signing, Pending
  <2>5. Valid' \subseteq Valid \cup {r}
    BY <2>1 DEF Valid, IsLimit, Stored
  <2>6. ASSUME NEW Q \in SUBSET Pending'
        PROVE  Few(Outlook(Q))'
    <3>1. Q \cup {r} \in SUBSET Pending
      BY <2>2, <2>4
    <3>2. \A q \in Q : Covered(q)' = Covered(q)
      BY <2>2, <2>3 DEF Pending
    <3>3. Outlook(Q)' \subseteq Outlook(Q \cup {r})
      BY <2>2, <2>4, <2>5, <3>2 DEF Outlook
    <3>4. Few(Outlook(Q \cup {r}))
      BY <1>2, <3>1 DEF Bounded
    <3>5. QED
      BY <3>3, <3>4, FewSubset DEF Few
  <2>7. QED
    BY <2>6 DEF Bounded
<1>3. QED
  BY <1>1, <1>2

\* The query of resolveStates finds all that are valid, so only requests in
\* flight are left to make one valid.
LEMMA BoundedFind ==
  ASSUME Shape, Shape', TokenShape, FewInFlight', [Next]_vars, Bounded, NEW r \in Req,
         Others(r), ResolveFind(r)
  PROVE  Bounded'
<1>1. CASE SomeLock
  BY <1>1, RowStep DEF SomeLock, Bounded
<1>2. CASE ~SomeLock
  <2>1. pc[r] = "resolveFind" /\ goal[r] = "none" /\ UNCHANGED <<state, passed, dirty>>
    BY DEF ResolveFind, Shape, Saving
  <2>2. Valid' = Valid
    BY <2>1 DEF Valid, IsLimit, Stored
  <2>3. Valid \subseteq ActiveOf("limit")
    <3>1. ASSUME NEW s \in Valid PROVE s \in ActiveOf("limit")
      <4>1. IsLimit(s) /\ ~state[s].resolved /\ s \notin passed /\ Pair(s, state[s])
        BY DEF Valid, TokenShape
      <4>2. QED
        BY <4>1 DEF ActiveOf, IsActive, IsLimit, Pair, Valid
    <3>2. QED
      BY <3>1
  <2>4. ActiveOf("limit") \subseteq Covered(r)'
    <3>1. CASE ActiveOf("limit") = {}
      BY <3>1
    <3>2. CASE ActiveOf("limit") # {}
      <4> DEFINE res == Resolved(ActiveOf("limit"), NoStates)
      <4>1. res = [s \in Req |->
                     IF s \in ActiveOf("limit")
                     THEN [name |-> "limit", expires |-> state[s].expires,
                           resolved |-> TRUE, token |-> state[s].token]
                     ELSE None]
        BY DEF Resolved, NoStates
      <4>2. Save(r, [user |-> None, related |-> FALSE, states |-> res], "resolve")
        BY <3>2, <4>1 DEF ResolveFind
      <4>3. res \in [Req -> StateRow \cup {None}] /\ NoStates \in [Req -> StateRow \cup {None}]
        BY ResolvedType DEF NoStates
      <4>4. \A s \in ActiveOf("limit") : s \in Req /\ res[s] # None
        <5>1. ASSUME NEW s \in ActiveOf("limit") PROVE s \in Req /\ res[s] # None
          <6>1. s \in Req /\ Stored(s) /\ state[s] \in StateRow
            BY DEF ActiveOf, Stored, Shape, TypeOK
          <6>2. res[s] \in StateRow
            BY <6>1 DEF Resolved, StateRow
          <6>3. QED
            BY <6>1, <6>2, NoneAssumption
        <5>2. QED
          BY <5>1
      <4> HIDE DEF res
      <4>5. goal'[r] = "resolve" /\ pc'[r] = "saveRead" /\ mem'[r].states = res
        BY <4>2 DEF Save, Goto, Keep, Shape, TypeOK
      <4>6. QED
        BY <4>4, <4>5 DEF Covered
    <3>3. QED
      BY <3>1, <3>2
  <2>5. r \notin Signing'
    <3>1. goal'[r] # "token"
      BY <2>1 DEF ResolveFind, Save, Shape, TypeOK
    <3>2. QED
      BY <3>1 DEF Signing
  <2>6. ASSUME NEW q \in Req, q # r
        PROVE  /\ q \in Signing' => q \in Signing
               /\ q \in Pending' => q \in Pending
               /\ Covered(q)' = Covered(q)
    BY <2>6 DEF Others, Signing, Pending, Covered
  <2>7. ASSUME NEW Q \in SUBSET Pending'
        PROVE  Few(Outlook(Q))'
    <3>1. CASE r \in Q
      <4>1. Outlook(Q)' \subseteq Signing' \cup Q
        BY <2>2, <2>3, <2>4, <3>1 DEF Outlook
      <4>2. Signing' \cup Pending' \subseteq InFlight'
        BY DEF Shape, Signing, Pending, InFlight, Saving, Working
      <4>3. Outlook(Q)' \subseteq InFlight' /\ Few(InFlight)'
        BY <4>1, <4>2 DEF FewInFlight, Few
      <4>4. QED
        BY <4>3, FewSubset DEF Few
    <3>2. CASE r \notin Q
      <4>1. Q \in SUBSET Pending /\ Signing' \subseteq Signing
        BY <2>5, <2>6, <3>2 DEF Pending, Signing
      <4>2. \A q \in Q : Covered(q)' = Covered(q)
        BY <2>6, <3>2 DEF Pending
      <4>3. Outlook(Q)' \subseteq Outlook(Q)
        BY <2>2, <4>1, <4>2 DEF Outlook
      <4>4. Few(Outlook(Q))
        BY <1>2, <4>1 DEF Bounded
      <4>5. QED
        BY <4>3, <4>4, FewSubset DEF Few
    <3>3. QED
      BY <3>1, <3>2
  <2>8. QED
    BY <2>7 DEF Bounded
<1>3. QED
  BY <1>1, <1>2

\* The save of resolveStates reads the rows: it will resolve all that are valid.
LEMMA BoundedRead ==
  ASSUME Shape, TokenShape, [Next]_vars, Bounded, NEW r \in Req, Others(r), SaveRead(r)
  PROVE  Bounded'
<1>1. pc[r] = "saveRead" /\ UNCHANGED <<state, passed, goal, mem>>
  BY SaveReadEffect
<1>2. Valid' = Valid
  BY <1>1 DEF Valid, IsLimit, Stored
<1>3. PICK new \in SUBSET Column :
         dirty' = [dirty EXCEPT ![r] = new] /\ Differing(r, new)
  BY SaveReadEffect
<1>4. dirty'[r] = new
  BY <1>3 DEF Shape, TypeOK
<1>5. pc'[r] # "limitInsert"
  BY SaveReadEffect DEF Shape, TypeOK
<1>6. ASSUME goal[r] = "resolve" PROVE pc'[r] = "saveWrite"
  <2>1. Orphans(mem[r]) = {}
    BY <1>6 DEF TokenShape, Orphans
  <2>2. QED
    BY <2>1 DEF SaveRead, Goto, Shape, TypeOK
<1>7. ASSUME goal[r] = "resolve", NEW s \in Covered(r) \cap Valid
      PROVE  s \in Covered(r)'
  <2>1. s \in Req /\ mem[r].states[s] # None /\ ~state[s].resolved
    BY <1>1 DEF Covered, Valid
  <2>2. mem[r].states[s].resolved
    BY <1>7, <2>1 DEF TokenShape, Fits
  <2>3. <<s, "resolved">> \in new
    BY <1>3, <1>7, <2>1, <2>2 DEF Differing, StateColumn
  <2>4. QED
    BY <1>1, <1>4, <1>6, <1>7, <2>1, <2>3 DEF Covered
<1>8. r \in Pending' => r \in Pending /\ Covered(r) \cap Valid' \subseteq Covered(r)'
  BY <1>1, <1>2, <1>5, <1>7 DEF Pending
<1>9. r \in Signing' => r \in Signing
  BY <1>1 DEF Signing
<1>10. QED
  BY <1>2, <1>8, <1>9, BoundedStep

\* The UPDATEs of a save, unless for a lock, make no state valid but the one of
\* r itself.
LEMMA BoundedWrite ==
  ASSUME Shape, Shape', TokenShape, [Next]_vars, Bounded, NEW r \in Req, Others(r), SaveWrite(r)
  PROVE  Bounded'
<1>1. pc[r] = "saveWrite" /\ UNCHANGED passed /\ goal[r] # "none"
  BY SaveWriteEffect DEF Shape, Saving
<1>2. goal'[r] = "none" /\ (pc'[r] = "limitInsert" => goal[r] = "resolve")
  <2>1. After(r) /\ pc \in [Req -> Phase] /\ goal \in [Req -> Goal]
    BY SaveWriteEffect DEF Shape, TypeOK
  <2>2. CASE goal[r] = "resolve"
    BY <2>1, <2>2 DEF After, Goto
  <2>3. CASE goal[r] # "resolve"
    <3>1. \E outcome \in {"limited", "refused", "done"} : Answer(r, outcome)
      BY <2>1, <2>3 DEF After
    <3>2. QED
      BY <2>1, <3>1 DEF Answer, Goto
  <2>4. QED
    BY <2>2, <2>3
<1>3. CASE goal[r] = "lock"
  BY <1>3, RowStep DEF SomeLock, Bounded, TokenShape
<1>4. CASE goal[r] # "lock"
  <2>1. ASSUME NEW s \in Valid' PROVE s \in Valid \cup Signing /\ s \notin Covered(r)
    <3>1. s \in Req /\ IsLimit(s) /\ ~state'[s].resolved /\ s \notin passed
      BY <1>1, SaveWriteEffect DEF Valid, IsLimit
    <3>2. CASE <<s, "resolved">> \in dirty[r]
      <4>1. mem[r].states[s] # None
        BY <3>1, <3>2 DEF Shape, StateColumn
      <4>2. ~mem[r].states[s].resolved
        BY <3>1, <3>2, SaveWriteEffect DEF IsLimit
      <4>3. Fits(goal[r], r, s, mem[r].states[s])
        BY <3>1, <4>1 DEF TokenShape
      <4>4. goal[r] = "token" /\ s = r
        <5>1. goal[r] \in {"lock", "resolve", "token", "clear", "update"}
          BY <1>1 DEF Shape, TypeOK, Goal
        <5>2. QED
          BY <1>4, <3>1, <4>2, <4>3, <5>1 DEF Fits
      <4>5. QED
        BY <4>4 DEF Signing, Covered
    <3>3. CASE <<s, "resolved">> \notin dirty[r]
      BY <1>1, <3>1, <3>3, SaveWriteEffect DEF IsLimit, Valid, Covered
    <3>4. QED
      BY <3>2, <3>3
  <2>2. r \in Signing' => r \in Signing
    BY <1>2 DEF Signing
  <2>3. r \in Pending' => r \in Pending /\ Covered(r) \cap Valid' \subseteq Covered(r)'
    BY <1>2, <2>1 DEF Pending
  <2>4. QED
    BY <2>1, <2>2, <2>3, BoundedStep
<1>5. QED
  BY <1>3, <1>4

LEMMA NextBounded ==
  ASSUME Shape, Shape', TokenShape, FewInFlight', [Next]_vars, Bounded
  PROVE  Bounded'
<1>1. CASE UNCHANGED vars
  BY <1>1 DEF vars, Bounded, Few, Outlook, Signing, Pending, Covered, Valid, IsLimit, Stored,
     SomeLock, IsLock
<1> SUFFICES ASSUME NEW r \in Req, Request(r) \/ Step(r) \/ Fail(r) \/ Pass(r) \/ Age(r)
             PROVE  Bounded'
  BY <1>1 DEF Next
<1>a. Others(r)
  BY OthersStay
<1>b. mem \in [Req -> Memory] /\ goal \in [Req -> Goal] /\ pc \in [Req -> Phase]
  BY DEF Shape, TypeOK
<1>2. CASE Request(r)
  <2>1. /\ UNCHANGED <<state, passed>>
        /\ pc[r] = "idle" /\ pc'[r] # "limitInsert"
        /\ goal' = goal \/ goal'[r] = "update"
    BY <1>2, <1>b DEF Request, Load, DeleteSessions, UpdateUser, DeleteUser,
       DeleteWithTempToken, Arrive, Goto, Save
  <2>2. goal'[r] \notin {"resolve", "token"}
    BY <2>1 DEF Shape, Saving
  <2>3. QED
    BY <1>a, <2>1, <2>2, BoundedQuiet
<1>3. CASE Verified(r) \/ Locked(r) \/ Mismatch(r) \/ Record(r) \/ Count(r)
        \/ TempUser(r) \/ NothingDeleted(r) \/ Clear(r) \/ Delete(r) \/ Reject(r) \/ Fail(r)
  <2>1. UNCHANGED <<state, passed>> /\ pc'[r] # "limitInsert"
    BY <1>3, <1>b DEF Verified, Locked, Mismatch, Record, Count, TempUser, NothingDeleted,
       Clear, Delete, Reject, Fail, Answer, Goto, Save
  <2>2. \/ goal' = goal /\ pc[r] \notin Saving
        \/ goal'[r] \in {"none", "clear"}
    BY <1>3, <1>b DEF Verified, Locked, Mismatch, Record, Count, TempUser, NothingDeleted,
       Clear, Delete, Reject, Fail, Answer, Save, Saving
  <2>3. goal'[r] \notin {"resolve", "token"}
    BY <2>2 DEF Shape
  <2>4. QED
    BY <1>a, <2>1, <2>3, BoundedQuiet
<1>4. CASE LockFind(r) \/ LockInsert(r)
  <2>1. CASE SomeLock'
    BY <2>1 DEF Bounded
  <2>2. CASE pc' = [pc EXCEPT ![r] = "lockInsert"] /\ mem' = mem /\ UNCHANGED state
    <3>1. goal'[r] \in {"none", "lock"} /\ UNCHANGED passed
      BY <1>4, LockEffect DEF LockFind, LockInsert, Shape, Saving
    <3>2. pc'[r] # "limitInsert"
      BY <1>b, <2>2
    <3>3. QED
      BY <1>a, <2>2, <3>1, <3>2, BoundedQuiet
  <2>3. QED
    BY <1>4, <2>1, <2>2, LockSteps DEF SomeLock
<1>5. CASE ResolveFind(r)
  BY <1>5, <1>a, BoundedFind
<1>6. CASE LimitInsert(r)
  BY <1>6, <1>a, BoundedInsert
<1>7. CASE SaveRead(r)
  BY <1>7, <1>a, BoundedRead
<1>8. CASE SaveWrite(r)
  BY <1>8, <1>a, BoundedWrite
<1>9. CASE Pass(r) \/ Age(r)
  <2>1. UNCHANGED <<state, pc, goal, mem, dirty>> /\ passed \subseteq passed'
    BY <1>9 DEF Pass, Age
  <2>2. Valid' \subseteq Valid
    BY <2>1 DEF Valid, IsLimit, Stored
  <2>3. QED
    BY <1>a, <2>1, <2>2, BoundedStep DEF Signing, Pending, Covered
<1>10. QED
  BY <1>2, <1>3, <1>4, <1>5, <1>6, <1>7, <1>8, <1>9 DEF Step

LEMMA InitBounded == Init => TokenShape /\ Bounded
<1> SUFFICES ASSUME Init PROVE TokenShape /\ Bounded
  OBVIOUS
<1>1. TokenShape
  BY NothingType DEF Init, TokenShape, IsLimit, Stored, NoStates
<1>2. Valid = {} /\ Signing = {} /\ Pending = {}
  BY DEF Init, Valid, Signing, Pending, IsLimit, Stored, NoStates
<1>3. \A Q \in SUBSET Pending : Outlook(Q) = {}
  BY <1>2 DEF Outlook
<1>4. Few({})
  BY FS_EmptySet, BoundAssumption DEF Few
<1>5. QED
  BY <1>1, <1>3, <1>4 DEF Bounded

\* Whatever logins at the limit, stale saves and failures interleave, no more
\* temporary tokens are valid at a time than requests run at a time.
THEOREM TokensBounded == Spec => []TempTokensBounded
<1>1. TokenShape /\ Bounded => TempTokensBounded
  <2> SUFFICES ASSUME TokenShape, Bounded, ~SomeLock
               PROVE  Cardinality(TempTokens) <= MaxConcurrent
    BY DEF TempTokensBounded, SomeLock
  <2>1. TempTokens \subseteq Valid
    <3>1. ASSUME NEW s \in TempTokens PROVE s \in Valid
      <4>1. /\ s \in Req /\ IsLimit(s) /\ IsActive(state[s]) /\ state[s].token # None
            /\ Pair(s, state[s])
        BY DEF TempTokens, ActiveOf, IsLimit, TokenShape
      <4>2. QED
        BY <4>1 DEF Valid, IsActive, Pair
    <3>2. QED
      BY <3>1
  <2>2. Few(Outlook({})) /\ Valid \subseteq Outlook({})
    BY DEF Bounded, Outlook
  <2>3. QED
    BY <2>1, <2>2, FewSubset DEF Few
<1>2. Shape /\ Shape' /\ TokenShape /\ FewInFlight' /\ Bounded /\ [Next]_vars
        => TokenShape' /\ Bounded'
  BY NextTokenShape, NextBounded
<1>3. QED
  BY <1>1, <1>2, InitBounded, InitFewInFlight, NextFewInFlight, ShapeInvariant, PTL DEF Spec

-----------------------------------------------------------------------------
(* A temporary token that works. *)

\* Who resolves or signs states of the session limit has no relation to save,
\* and is not rejected; who is, misses a row; and who signs a state, or has
\* handed out its token, has inserted it.
SignShape ==
    \A r \in Req :
        /\ goal[r] \in {"resolve", "token"} => ~mem[r].related /\ pc[r] # "reject"
        /\ pc[r] = "reject" => Orphans(mem[r]) # {}
        /\ goal[r] = "token" \/ pc[r] = "limited" => IsLimit(r)

\* What is left to show of a step of r.
LEMMA SignShapeStep ==
  ASSUME Shape, SignShape, [Next]_vars, NEW r \in Req, Others(r),
         goal'[r] \in {"resolve", "token"} => ~mem'[r].related /\ pc'[r] # "reject",
         pc'[r] = "reject" => Orphans(mem[r])' # {},
         goal'[r] = "token" \/ pc'[r] = "limited" => IsLimit(r)'
  PROVE  SignShape'
<1>1. \A s \in Req : (Stored(s) => Stored(s)') /\ (IsLimit(s) => IsLimit(s)')
  BY RowStep DEF IsLimit
<1>2. ASSUME NEW q \in Req \ {r}, pc'[q] = "reject" PROVE Orphans(mem[q])' # {}
  <2>1. pc[q] = "reject" /\ mem'[q] = mem[q]
    BY <1>2 DEF Others
  <2>2. Orphans(mem[q]) \subseteq Orphans(mem[q])'
    BY <1>1, <2>1 DEF Orphans
  <2>3. QED
    BY <2>1, <2>2 DEF SignShape
<1>3. QED
  BY <1>1, <1>2 DEF SignShape, Others

LEMMA NextSignShape ==
  ASSUME Shape, SignShape, [Next]_vars
  PROVE  SignShape'
<1>1. CASE UNCHANGED vars
  BY <1>1 DEF vars, SignShape, Orphans, IsLimit, Stored
<1> SUFFICES ASSUME NEW r \in Req, Request(r) \/ Step(r) \/ Fail(r) \/ Pass(r) \/ Age(r)
             PROVE  SignShape'
  BY <1>1 DEF Next
<1>a. Others(r)
  BY OthersStay
<1>b. mem \in [Req -> Memory] /\ goal \in [Req -> Goal] /\ pc \in [Req -> Phase]
  BY DEF Shape, TypeOK
<1>2. CASE Request(r)
  <2>1. /\ pc[r] = "idle" /\ pc'[r] \notin {"limited", "reject"}
        /\ goal' = goal \/ goal'[r] = "update"
    BY <1>2, <1>b DEF Request, Load, DeleteSessions, UpdateUser, DeleteUser,
       DeleteWithTempToken, Arrive, Goto, Save
  <2>2. goal'[r] \notin {"resolve", "token"}
    BY <2>1 DEF Shape, Saving
  <2>3. QED
    BY <1>a, <2>1, <2>2, SignShapeStep
<1>3. CASE Verified(r) \/ Locked(r) \/ Mismatch(r) \/ Record(r) \/ Count(r)
        \/ TempUser(r) \/ NothingDeleted(r) \/ Clear(r) \/ Delete(r) \/ Reject(r) \/ Fail(r)
  <2>1. pc'[r] \notin {"limited", "reject"}
    BY <1>3, <1>b DEF Verified, Locked, Mismatch, Record, Count, TempUser, NothingDeleted,
       Clear, Delete, Reject, Fail, Answer, Goto, Save
  <2>2. \/ goal' = goal /\ pc[r] \notin Saving
        \/ goal'[r] \in {"none", "clear"}
    BY <1>3, <1>b DEF Verified, Locked, Mismatch, Record, Count, TempUser, NothingDeleted,
       Clear, Delete, Reject, Fail, Answer, Save, Saving
  <2>3. goal'[r] \notin {"resolve", "token"}
    BY <2>2 DEF Shape
  <2>4. QED
    BY <1>a, <2>1, <2>3, SignShapeStep
<1>4. CASE LockFind(r) \/ LockInsert(r)
  <2>1. goal'[r] \in {"none", "lock"}
    BY <1>4, LockEffect DEF LockFind, LockInsert, Shape, Saving
  <2>2. pc'[r] \notin {"limited", "reject"}
    BY <1>4, <1>b, LockSteps DEF Save, Goto
  <2>3. QED
    BY <1>a, <2>1, <2>2, SignShapeStep
<1>5. CASE ResolveFind(r)
  <2>1. goal[r] = "none"
    BY <1>5 DEF ResolveFind, Shape, Saving
  <2>2. /\ goal'[r] \in {"none", "resolve"} /\ pc'[r] \in {"limitInsert", "saveRead"}
        /\ ~mem'[r].related
    BY <1>5, <1>b, <2>1 DEF ResolveFind, Save, Keep, Goto, Nothing
  <2>3. QED
    BY <1>a, <2>2, SignShapeStep
<1>6. CASE LimitInsert(r)
  <2>1. pc'[r] = "saveRead" /\ ~mem'[r].related /\ state'[r].name = "limit"
    BY <1>6, <1>b DEF LimitInsert, Save, Keep, Goto, Shape, TypeOK
  <2>2. state'[r] # None
    <3> DEFINE row == [name |-> "limit", expires |-> None, resolved |-> FALSE,
                       token |-> None]
    <3>1. row \in StateRow
      BY DEF StateRow
    <3>2. state'[r] = row
      BY <1>6 DEF LimitInsert, Shape, TypeOK
    <3>3. QED
      BY <3>1, <3>2, NoneAssumption
  <2>3. QED
    BY <1>a, <2>1, <2>2, SignShapeStep DEF IsLimit, Stored
<1>7. CASE SaveRead(r)
  <2>1. /\ UNCHANGED <<state, goal, mem>>
        /\ pc'[r] = IF Orphans(mem[r]) = {} THEN "saveWrite" ELSE "reject"
    BY <1>7, <1>b DEF SaveRead, Goto
  <2>2. Orphans(mem[r])' = Orphans(mem[r]) /\ (IsLimit(r) => IsLimit(r)')
    BY <2>1 DEF Orphans, IsLimit, Stored
  <2>3. goal[r] \in {"resolve", "token"} => ~mem[r].related
    BY DEF SignShape
  <2>4. ~mem[r].related => Orphans(mem[r]) = {}
    BY DEF Orphans
  <2>5. goal[r] = "token" => IsLimit(r)
    BY DEF SignShape
  <2>6. QED
    BY <1>a, <2>1, <2>2, <2>3, <2>4, <2>5, SignShapeStep
<1>8. CASE SaveWrite(r)
  <2>1. After(r)
    BY <1>8, SaveWriteEffect
  <2>2. /\ goal'[r] = "none" /\ pc'[r] \in {"limitInsert", "limited", "refused", "done"}
        /\ pc'[r] = "limited" => goal[r] = "token"
    BY <1>b, <2>1 DEF After, Answer, Goto
  <2>3. IsLimit(r) => IsLimit(r)'
    BY RowStep DEF IsLimit
  <2>4. QED
    BY <1>a, <2>2, <2>3, SignShapeStep DEF SignShape
<1>9. CASE Pass(r) \/ Age(r)
  BY <1>9 DEF Pass, Age, SignShape, Orphans, IsLimit, Stored
<1>10. QED
  BY <1>2, <1>3, <1>4, <1>5, <1>6, <1>7, <1>8, <1>9 DEF Step

LEMMA InitSignShape == Init => SignShape
BY NothingType DEF Init, SignShape, IsLimit, Stored, NoStates

\* The state that t inserted is unresolved and stays so, and has its token or is
\* about to get it.
Clean(t) ==
    /\ IsLimit(t) /\ ~state[t].resolved
    /\ \A q \in Req : goal[q] = "resolve" => mem[q].states[t] = None
    /\ \/ /\ goal[t] = "token"
          /\ mem[t].states[t] # None
          /\ mem[t].states[t].token = t /\ ~mem[t].states[t].resolved
          /\ pc[t] = "saveRead" => state[t].token = None
          /\ pc[t] = "saveWrite" => <<t, "token">> \in dirty[t]
       \/ pc[t] = "limited" /\ state[t].token = t

\* Once there is a state of the session limit, there is a clean one, or there
\* will be when those who resolve states are done.
OneWorks ==
    (\E s \in Req : IsLimit(s)) => Pending # {} \/ \E t \in Req : Clean(t)

\* No state but that of r itself is written by a save for a token or the user,
\* and the resolving saves know which they write.
LEMMA CleanColumns ==
  ASSUME Shape, TokenShape, ~SomeLock, NEW r \in Req, NEW t \in Req,
         r # t, Clean(t), SaveWrite(r), goal[r] # "clear"
  PROVE  /\ Stored(t)' /\ state'[t].name = state[t].name
         /\ state'[t].resolved = state[t].resolved /\ state'[t].token = state[t].token
<1>1. goal[r] \in {"lock", "resolve", "token", "clear", "update"}
  BY SaveWriteEffect DEF Shape, TypeOK, Goal, Saving
<1>2. mem[r].states[t] = None
  <2>1. goal[r] # "lock" /\ (goal[r] = "resolve" => mem[r].states[t] = None)
    BY DEF TokenShape, Clean
  <2>2. mem[r].states[t] # None => Fits(goal[r], r, t, mem[r].states[t])
    BY DEF TokenShape
  <2>3. QED
    BY <1>1, <2>1, <2>2 DEF Fits
<1>3. \A c \in StateColumn : <<t, c>> \notin dirty[r]
  BY <1>2 DEF Shape
<1>4. QED
  BY <1>3, SaveWriteEffect DEF Clean, IsLimit, StateColumn

\* A step of another request that does not go on to resolve states.
LEMMA CleanOther ==
  ASSUME NEW r \in Req, NEW t \in Req, r # t, Others(r), Clean(t),
         goal'[r] # "resolve",
         Stored(t)' /\ state'[t].name = state[t].name,
         state'[t].resolved = state[t].resolved /\ state'[t].token = state[t].token
  PROVE  Clean(t)'
<1>1. ASSUME NEW q \in Req, goal'[q] = "resolve" PROVE mem'[q].states[t] = None
  BY <1>1 DEF Others, Clean
<1>2. /\ pc'[t] = pc[t] /\ goal'[t] = goal[t] /\ mem'[t] = mem[t] /\ dirty'[t] = dirty[t]
  BY DEF Others
<1>3. QED
  BY <1>1, <1>2 DEF Clean, IsLimit

\* The save that signs the state.
LEMMA CleanSigned ==
  ASSUME Shape, TokenShape, SignShape, [Next]_vars, NEW t \in Req, Others(t), Clean(t),
         SaveRead(t) \/ SaveWrite(t)
  PROVE  Clean(t)'
<1>1. /\ pc[t] \in {"saveRead", "saveWrite"} /\ goal[t] = "token"
      /\ mem[t].states[t] # None
      /\ mem[t].states[t].token = t /\ ~mem[t].states[t].resolved
      /\ pc[t] = "saveRead" => state[t].token = None
      /\ pc[t] = "saveWrite" => <<t, "token">> \in dirty[t]
  BY DEF SaveRead, SaveWrite, Clean
<1>2. ASSUME goal'[t] # "resolve", NEW q \in Req, goal'[q] = "resolve"
      PROVE  mem'[q].states[t] = None
  BY <1>2 DEF Others, Clean
<1>3. CASE SaveRead(t)
  <2>1. /\ UNCHANGED <<state, goal, mem>> /\ pc[t] = "saveRead"
    BY <1>3, SaveReadEffect
  <2>2. PICK new \in SUBSET Column :
           dirty' = [dirty EXCEPT ![t] = new] /\ Differing(t, new)
    BY <1>3, SaveReadEffect
  <2>3. pc'[t] = "saveWrite"
    <3>1. Orphans(mem[t]) = {}
      BY <1>1 DEF SignShape, Orphans
    <3>2. QED
      BY <1>3, <3>1 DEF SaveRead, Goto, Shape, TypeOK
  <2>4. <<t, "token">> \in new
    <3>1. mem[t].states[t]["token"] # state[t]["token"]
      BY <1>1, <2>1, NoneAssumption
    <3>2. "token" \in StateColumn /\ "token" # "resolved"
      BY DEF StateColumn
    <3>3. QED
      BY <1>1, <2>2, <3>1, <3>2 DEF Differing
  <2>5. dirty'[t] = new
    BY <2>2 DEF Shape, TypeOK
  <2>6. QED
    BY <1>1, <1>2, <2>1, <2>3, <2>4, <2>5 DEF Clean, IsLimit, Stored
<1>4. CASE SaveWrite(t)
  <2>1. pc[t] = "saveWrite" /\ After(t)
    BY <1>4, SaveWriteEffect
  <2>2. pc'[t] = "limited" /\ goal'[t] = "none"
    BY <1>1, <2>1 DEF After, Answer, Goto, Shape, TypeOK
  <2>3. Stored(t) /\ ~state[t].resolved /\ state[t].name = "limit"
    BY DEF Clean, IsLimit
  <2>4. Stored(t)' /\ state'[t].name = "limit" /\ state'[t].token = t
        /\ ~state'[t].resolved
    BY <1>1, <1>4, <2>1, <2>3, SaveWriteEffect
  <2>5. QED
    BY <1>2, <2>2, <2>4 DEF Clean, IsLimit
<1>5. QED
  BY <1>3, <1>4

\* A new state is clean: nobody can have it in memory.
LEMMA CleanNew ==
  ASSUME Shape, NEW r \in Req, Others(r), LimitInsert(r)
  PROVE  Clean(r)'
<1> DEFINE row == [name |-> "limit", expires |-> None, resolved |-> FALSE,
                   token |-> None]
           signed == [name |-> "limit", expires |-> r, resolved |-> FALSE,
                      token |-> r]
<1>1. /\ pc[r] = "limitInsert" /\ pc'[r] = "saveRead" /\ goal'[r] = "token"
      /\ mem'[r].states = [NoStates EXCEPT ![r] = signed] /\ state'[r] = row
  BY DEF LimitInsert, Save, Keep, Goto, Shape, TypeOK
<1>2. ~Stored(r)
  BY <1>1 DEF Shape, Answered, Saving
<1>3. \A q \in Req \ {r} : mem'[q].states[r] = None
  BY <1>2 DEF Others, Shape
<1>4. /\ row \in StateRow /\ row.name = "limit" /\ ~row.resolved /\ row.token = None
      /\ signed \in StateRow /\ ~signed.resolved /\ signed.token = r
  BY DEF StateRow
<1>5. mem'[r].states[r] = signed
  BY <1>1 DEF NoStates
<1> HIDE DEF row, signed
<1>6. IsLimit(r)' /\ ~state'[r].resolved /\ state'[r].token = None
  BY <1>1, <1>4, NoneAssumption DEF IsLimit, Stored
<1>7. mem'[r].states[r] # None /\ mem'[r].states[r].token = r /\ ~mem'[r].states[r].resolved
  BY <1>4, <1>5, NoneAssumption
<1>8. \A q \in Req : goal'[q] = "resolve" => mem'[q].states[r] = None
  BY <1>1, <1>3
<1>9. QED
  BY <1>1, <1>6, <1>7, <1>8 DEF Clean

\* Who resolves goes on to insert a state, unless it fails.
LEMMA PendingStays ==
  ASSUME Shape, SignShape, NEW r \in Req, r \in Pending,
         Request(r) \/ Step(r) \/ Fail(r) \/ Pass(r) \/ Age(r),
         ~LimitInsert(r), pc'[r] # "failed"
  PROVE  r \in Pending'
<1>1. \/ pc[r] \in {"saveRead", "saveWrite"} /\ goal[r] = "resolve"
      \/ pc[r] = "limitInsert"
  BY DEF Pending, SignShape, Shape, Saving
<1>2. CASE SaveRead(r)
  BY <1>1, <1>2, SaveReadEffect DEF Pending
<1>3. CASE SaveWrite(r)
  BY <1>1, <1>3 DEF SaveWrite, After, Goto, Pending, Shape, TypeOK
<1>4. CASE Pass(r) \/ Age(r)
  BY <1>4 DEF Pass, Age, Pending
<1>5. CASE Fail(r)
  BY <1>5 DEF Fail, Answer, Goto, Shape, TypeOK
<1>6. QED
  BY <1>1, <1>2, <1>3, <1>4, <1>5 DEF Request, Step, Load, DeleteSessions, UpdateUser,
     DeleteUser, DeleteWithTempToken, Arrive, Verified, Locked, Mismatch, Record, Count,
     LockFind, LockInsert, ResolveFind, LimitInsert, TempUser, NothingDeleted, Clear,
     Delete, Reject

\* Without locks, deletions of sessions and failures, but for those of an update.
LEMMA NextOneWorks ==
  ASSUME Shape, TokenShape, SignShape, OneWorks, [Next]_vars, ~SomeLock',
         \A q \in Req : goal[q] # "clear",
         \A q \in Req : pc'[q] = "failed" => pc[q] = "failed" \/ goal[q] = "update"
  PROVE  OneWorks'
<1>1. CASE UNCHANGED vars
  BY <1>1 DEF vars, OneWorks, Clean, Pending, IsLimit, Stored
<1> SUFFICES ASSUME NEW r \in Req, Request(r) \/ Step(r) \/ Fail(r) \/ Pass(r) \/ Age(r)
             PROVE  OneWorks'
  BY <1>1 DEF Next
<1>a. Others(r)
  BY OthersStay
<1>b. ~SomeLock
  BY RowStep DEF SomeLock
<1>2. CASE LimitInsert(r)
  BY <1>2, <1>a, CleanNew DEF OneWorks
<1>3. CASE ~LimitInsert(r)
  <2>1. SUFFICES ASSUME r \notin Pending', NEW s \in Req, IsLimit(s)'
                 PROVE  Pending' # {} \/ \E t \in Req : Clean(t)'
    BY DEF OneWorks
  <2>2. (~LockFind(r) /\ ~LockInsert(r)) \/ UNCHANGED <<state, mem, goal>>
    <3>1. ASSUME LockFind(r) \/ LockInsert(r), goal'[r] = "lock" PROVE FALSE
      <4>1. goal[r] = "none"
        BY <3>1 DEF LockFind, LockInsert, Shape, Saving
      <4>2. QED
        BY <3>1, <4>1, LockEffect DEF SomeLock
    <3>2. LockInsert(r) => goal'[r] = "lock"
      BY DEF LockInsert, SetLock, Save, Shape, TypeOK
    <3>3. LockFind(r) => UNCHANGED state
      BY DEF LockFind
    <3>4. QED
      BY <3>1, <3>2, <3>3, LockEffect
  <2>3. UNCHANGED state \/ SaveWrite(r)
    <3>1. CASE Request(r) \/ Fail(r) \/ Pass(r) \/ Age(r)
      BY <3>1 DEF Request, Load, DeleteSessions, UpdateUser, DeleteUser,
         DeleteWithTempToken, Fail, Pass, Age
    <3>2. CASE Step(r)
      BY <1>3, <2>2, <3>2 DEF Step, Verified, Locked, Mismatch, Record, Count, LockFind,
         ResolveFind, TempUser, NothingDeleted, Clear, Delete, SaveRead, Reject
    <3>3. QED
      BY <3>1, <3>2
  <2>4. IsLimit(s)
    BY <2>1, <2>3, SaveWriteEffect DEF IsLimit, Stored
  <2>5. CASE Pending # {}
    <3>1. PICK q \in Pending : TRUE
      BY <2>5
    <3>2. CASE q # r
      BY <1>a, <3>2 DEF Others, Pending
    <3>3. CASE q = r
      <4>1. goal[r] # "update" /\ pc[r] # "failed"
        BY <3>1, <3>3 DEF Pending, Shape, Saving
      <4>2. QED
        BY <1>3, <2>1, <3>1, <3>3, <4>1, PendingStays
    <3>4. QED
      BY <3>2, <3>3
  <2>6. ASSUME NEW t \in Req, Clean(t)
        PROVE  Clean(t)'
    <3>1. CASE t # r
      <4>1. goal'[r] # "resolve"
        BY <2>1 DEF Pending
      <4>2. CASE SaveWrite(r)
        BY <1>a, <1>b, <2>6, <3>1, <4>1, <4>2, CleanColumns, CleanOther
      <4>3. CASE UNCHANGED state
        BY <1>a, <2>6, <3>1, <4>1, <4>3, CleanOther DEF Clean, IsLimit, Stored
      <4>4. QED
        BY <2>3, <4>2, <4>3
    <3>2. CASE t = r
      <4>1. \/ pc[r] \in {"saveRead", "saveWrite"} /\ goal[r] = "token"
            \/ pc[r] = "limited"
        BY <2>6, <3>2 DEF Clean, Shape, Saving, SignShape
      <4>2. CASE SaveRead(r) \/ SaveWrite(r)
        BY <1>a, <2>6, <3>2, <4>2, CleanSigned
      <4>3. CASE Pass(r) \/ Age(r)
        BY <2>6, <4>3 DEF Pass, Age, Clean, IsLimit, Stored
      <4>4. CASE Fail(r)
        <5>1. pc'[r] = "failed" /\ pc[r] # "failed" /\ goal[r] # "update"
          BY <4>1, <4>4 DEF Fail, Answer, Goto, InFlight, Working, Shape, TypeOK, Saving
        <5>2. QED
          BY <5>1
      <4>5. QED
        BY <4>1, <4>2, <4>3, <4>4 DEF Request, Step, Load, DeleteSessions, UpdateUser,
           DeleteUser, DeleteWithTempToken, Arrive, Verified, Locked, Mismatch, Record,
           Count, LockFind, LockInsert, ResolveFind, LimitInsert, TempUser,
           NothingDeleted, Clear, Delete, Reject
    <3>3. QED
      BY <3>1, <3>2
  <2>7. QED
    BY <2>4, <2>5, <2>6 DEF OneWorks
<1>4. QED
  BY <1>2, <1>3

LEMMA InitOneWorks == Init => OneWorks
BY DEF Init, OneWorks, IsLimit, Stored, NoStates

\* Request r deletes sessions with the temporary token of t.  Once its listener
\* has loaded the states, it has that of t among them, resolved or expired; and
\* once it is to write, the row is resolved, or will be, or has expired.
Spends(r, t) ==
    /\ pc[t] = "limited"
    /\ goal[r] = "clear" =>
         /\ mem[r].states[t] # None
         /\ pc[r] = "saveWrite" =>
              <<t, "resolved">> \in dirty[r] \/ state[t].resolved \/ t \in passed

\* Without locks, no save undoes that the state of a handed out token is resolved.
LEMMA ResolvedStays ==
  ASSUME Shape, TokenShape, SignShape, [Next]_vars, ~SomeLock, NEW t \in Req,
         pc[t] = "limited", state[t].resolved \/ t \in passed
  PROVE  state'[t].resolved \/ t \in passed'
<1>1. CASE UNCHANGED vars
  BY <1>1 DEF vars
<1> SUFFICES ASSUME NEW r \in Req, Request(r) \/ Step(r) \/ Fail(r) \/ Pass(r) \/ Age(r)
             PROVE  state'[t].resolved \/ t \in passed'
  BY <1>1 DEF Next
<1>2. passed \subseteq passed'
  <2>1. CASE Request(r) \/ Fail(r) \/ Pass(r) \/ Age(r)
    BY <2>1 DEF Request, Load, DeleteSessions, UpdateUser, DeleteUser,
       DeleteWithTempToken, Fail, Pass, Age
  <2>2. CASE Step(r)
    BY <2>2 DEF Step, Verified, Locked, Mismatch, Record, Count, LockFind, LockInsert,
       ResolveFind, LimitInsert, TempUser, NothingDeleted, Clear, Delete, SaveRead,
       SaveWrite, Reject
  <2>3. QED
    BY <2>1, <2>2
<1>3. IsLimit(t)
  BY DEF SignShape
<1>4. CASE t \in passed
  BY <1>2, <1>4
<1>5. CASE state[t].resolved /\ SaveWrite(r)
  <2>1. CASE <<t, "resolved">> \in dirty[r]
    <3>1. mem[r].states[t] # None /\ goal[r] # "none"
      BY <1>5, <2>1 DEF Shape, StateColumn, SaveWrite, Saving
    <3>2. Fits(goal[r], r, t, mem[r].states[t]) /\ goal[r] # "lock"
      BY <3>1 DEF TokenShape
    <3>3. goal[r] \in {"resolve", "token", "clear", "update"}
      BY <3>1, <3>2 DEF Shape, TypeOK, Goal
    <3>4. r # t
      BY <1>5 DEF SaveWrite
    <3>5. mem[r].states[t].resolved \/ t \in passed
      BY <1>3, <3>2, <3>3, <3>4 DEF Fits
    <3>6. QED
      BY <1>2, <1>3, <1>5, <2>1, <3>5, SaveWriteEffect DEF IsLimit
  <2>2. CASE <<t, "resolved">> \notin dirty[r]
    BY <1>3, <1>5, <2>2, SaveWriteEffect DEF IsLimit
  <2>3. QED
    BY <2>1, <2>2
<1>6. CASE state[t].resolved /\ (LockInsert(r) \/ LimitInsert(r))
  <2>1. r # t
    BY <1>6 DEF LockInsert, LimitInsert
  <2>2. QED
    BY <1>6, <2>1 DEF LockInsert, LimitInsert, Shape, TypeOK
<1>7. CASE state[t].resolved /\ ~SaveWrite(r) /\ ~LockInsert(r) /\ ~LimitInsert(r)
  <2>1. UNCHANGED state
    <3>1. CASE Request(r) \/ Fail(r) \/ Pass(r) \/ Age(r)
      BY <3>1 DEF Request, Load, DeleteSessions, UpdateUser, DeleteUser,
         DeleteWithTempToken, Fail, Pass, Age
    <3>2. CASE Step(r)
      BY <1>7, <3>2 DEF Step, Verified, Locked, Mismatch, Record, Count, LockFind,
         ResolveFind, TempUser, NothingDeleted, Clear, Delete, SaveRead, Reject
    <3>3. QED
      BY <3>1, <3>2
  <2>2. QED
    BY <1>7, <2>1
<1>8. QED
  BY <1>4, <1>5, <1>6, <1>7

LEMMA NextSpends ==
  ASSUME Shape, TokenShape, SignShape, [Next]_vars, ~SomeLock,
         NEW r \in Req, NEW t \in Req, Spends(r, t)
  PROVE  Spends(r, t)'
<1>1. CASE UNCHANGED vars
  BY <1>1 DEF vars, Spends
<1> SUFFICES ASSUME NEW q \in Req, Request(q) \/ Step(q) \/ Fail(q) \/ Pass(q) \/ Age(q)
             PROVE  Spends(r, t)'
  BY <1>1 DEF Next
<1>a. Others(q)
  BY OthersStay
<1>b. /\ pc[t] = "limited" /\ IsLimit(t)
      /\ mem \in [Req -> Memory] /\ goal \in [Req -> Goal] /\ pc \in [Req -> Phase]
  BY DEF Spends, SignShape, Shape, TypeOK
<1>2. pc'[t] = "limited"
  <2>1. CASE q # t
    BY <1>a, <1>b, <2>1 DEF Others
  <2>2. CASE q = t
    BY <1>b, <2>2 DEF Request, Load, DeleteSessions, UpdateUser, DeleteUser,
       DeleteWithTempToken, Arrive, Step, Verified, Locked, Mismatch, Record, Count,
       LockFind, LockInsert, ResolveFind, LimitInsert, TempUser, NothingDeleted, Clear,
       Delete, SaveRead, SaveWrite, Reject, Fail, InFlight, Working, Pass, Age
  <2>3. QED
    BY <2>1, <2>2
<1>3. state[t].resolved \/ t \in passed => state'[t].resolved \/ t \in passed'
  BY <1>b, ResolvedStays
<1>4. CASE q = r /\ Clear(r)
  <2>1. CASE user.deleted
    BY <1>2, <1>4, <1>b, <2>1 DEF Clear, Answer, Spends
  <2>2. CASE ~user.deleted
    <3> DEFINE res == Resolved(ActiveOf("limit"), state)
    <3>1. mem'[r].states = res /\ pc'[r] = "saveRead"
      BY <1>4, <1>b, <2>2 DEF Clear, Save, Keep, Goto, Resolved
    <3>2. res[t] # None
      <4>1. state[t] \in StateRow
        BY <1>b DEF IsLimit, Stored, Shape, TypeOK
      <4>2. res[t] \in StateRow
        BY <4>1 DEF Resolved, StateRow
      <4>3. QED
        BY <4>2, NoneAssumption
    <3> HIDE DEF res
    <3>3. QED
      BY <1>2, <3>1, <3>2 DEF Spends
  <2>3. QED
    BY <2>1, <2>2
<1>5. CASE q = r /\ SaveRead(r)
  <2>1. UNCHANGED <<state, goal, mem>> /\ pc[r] = "saveRead"
    BY <1>5, SaveReadEffect
  <2>2. PICK new \in SUBSET Column :
           dirty' = [dirty EXCEPT ![r] = new] /\ Differing(r, new)
    BY <1>5, SaveReadEffect
  <2>3. dirty'[r] = new
    BY <2>2 DEF Shape, TypeOK
  <2>4. ASSUME goal[r] = "clear"
        PROVE  /\ mem[r].states[t] # None
               /\ <<t, "resolved">> \in new \/ state[t].resolved \/ t \in passed
    <3>1. mem[r].states[t] # None
      BY <2>4 DEF Spends
    <3>2. mem[r].states[t].resolved \/ t \in passed
      BY <1>b, <2>4, <3>1 DEF TokenShape, Fits
    <3>3. mem[r].states[t]["resolved"] # state[t]["resolved"] => <<t, "resolved">> \in new
      BY <2>2, <2>4, <3>1 DEF Differing, StateColumn
    <3>4. QED
      BY <3>1, <3>2, <3>3
  <2>5. QED
    BY <1>2, <1>3, <2>1, <2>3, <2>4 DEF Spends
<1>6. CASE q = r /\ ~Clear(r) /\ ~SaveRead(r) /\ ~Pass(r) /\ ~Age(r)
  <2>1. goal'[r] # "clear"
    <3>1. CASE Request(r)
      BY <1>6, <1>b, <3>1 DEF Request, Load, DeleteSessions, UpdateUser, DeleteUser,
         DeleteWithTempToken, Arrive, Save, Shape, Saving
    <3>2. CASE LockFind(r) \/ LockInsert(r)
      BY <1>6, <3>2, LockEffect DEF LockFind, LockInsert, Shape, Saving
    <3>3. CASE Verified(r) \/ Locked(r) \/ Mismatch(r) \/ Record(r) \/ Count(r)
            \/ TempUser(r) \/ NothingDeleted(r) \/ Delete(r) \/ Reject(r) \/ Fail(r)
      <4>1. \/ goal' = goal /\ pc[r] \notin Saving
            \/ goal'[r] = "none"
        BY <1>b, <3>3 DEF Verified, Locked, Mismatch, Record, Count, TempUser,
           NothingDeleted, Delete, Reject, Fail, Answer, Saving
      <4>2. QED
        BY <4>1 DEF Shape
    <3>4. CASE ResolveFind(r) \/ LimitInsert(r)
      BY <1>b, <3>4 DEF ResolveFind, LimitInsert, Save, Shape, Saving
    <3>5. CASE SaveWrite(r)
      BY <1>b, <3>5 DEF SaveWrite, After, Answer
    <3>6. QED
      BY <1>6, <3>1, <3>2, <3>3, <3>4, <3>5 DEF Step
  <2>2. QED
    BY <1>2, <2>1 DEF Spends
<1>7. CASE q # r \/ Pass(q) \/ Age(q)
  <2>1. /\ pc'[r] = pc[r] /\ goal'[r] = goal[r] /\ mem'[r] = mem[r]
        /\ dirty'[r] = dirty[r]
    BY <1>7, <1>a DEF Others, Pass, Age
  <2>2. QED
    BY <1>2, <1>3, <2>1 DEF Spends
<1>8. QED
  BY <1>4, <1>5, <1>6, <1>7

\* After that save the token is worth nothing.
LEMMA SpentWrite ==
  ASSUME Shape, Shape', TokenShape, TokenShape', SignShape, [Next]_vars,
         NEW r \in Req, NEW t \in Req,
         Spends(r, t), goal[r] = "clear", SaveWrite(r)
  PROVE  ~(t \in ActiveOf("limit") /\ state[t].token = t)'
<1>1. IsLimit(t) /\ pc[r] = "saveWrite" /\ UNCHANGED passed
  BY SaveWriteEffect DEF Spends, SignShape
<1>2. IsLimit(t)' /\ Pair(t, state'[t])
  BY <1>1, SaveWriteEffect DEF IsLimit, TokenShape
<1>3. mem[r].states[t].resolved \/ t \in passed
  BY <1>1 DEF Spends, TokenShape, Fits
<1>4. state'[t].resolved \/ t \in passed
  BY <1>1, <1>3, SaveWriteEffect DEF Spends, IsLimit
<1>5. QED
  BY <1>1, <1>2, <1>4, NoneAssumption DEF ActiveOf, IsActive, Pair

-----------------------------------------------------------------------------
(* A locked account stays locked for requests to come. *)

\* d sets or has set the end of a lock, and will not insert a state of another name.
LockDate(d) ==
    IF Stored(d) THEN state[d].name = "lock"
                 ELSE pc[d] \in Answered \/ goal[d] = "lock"

LockRow(e) == ~e.resolved /\ (e.expires = None \/ LockDate(e.expires))

\* A lock is never resolved, and its end is one that was set for a lock.
LockDates ==
    \A s \in Req : IsLock(s) =>
        /\ LockRow(state[s])
        /\ \A r \in Req : mem[r].states[s] # None => LockRow(mem[r].states[s])

LEMMA LockDateStep ==
  ASSUME Shape, [Next]_vars, NEW d \in Req, LockDate(d)
  PROVE  LockDate(d)'
<1>1. CASE UNCHANGED vars
  BY <1>1 DEF vars, LockDate, Stored
<1>2. CASE Stored(d)
  BY <1>2, RowStep DEF LockDate
<1>3. CASE ~Stored(d) /\ ~UNCHANGED vars
  <2>1. pc[d] \in Answered \/ goal[d] = "lock"
    BY <1>3 DEF LockDate
  <2>2. pc[d] \notin {"lockInsert", "limitInsert"}
    BY <2>1 DEF Answered, Shape, Saving
  <2>3. ~Stored(d)'
    <3>1. ASSUME NEW r \in Req, LockInsert(r) \/ LimitInsert(r)
          PROVE  ~Stored(d)'
      <4>1. r # d /\ \A s \in Req \ {r} : state'[s] = state[s]
        BY <2>2, <3>1 DEF LockInsert, LimitInsert, Shape, TypeOK
      <4>2. QED
        BY <1>3, <4>1 DEF Stored
    <3>2. QED
      BY <1>3, <3>1, StateStep, SaveWriteEffect DEF Stored
  <2>4. pc'[d] \in Answered \/ goal'[d] = "lock"
    <3>1. PICK r \in Req : Request(r) \/ Step(r) \/ Fail(r) \/ Pass(r) \/ Age(r)
      BY <1>3 DEF Next
    <3>2. CASE r # d
      BY <2>1, <3>1, <3>2, OthersStay DEF Others
    <3>3. CASE r = d /\ pc[d] \in Answered
      <4>1. CASE Pass(r) \/ Age(r)
        BY <3>3, <4>1 DEF Pass, Age
      <4>2. CASE Request(r) \/ Step(r) \/ Fail(r)
        <5>1. pc[r] \in {"idle"} \cup Working
          BY <4>2 DEF Request, Load, DeleteSessions, UpdateUser, DeleteUser,
             DeleteWithTempToken, Arrive, Step, Fail, InFlight, Verified, Locked, Mismatch,
             Record, Count, LockFind, LockInsert, ResolveFind, LimitInsert, TempUser,
             NothingDeleted, Clear, Delete, SaveRead, SaveWrite, Reject, Working
        <5>2. QED
          BY <3>3, <5>1 DEF Answered, Working
      <4>3. QED
        BY <3>1, <4>1, <4>2
    <3>4. CASE r = d /\ goal[d] = "lock"
      <4>1. pc[d] \in Saving
        BY <3>4 DEF Shape
      <4>2. SaveRead(r) \/ SaveWrite(r) \/ Reject(r) \/ Fail(r) \/ Pass(r) \/ Age(r)
        BY <3>1, <3>4, <4>1 DEF Saving, Request, Load, DeleteSessions, UpdateUser, DeleteUser,
           DeleteWithTempToken, Arrive, Step, Verified, Locked, Mismatch, Record, Count,
           LockFind, LockInsert, ResolveFind, LimitInsert, TempUser, NothingDeleted, Clear,
           Delete
      <4>3. CASE SaveRead(r) \/ Pass(r) \/ Age(r)
        BY <3>4, <4>3, SaveReadEffect DEF Pass, Age
      <4>4. CASE SaveWrite(r) \/ Reject(r) \/ Fail(r)
        <5>1. PICK outcome \in {"refused", "rejected", "failed"} : Answer(r, outcome)
          BY <3>4, <4>4, SaveWriteEffect DEF Reject, Fail, After
        <5>2. pc'[r] = outcome
          BY <5>1 DEF Answer, Goto, Shape, TypeOK
        <5>3. QED
          BY <3>4, <5>2 DEF Answered
      <4>5. QED
        BY <4>2, <4>3, <4>4
    <3>5. QED
      BY <2>1, <3>2, <3>3, <3>4
  <2>5. QED
    BY <2>3, <2>4 DEF LockDate
<1>4. QED
  BY <1>1, <1>2, <1>3

\* LockDate and LockRow in the next state, of a date and an entity in this one.
LockDateNext(d) ==
    IF state'[d] # None THEN state'[d].name = "lock"
                        ELSE pc'[d] \in Answered \/ goal'[d] = "lock"

LockRowNext(e) == ~e.resolved /\ (e.expires = None \/ LockDateNext(e.expires))

LEMMA LockRowStep ==
  ASSUME Shape, [Next]_vars, NEW e \in StateRow, LockRow(e)
  PROVE  LockRowNext(e)
<1>1. e.expires \in Req \cup {None}
  BY DEF StateRow
<1>2. QED
  BY <1>1, LockDateStep DEF LockRow, LockRowNext, LockDate, LockDateNext, Stored

LEMMA LockDatesStep ==
  ASSUME Shape, Shape', LockDates, [Next]_vars, NEW r \in Req, Others(r),
         \A s \in Req : IsLock(s)' =>
           /\ \/ state'[s] = state[s] /\ IsLock(s)
              \/ LockRowNext(state'[s])
           /\ mem'[r].states[s] # None =>
                \/ mem'[r].states[s] \in {mem[r].states[s], state[s]}
                \/ LockRowNext(mem'[r].states[s])
  PROVE  LockDates'
<1> SUFFICES ASSUME NEW s \in Req, IsLock(s)'
             PROVE  /\ LockRowNext(state'[s])
                    /\ \A q \in Req : mem'[q].states[s] # None =>
                         LockRowNext(mem'[q].states[s])
  BY DEF LockDates, LockRow, LockRowNext, LockDate, LockDateNext, Stored
<1>1. IsLock(s) => state[s] \in StateRow /\ LockRowNext(state[s])
  BY LockRowStep DEF LockDates, IsLock, Stored, Shape, TypeOK
<1>2. ASSUME NEW q \in Req, mem[q].states[s] # None
      PROVE  LockRowNext(mem[q].states[s])
  <2>1. IsLock(s)
    BY <1>2, RowStep DEF Shape, IsLock
  <2>2. mem[q].states[s] \in StateRow
    BY <1>2, MemoryType DEF Shape, TypeOK
  <2>3. QED
    BY <1>2, <2>1, <2>2, LockRowStep DEF LockDates
<1>3. LockRowNext(state'[s])
  BY <1>1
<1>4. ASSUME NEW q \in Req, mem'[q].states[s] # None
      PROVE  LockRowNext(mem'[q].states[s])
  <2>1. CASE q # r
    BY <1>2, <1>4, <2>1 DEF Others
  <2>2. CASE q = r
    <3>1. CASE mem'[r].states[s] = mem[r].states[s]
      BY <1>2, <1>4, <2>2, <3>1
    <3>2. CASE mem'[r].states[s] = state[s]
      BY <1>1, <1>4, <2>2, <3>2, RowStep DEF IsLock, Stored
    <3>3. QED
      BY <1>4, <2>2, <3>1, <3>2
  <2>3. QED
    BY <2>1, <2>2
<1>5. QED
  BY <1>3, <1>4

LEMMA NextLockDates ==
  ASSUME Shape, Shape', LockDates, [Next]_vars
  PROVE  LockDates'
<1>1. CASE UNCHANGED vars
  BY <1>1 DEF vars, LockDates, LockRow, LockDate, IsLock, Stored
<1> SUFFICES ASSUME NEW r \in Req, Request(r) \/ Step(r) \/ Fail(r) \/ Pass(r) \/ Age(r)
             PROVE  LockDates'
  BY <1>1 DEF Next
<1>a. Others(r)
  BY OthersStay
<1>b. UNCHANGED state => \A s \in Req : IsLock(s)' => IsLock(s) /\ state'[s] = state[s]
  BY DEF IsLock, Stored
<1>c. mem \in [Req -> Memory] /\ goal \in [Req -> Goal] /\ pc \in [Req -> Phase]
  BY DEF Shape, TypeOK
<1>2. CASE Request(r) \/ Verified(r) \/ Locked(r) \/ Mismatch(r) \/ Record(r) \/ Count(r)
        \/ TempUser(r) \/ NothingDeleted(r) \/ Delete(r) \/ Reject(r) \/ Fail(r)
        \/ SaveRead(r) \/ Pass(r) \/ Age(r)
  <2>1. UNCHANGED state
    BY <1>2, SaveReadEffect DEF Request, Load, DeleteSessions, UpdateUser, DeleteUser,
       DeleteWithTempToken, Verified, Locked, Mismatch, Record, Count, TempUser,
       NothingDeleted, Delete, Reject, Fail, Pass, Age
  <2>2. \/ mem'[r] = mem[r] \/ mem'[r].states \in {state, NoStates} \/ mem'[r] = Nothing
    <3>1. CASE Request(r)
      BY <1>c, <3>1 DEF Request, Load, DeleteSessions, UpdateUser, DeleteUser,
         DeleteWithTempToken, Keep, Save, UserWithStates
    <3>2. CASE ~Request(r)
      BY <1>2, <1>c, <3>2, SaveReadEffect DEF Verified, Locked, Mismatch, Record, Count,
         TempUser, NothingDeleted, Delete, Reject, Fail, Pass, Age, Answer, Keep
    <3>3. QED
      BY <3>1, <3>2
  <2>3. \A s \in Req : mem'[r].states[s] # None =>
           mem'[r].states[s] \in {mem[r].states[s], state[s]}
    BY <2>2, NothingType DEF NoStates
  <2>4. QED
    BY <1>a, <1>b, <2>1, <2>3, LockDatesStep
<1>3. CASE LockFind(r) \/ LockInsert(r)
  <2>1. \/ UNCHANGED state
        \/ /\ state'[r].resolved = FALSE /\ state'[r].expires = None
           /\ \A s \in Req \ {r} : state'[s] = state[s]
    BY <1>3 DEF LockFind, LockInsert, Shape, TypeOK
  <2>2. \A s \in Req : IsLock(s)' =>
           \/ state'[s] = state[s] /\ IsLock(s)
           \/ LockRowNext(state'[s])
    BY <2>1 DEF LockRowNext, IsLock, Stored
  <2>3. CASE UNCHANGED <<goal, mem>>
    BY <1>a, <2>2, <2>3, LockDatesStep
  <2>4. ASSUME goal'[r] = "lock", NEW t \in Req, IsLock(t)',
               \A s \in Req \ {t} : mem'[r].states[s] = mem[r].states[s],
               \/ mem'[r].states[t] = mem[r].states[t]
               \/ /\ mem'[r].states[t].expires = r
                  /\ mem'[r].states[t].resolved => Stored(t) /\ state[t].resolved
        PROVE  LockDates'
    <3>1. LockDate(r)'
      <4>1. ~Stored(r)
        BY <1>3 DEF LockFind, LockInsert, Shape, Answered, Saving
      <4>2. Stored(r)' => state'[r].name = "lock"
        BY <1>3, <4>1 DEF LockFind, LockInsert, Stored, Shape, TypeOK
      <4>3. QED
        BY <2>4, <4>2 DEF LockDate
    <3>2. Stored(t) => ~state[t].resolved
      BY <2>4, RowStep DEF LockDates, LockRow, IsLock
    <3>3. mem'[r].states[t] = mem[r].states[t] \/ LockRowNext(mem'[r].states[t])
      BY <2>4, <3>1, <3>2 DEF LockRowNext, LockDate, LockDateNext, Stored
    <3>4. QED
      BY <1>a, <2>2, <2>4, <3>3, LockDatesStep
  <2>5. QED
    BY <1>3, <2>3, <2>4, LockEffect
<1>4. CASE ResolveFind(r)
  <2>1. UNCHANGED state
    BY <1>4 DEF ResolveFind
  <2>2. CASE ActiveOf("limit") = {}
    <3>1. mem'[r] = Nothing
      BY <1>4, <1>c, <2>2 DEF ResolveFind, Keep
    <3>2. QED
      BY <1>a, <1>b, <2>1, <3>1, NothingType, LockDatesStep
  <2>3. CASE ActiveOf("limit") # {}
    <3> DEFINE res == Resolved(ActiveOf("limit"), NoStates)
    <3>1. res = [s \in Req |->
                   IF s \in ActiveOf("limit")
                   THEN [name |-> "limit", expires |-> state[s].expires,
                         resolved |-> TRUE, token |-> state[s].token]
                   ELSE None]
      BY DEF Resolved, NoStates
    <3>2. Save(r, [user |-> None, related |-> FALSE, states |-> res], "resolve")
      BY <1>4, <2>3, <3>1 DEF ResolveFind
    <3>3. \A s \in Req : IsLock(s) => res[s] = None
      BY DEF Resolved, NoStates, ActiveOf, IsLock
    <3> HIDE DEF res
    <3>4. mem'[r].states = res
      BY <1>c, <3>2 DEF Save, Keep
    <3>5. QED
      BY <1>a, <1>b, <2>1, <3>3, <3>4, LockDatesStep
  <2>4. QED
    BY <2>2, <2>3
<1>5. CASE LimitInsert(r)
  <2> DEFINE row == [name |-> "limit", expires |-> None, resolved |-> FALSE,
                     token |-> None]
             signed == [name |-> "limit", expires |-> r, resolved |-> FALSE,
                        token |-> r]
  <2>1. /\ state' = [state EXCEPT ![r] = row]
        /\ mem'[r].states = [NoStates EXCEPT ![r] = signed]
    BY <1>5, <1>c DEF LimitInsert, Save, Keep
  <2>2. row.name = "limit"
    OBVIOUS
  <2> HIDE DEF row, signed
  <2>3. state'[r].name = "limit" /\ \A s \in Req \ {r} : state'[s] = state[s]
    BY <2>1, <2>2 DEF Shape, TypeOK
  <2>4. \A s \in Req \ {r} : mem'[r].states[s] = None
    BY <2>1 DEF NoStates
  <2>5. \A s \in Req : IsLock(s)' => s # r /\ IsLock(s) /\ state'[s] = state[s]
    BY <2>3 DEF IsLock, Stored
  <2>6. QED
    BY <1>a, <2>4, <2>5, LockDatesStep
<1>6. CASE Clear(r)
  <2>1. UNCHANGED state
    BY <1>6 DEF Clear
  <2>2. CASE user.deleted
    <3>1. mem'[r] = Nothing
      BY <1>6, <1>c, <2>2 DEF Clear, Answer, Keep
    <3>2. QED
      BY <1>a, <1>b, <2>1, <3>1, NothingType, LockDatesStep
  <2>3. CASE ~user.deleted
    <3> DEFINE res == Resolved(ActiveOf("limit"), state)
    <3>1. mem'[r].states = res
      BY <1>6, <1>c, <2>3 DEF Clear, Save, Keep, Resolved
    <3>2. \A s \in Req : IsLock(s) => res[s] = state[s]
      BY DEF Resolved, ActiveOf, IsLock
    <3>3. QED
      BY <1>a, <1>b, <2>1, <3>1, <3>2, LockDatesStep
  <2>4. QED
    BY <2>2, <2>3
<1>7. CASE SaveWrite(r)
  <2>1. mem'[r] = Nothing
    BY <1>7, <1>c, SaveWriteEffect DEF After, Answer, Keep
  <2>2. ASSUME NEW s \in Req, IsLock(s)'
        PROVE  LockRowNext(state'[s])
    <3>1. IsLock(s) /\ state[s] \in StateRow
      BY <1>7, <2>2, SaveWriteEffect DEF IsLock, Stored, Shape, TypeOK
    <3>2. LockRowNext(state[s])
      BY <3>1, LockRowStep DEF LockDates
    <3>3. \A c \in StateColumn : <<s, c>> \in dirty[r] =>
             LockRowNext(mem[r].states[s])
      <4>1. mem[r].states[s] # None => mem[r].states[s] \in StateRow
        BY MemoryType DEF Shape, TypeOK
      <4>2. mem[r].states[s] # None => LockRowNext(mem[r].states[s])
        BY <3>1, <4>1, LockRowStep DEF LockDates
      <4>3. QED
        BY <4>2 DEF Shape
    <3>4. Stored(s)
      BY <3>1 DEF IsLock
    <3>5. QED
      BY <1>7, <3>2, <3>3, <3>4, SaveWriteEffect DEF LockRowNext, StateColumn
  <2>3. QED
    BY <1>a, <2>1, <2>2, NothingType, LockDatesStep
<1>8. QED
  BY <1>2, <1>3, <1>4, <1>5, <1>6, <1>7 DEF Step

\* The end of a lock has passed, and it remains one of a lock.
Ended == \E d \in passed : LockDate(d)

\* A request that does not come to be let through any more.
Closed(r) ==
    /\ pc[r] \notin {"idle", "verify", "resolveFind", "limitInsert", "granted", "limited"}
    /\ goal[r] \notin {"resolve", "token"}

\* What holds of a request that was still to come when there was a lock.
KeptOut(r) ==
    /\ SomeLock
    /\ \/ Ended
       \/ pc[r] = "idle"
       \/ pc[r] = "verify" /\ \E s \in Req : IsLock(s) /\ mem[r].states[s] # None
       \/ Closed(r)

LEMMA EndedStep ==
  ASSUME Shape, Ended, [Next]_vars
  PROVE  Ended'
<1>1. passed \subseteq passed' /\ passed \subseteq Req
  <2>1. CASE UNCHANGED vars
    BY <2>1 DEF vars, Shape, TypeOK
  <2>2. ASSUME NEW r \in Req, Request(r)
        PROVE  UNCHANGED passed
    BY <2>2 DEF Request, Load, DeleteSessions, UpdateUser, DeleteUser, DeleteWithTempToken
  <2>3. ASSUME NEW r \in Req, Step(r)
        PROVE  UNCHANGED passed
    BY <2>3, LockEffect, SaveReadEffect, SaveWriteEffect DEF Step, Verified, Locked, Mismatch,
       Record, Count, ResolveFind, LimitInsert, TempUser, NothingDeleted, Clear, Delete, Reject
  <2>4. ASSUME NEW r \in Req, Fail(r) \/ Pass(r) \/ Age(r)
        PROVE  passed \subseteq passed'
    BY <2>4 DEF Fail, Pass, Age
  <2>5. QED
    BY <2>1, <2>2, <2>3, <2>4 DEF Next, Shape, TypeOK
<1>2. QED
  BY <1>1, LockDateStep DEF Ended

\* Of a request that loaded the lock: its end has not passed, so it is active.
LEMMA LoadedLock ==
  ASSUME Shape, LockDates, ~Ended, NEW r \in Req, NEW s \in Req, IsLock(s),
         mem[r].states[s] # None
  PROVE  HasState(mem[r], "lock")
<1>1. mem[r].states[s].name = "lock" /\ LockRow(mem[r].states[s])
  BY DEF Shape, IsLock, LockDates
<1>2. IsActive(mem[r].states[s])
  BY <1>1 DEF IsActive, LockRow, Ended
<1>3. QED
  BY <1>1, <1>2 DEF HasState

LEMMA NextKeptOut ==
  ASSUME Shape, Shape', LockDates, [Next]_vars, NEW r \in Req, KeptOut(r)
  PROVE  KeptOut(r)'
<1>1. SomeLock' /\ \A s \in Req : IsLock(s) => IsLock(s)'
  BY RowStep DEF SomeLock, KeptOut
<1>2. CASE Ended
  BY <1>1, <1>2, EndedStep DEF KeptOut
<1>3. CASE UNCHANGED <<pc[r], goal[r], mem[r]>>
  <2>1. CASE Ended
    BY <1>2, <2>1
  <2>2. CASE ~Ended
    BY <1>1, <1>3, <2>2 DEF KeptOut, Closed
  <2>3. QED
    BY <2>1, <2>2
<1>4. CASE ~Ended /\ ~UNCHANGED <<pc[r], goal[r], mem[r]>>
  <2>1. PICK q \in Req : Request(q) \/ Step(q) \/ Fail(q) \/ Pass(q) \/ Age(q)
    BY <1>4 DEF Next, vars
  <2>2. q = r
    BY <1>4, <2>1, OthersStay DEF Others
  <2>a. pc \in [Req -> Phase] /\ goal \in [Req -> Goal] /\ mem \in [Req -> Memory]
    BY DEF Shape, TypeOK
  <2>b. pc[r] \notin Saving => goal[r] = "none"
    BY DEF Shape
  <2>3. CASE Load(r)
    <3>1. pc'[r] = "verify" /\ mem'[r].states = state
      BY <2>3, <2>a DEF Load, Goto, Keep, UserWithStates
    <3>2. PICK s \in Req : IsLock(s)
      BY DEF KeptOut, SomeLock
    <3>3. IsLock(s)' /\ mem'[r].states[s] # None
      BY <1>1, <3>1, <3>2 DEF IsLock, Stored
    <3>4. QED
      BY <1>1, <3>1, <3>3 DEF KeptOut
  <2>4. CASE Request(r) /\ ~Load(r)
    <3>1. pc'[r] \in {"clear", "saveRead", "delete", "tempUser"}
          /\ (goal' = goal \/ goal'[r] = "update") /\ pc[r] = "idle"
      BY <2>4, <2>a DEF Request, DeleteSessions, UpdateUser, DeleteUser, DeleteWithTempToken,
         Arrive, Goto, Save
    <3>2. Closed(r)'
      BY <2>b, <3>1 DEF Closed, Saving
    <3>3. QED
      BY <1>1, <3>2 DEF KeptOut
  <2>5. CASE Verified(r)
    BY <1>4, <2>5, LoadedLock DEF Verified, KeptOut, Closed
  <2>6. CASE Locked(r) \/ Mismatch(r) \/ Record(r) \/ Count(r) \/ TempUser(r)
          \/ NothingDeleted(r) \/ Clear(r) \/ Delete(r) \/ Reject(r) \/ Fail(r)
    <3>1. pc'[r] \in {"record", "count", "lockFind", "clear", "saveRead",
                      "refused", "done", "rejected", "failed"}
      BY <2>6, <2>a DEF Locked, Mismatch, Record, Count, TempUser, NothingDeleted, Clear,
         Delete, Reject, Fail, Answer, Goto, Save
    <3>2. \/ goal' = goal /\ pc[r] \notin Saving
          \/ goal'[r] \in {"none", "clear"}
      BY <2>6, <2>a DEF Locked, Mismatch, Record, Count, TempUser, NothingDeleted, Clear,
         Delete, Reject, Fail, Answer, Save, Saving
    <3>3. Closed(r)'
      BY <2>b, <3>1, <3>2 DEF Closed
    <3>4. QED
      BY <1>1, <3>3 DEF KeptOut
  <2>7. CASE LockFind(r) \/ LockInsert(r)
    <3>1. pc'[r] \in {"lockInsert", "saveRead"}
      BY <2>7, <2>a, LockSteps DEF Save, Goto
    <3>2. goal'[r] \in {"none", "lock"}
      BY <2>7, <2>b, LockEffect DEF LockFind, LockInsert, Saving
    <3>3. QED
      BY <1>1, <3>1, <3>2 DEF KeptOut, Closed
  <2>8. CASE ResolveFind(r) \/ LimitInsert(r)
    BY <1>4, <2>8 DEF ResolveFind, LimitInsert, KeptOut, Closed
  <2>9. CASE SaveRead(r)
    <3>1. pc'[r] \in {"saveWrite", "reject"} /\ goal' = goal /\ pc[r] = "saveRead"
      BY <2>9, <2>a, SaveReadEffect
    <3>2. QED
      BY <1>1, <1>4, <3>1 DEF KeptOut, Closed
  <2>10. CASE SaveWrite(r)
    <3>1. pc[r] = "saveWrite" /\ Closed(r)
      BY <1>4, <2>10, SaveWriteEffect DEF KeptOut
    <3>2. Answer(r, "refused") \/ Answer(r, "done")
      BY <2>10, <3>1, SaveWriteEffect DEF Closed, After
    <3>3. QED
      BY <1>1, <2>a, <3>2 DEF Answer, Goto, KeptOut, Closed
  <2>11. CASE Pass(r) \/ Age(r)
    BY <1>4, <2>11 DEF Pass, Age
  <2>12. QED
    BY <2>1, <2>2, <2>3, <2>4, <2>5, <2>6, <2>7, <2>8, <2>9, <2>10, <2>11 DEF Step
<1>5. QED
  BY <1>2, <1>3, <1>4

LEMMA InitLockDates == Init => LockDates
BY DEF Init, LockDates, IsLock, Stored, NoStates

\* Once there is a lock, no request to come is let through before the end of a
\* lock, whatever stale saves do to the lock in between.
THEOREM LockedStaysOut == Spec => LockKeepsOut
<1>1. SUFFICES ASSUME NEW r \in Req, NEW s \in Req
               PROVE  Spec => [](IsLock(s) /\ pc[r] = "idle" =>
                                   [](pc[r] \in {"granted", "limited"} => SomeLockEnded))
  BY DEF LockKeepsOut
<1>2. IsLock(s) /\ pc[r] = "idle" => KeptOut(r)
  BY DEF KeptOut, SomeLock
<1>3. KeptOut(r) => (pc[r] \in {"granted", "limited"} => SomeLockEnded)
  BY DEF KeptOut, Closed, Ended, SomeLockEnded, LockDate
<1>4. Shape /\ Shape' /\ LockDates /\ [Next]_vars => LockDates'
  BY NextLockDates
<1>5. Shape /\ Shape' /\ LockDates /\ KeptOut(r) /\ [Next]_vars => KeptOut(r)'
  BY NextKeptOut
<1>6. Spec => []LockDates
  BY <1>4, InitLockDates, ShapeInvariant, PTL DEF Spec
<1>7. QED
  BY <1>2, <1>3, <1>5, <1>6, ShapeInvariant, PTL DEF Spec

=============================================================================
