---------------------------- MODULE OutboxProofs ----------------------------
(***************************************************************************)
(* Proofs about Outbox, for any events, batches and limits: an event is in *)
(* the hands of one batch, and the table implements EventDelivery.         *)
(***************************************************************************)
EXTENDS Outbox, TLAPS

\* The row r and the entity x of an event in the hands of a batch in phase p:
\* locked and unchanged until the claim is committed, then marked and counted.
Held(p, r, x) ==
    /\ r \in Row
    /\ p # "idle"
    /\ p = "claiming" => /\ r.status = "pending"
                         /\ r.available = "due"
                         /\ x = Claimed(r)
    /\ p # "claiming" => /\ r.status = "processing"
                         /\ x.attempts = r.attempts

\* The entity n and the columns d a batch in phase p will save over the row r.
ToSave(p, r, n, d) ==
    /\ p \in {"saveRead", "saveWrite"} =>
         /\ n \in Row
         /\ n.attempts = r.attempts
         /\ n.status # "processing"
         /\ n.status = "pending" => n.attempts < MaxAttempts
    /\ p = "saveWrite" => "status" \in d

\* A pending event has an attempt left.
TriesLeft ==
    \A e \in Event : Stored(e) /\ row[e].status = "pending"
                       => row[e].attempts < MaxAttempts

\* One batch only has the event, and its row is as that batch expects.
Hands ==
    \A b \in Batch, e \in Event : hand[b][e] # None =>
        /\ Held(pc[b], row[e], hand[b][e])
        /\ \A c \in Batch : hand[c][e] # None => c = b

Saves ==
    \A b \in Batch, e \in Event :
        At(b, e) => ToSave(pc[b], row[e], entity[b], dirty[b])

\* The inductive invariant.
IInv == TypeOK /\ TriesLeft /\ Hands /\ Saves

-----------------------------------------------------------------------------
(* What the changes to an entity do to its columns. *)

LEMMA RowFields ==
  ASSUME NEW r \in Row
  PROVE  /\ r = [status |-> r.status, attempts |-> r.attempts,
                 available |-> r.available]
         /\ r.status \in Status
         /\ r.attempts \in Nat
         /\ r.available \in Availability
         /\ DOMAIN r = Column
BY DEF Row, Column

LEMMA ClaimedRow ==
  ASSUME NEW r \in Row
  PROVE  /\ Claimed(r) \in Row
         /\ Claimed(r).status = "processing"
         /\ Claimed(r).attempts = r.attempts + 1
BY RowFields DEF Claimed, Row, Status

LEMMA EntityRow ==
  ASSUME NEW r \in Row
  PROVE  /\ Completed(r) \in Row
         /\ Completed(r).status = "completed"
         /\ Completed(r).attempts = r.attempts
         /\ \A available \in Availability :
              /\ DeadLetter(r, available) \in Row
              /\ DeadLetter(r, available).status = "dead_letter"
              /\ DeadLetter(r, available).attempts = r.attempts
BY RowFields DEF Completed, DeadLetter, Row, Status

LEMMA FailedRow ==
  ASSUME NEW r \in Row, NEW fatal \in BOOLEAN
  PROVE  /\ Failed(r, fatal) \in Row
         /\ Failed(r, fatal).status \in {"pending", "dead_letter"}
         /\ Failed(r, fatal).attempts = r.attempts
         /\ Failed(r, fatal).status = "pending" => r.attempts < MaxAttempts
<1>1. NextTry(r) \in Availability
  BY DEF NextTry, Availability
<1>2. CASE fatal \/ NextTry(r) = None
  BY <1>1, <1>2, EntityRow DEF Failed
<1>3. CASE ~(fatal \/ NextTry(r) = None)
  <2>1. r.attempts < MaxAttempts
    BY <1>3, RowFields, LimitAssumption DEF NextTry
  <2>2. Failed(r, fatal) = [status |-> "pending", attempts |-> r.attempts,
                            available |-> NextTry(r)]
    BY <1>3 DEF Failed
  <2>3. QED
    BY <1>1, <2>1, <2>2, RowFields DEF Row, Status
<1>4. QED
  BY <1>2, <1>3

LEMMA UpdatedRow ==
  ASSUME NEW old \in Row, NEW new \in Row, NEW columns \in SUBSET Column
  PROVE  /\ Updated(old, new, columns) \in Row
         /\ Updated(old, new, columns).status =
              IF "status" \in columns THEN new.status ELSE old.status
         /\ Updated(old, new, columns).attempts =
              IF "attempts" \in columns THEN new.attempts ELSE old.attempts
<1>1. Updated(old, new, columns) =
        [status |-> IF "status" \in columns THEN new.status ELSE old.status,
         attempts |-> IF "attempts" \in columns THEN new.attempts
                                                ELSE old.attempts,
         available |-> IF "available" \in columns THEN new.available
                                                  ELSE old.available]
  BY RowFields DEF Updated, Column
<1>2. QED
  BY <1>1, RowFields DEF Row

LEMMA RipenRow ==
  ASSUME NEW old \in Row
  PROVE  LET new == Updated(old, [available |-> "due"], {"available"})
         IN  /\ new \in Row
             /\ new.status = old.status
             /\ new.attempts = old.attempts
             /\ new = [status |-> old.status, attempts |-> old.attempts,
                       available |-> "due"]
<1>1. Updated(old, [available |-> "due"], {"available"}) =
        [status |-> old.status, attempts |-> old.attempts,
         available |-> "due"]
  BY RowFields DEF Updated, Column
<1>2. QED
  BY <1>1, RowFields DEF Row, Availability

-----------------------------------------------------------------------------
(* The invariant is inductive. *)

LEMMA InitInv == Init => IInv
BY DEF Init, IInv, TypeOK, TriesLeft, Hands, Saves, Stored, InHand, At, Phase

\* A step that changes no batch and keeps the status and attempts of the rows
\* in the hands of one.
LEMMA TableStep ==
  ASSUME IInv, NEW e \in Event, NEW new \in Row,
         row' = [row EXCEPT ![e] = new],
         new.attempts <= MaxAttempts,
         new.status = "pending" => new.attempts < MaxAttempts,
         \A b \in Batch : hand[b][e] # None =>
             /\ pc[b] # "claiming"
             /\ new.status = row[e].status
             /\ new.attempts = row[e].attempts,
         UNCHANGED <<pc, hand, entity, dirty>>
  PROVE  IInv'
<1>1. TypeOK'
  BY DEF IInv, TypeOK, Stored
<1>2. TriesLeft'
  BY DEF IInv, TypeOK, TriesLeft, Stored
<1>3. Hands'
  BY DEF IInv, TypeOK, Hands, Held
<1>4. Saves'
  BY DEF IInv, TypeOK, Saves, ToSave, At, InHand
<1>5. QED
  BY <1>1, <1>2, <1>3, <1>4 DEF IInv

\* A step of batch b that changes at most rows in its own hands.
LEMMA BatchStep ==
  ASSUME IInv, NEW b \in Batch, NEW p \in Phase,
         NEW h \in [Event -> Row \cup {None}],
         NEW n \in Row \cup {None}, NEW d \in SUBSET Column,
         pc' = [pc EXCEPT ![b] = p],
         hand' = [hand EXCEPT ![b] = h],
         entity' = [entity EXCEPT ![b] = n],
         dirty' = [dirty EXCEPT ![b] = d],
         row' \in [Event -> Row \cup {None}],
         \A e \in Event : row'[e] # row[e] =>
             /\ hand[b][e] # None
             /\ row'[e] \in Row
             /\ row'[e].attempts <= MaxAttempts
             /\ row'[e].status = "pending" => row'[e].attempts < MaxAttempts,
         \A e \in Event : h[e] # None =>
             /\ Held(p, row'[e], h[e])
             /\ \A c \in Batch \ {b} : hand[c][e] = None,
         \A e \in Event :
             /\ h[e] # None
             /\ \A f \in Event : h[f] # None => e <= f
             => ToSave(p, row'[e], n, d)
  PROVE  IInv'
<1>1. TypeOK'
  BY DEF IInv, TypeOK, Stored
<1>2. TriesLeft'
  BY DEF IInv, TypeOK, TriesLeft, Stored
<1>3. /\ pc'[b] = p /\ hand'[b] = h /\ entity'[b] = n /\ dirty'[b] = d
      /\ \A c \in Batch \ {b} : /\ pc'[c] = pc[c] /\ hand'[c] = hand[c]
                                /\ entity'[c] = entity[c]
                                /\ dirty'[c] = dirty[c]
  BY DEF IInv, TypeOK
<1>4. \A c \in Batch \ {b}, e \in Event : hand[c][e] # None => row'[e] = row[e]
  BY DEF IInv, Hands
<1>5. Hands'
  BY <1>3, <1>4 DEF IInv, Hands
<1>6. Saves'
  BY <1>3, <1>4 DEF IInv, Saves, At, InHand
<1>7. QED
  BY <1>1, <1>2, <1>5, <1>6 DEF IInv

LEMMA CreateInv ==
  ASSUME IInv, NEW e \in Event, Create(e)
  PROVE  IInv'
<1> DEFINE new == [status |-> "pending", attempts |-> 0,
                   available |-> InitialAvailable]
<1>1. /\ new \in Row /\ new.attempts <= MaxAttempts
      /\ new.attempts < MaxAttempts
  BY LimitAssumption DEF Row, Status, Availability
<1>2. \A b \in Batch : hand[b][e] = None
  BY NullAssumption DEF IInv, Hands, Held, Create, Stored
<1>3. row' = [row EXCEPT ![e] = new] /\ UNCHANGED <<pc, hand, entity, dirty>>
  BY DEF Create
<1> HIDE DEF new
<1>4. QED
  BY <1>1, <1>2, <1>3, TableStep

LEMMA RipenInv ==
  ASSUME IInv, NEW e \in Event, Ripen(e)
  PROVE  IInv'
<1> DEFINE new == Updated(row[e], [available |-> "due"], {"available"})
<1>1. row[e] \in Row /\ row[e].attempts <= MaxAttempts
      /\ (row[e].status = "pending" => row[e].attempts < MaxAttempts)
  BY DEF IInv, TypeOK, TriesLeft, Ripen, Stored
<1>2. new \in Row /\ new.status = row[e].status
      /\ new.attempts = row[e].attempts
  BY <1>1, RipenRow
<1>3. row' = [row EXCEPT ![e] = new] /\ UNCHANGED <<pc, hand, entity, dirty>>
  BY DEF Ripen
<1>4. \A b \in Batch : hand[b][e] # None => pc[b] # "claiming"
  BY DEF IInv, Hands, Held, Ripen
<1> HIDE DEF new
<1>5. QED
  BY <1>1, <1>2, <1>3, <1>4, TableStep

LEMMA ClaimReadInv ==
  ASSUME IInv, NEW b \in Batch, ClaimRead(b)
  PROVE  IInv'
<1>1. PICK S \in SUBSET Due :
        hand' = [hand EXCEPT ![b] = [e \in Event |->
                    IF e \in S THEN Claimed(row[e]) ELSE None]]
  BY DEF ClaimRead
<1> DEFINE h == [e \in Event |-> IF e \in S THEN Claimed(row[e]) ELSE None]
<1>2. /\ pc[b] = "idle" /\ pc' = [pc EXCEPT ![b] = "claiming"]
      /\ row' = row
      /\ entity' = [entity EXCEPT ![b] = entity[b]]
      /\ dirty' = [dirty EXCEPT ![b] = dirty[b]]
      /\ hand' = [hand EXCEPT ![b] = h]
  BY <1>1 DEF ClaimRead, Goto, IInv, TypeOK
<1>3. \A e \in S : /\ e \in Event
                   /\ row[e] \in Row /\ e \notin Locked
                   /\ row[e].status = "pending" /\ row[e].available = "due"
                   /\ Claimed(row[e]) \in Row
  BY ClaimedRow DEF Due, IInv, TypeOK, Stored
<1>4. \A e \in Event : /\ h[e] # None <=> e \in S
                       /\ e \in S => h[e] = Claimed(row[e])
  BY <1>3, NullAssumption
<1>5. h \in [Event -> Row \cup {None}]
  BY <1>3
<1>6. ASSUME NEW e \in Event, e \in S, NEW c \in Batch, hand[c][e] # None
      PROVE  FALSE
  <2>1. pc[c] = "claiming"
    BY <1>3, <1>6 DEF IInv, Hands, Held
  <2>2. e \in Locked
    BY <1>6, <2>1 DEF Locked, InHand
  <2>3. QED
    BY <1>3, <1>6, <2>2
<1> HIDE DEF h
<1>7. \A e \in Event : h[e] # None =>
        /\ Held("claiming", row'[e], h[e])
        /\ \A c \in Batch \ {b} : hand[c][e] = None
  BY <1>2, <1>3, <1>4, <1>6 DEF Held
<1>8. \A e \in Event : ToSave("claiming", row'[e], entity[b], dirty[b])
  BY DEF ToSave
<1>9. /\ row' \in [Event -> Row \cup {None}]
      /\ entity[b] \in Row \cup {None} /\ dirty[b] \in SUBSET Column
      /\ "claiming" \in Phase
  BY <1>2 DEF IInv, TypeOK, Phase
<1>10. QED
  BY <1>2, <1>5, <1>7, <1>8, <1>9, BatchStep

LEMMA ClaimWriteInv ==
  ASSUME IInv, NEW b \in Batch, ClaimWrite(b)
  PROVE  IInv'
<1>1. /\ pc[b] = "claiming" /\ pc' = [pc EXCEPT ![b] = "dispatch"]
      /\ hand' = [hand EXCEPT ![b] = hand[b]]
      /\ entity' = [entity EXCEPT ![b] = entity[b]]
      /\ dirty' = [dirty EXCEPT ![b] = dirty[b]]
  BY DEF ClaimWrite, Goto, IInv, TypeOK
<1>2. \A e \in Event : row'[e] = IF hand[b][e] # None THEN hand[b][e]
                                                      ELSE row[e]
  BY DEF ClaimWrite, InHand
<1>3. ASSUME NEW e \in Event, hand[b][e] # None
      PROVE  /\ row'[e] \in Row
             /\ row'[e].status = "processing"
             /\ row'[e].attempts <= MaxAttempts
             /\ hand[b][e].attempts = row'[e].attempts
             /\ \A c \in Batch \ {b} : hand[c][e] = None
  <2>1. /\ row[e] \in Row /\ row[e].attempts < MaxAttempts
        /\ hand[b][e] = Claimed(row[e])
    BY <1>1, <1>3, NullAssumption DEF IInv, Hands, Held, TriesLeft, Stored
  <2>2. row[e].attempts + 1 <= MaxAttempts
    BY <2>1, RowFields, LimitAssumption
  <2>3. \A c \in Batch \ {b} : hand[c][e] = None
    BY <1>3 DEF IInv, Hands
  <2>4. QED
    BY <1>2, <1>3, <2>1, <2>2, <2>3, ClaimedRow
<1>4. row' \in [Event -> Row \cup {None}]
  BY <1>2, <1>3 DEF IInv, TypeOK, ClaimWrite
<1>5. \A e \in Event : hand[b][e] # None =>
        /\ Held("dispatch", row'[e], hand[b][e])
        /\ \A c \in Batch \ {b} : hand[c][e] = None
  BY <1>3 DEF Held
<1>6. \A e \in Event : ToSave("dispatch", row'[e], entity[b], dirty[b])
  BY DEF ToSave
<1>7. /\ hand[b] \in [Event -> Row \cup {None}]
      /\ entity[b] \in Row \cup {None} /\ dirty[b] \in SUBSET Column
      /\ "dispatch" \in Phase
  BY DEF IInv, TypeOK, Phase
<1>8. \A e \in Event : row'[e] # row[e] =>
        /\ hand[b][e] # None
        /\ row'[e] \in Row
        /\ row'[e].attempts <= MaxAttempts
        /\ row'[e].status = "pending" => row'[e].attempts < MaxAttempts
  BY <1>2, <1>3
<1>9. QED
  BY <1>1, <1>4, <1>5, <1>6, <1>7, <1>8, BatchStep

\* A batch between its claim and the save of the event it is at.
LEMMA AtHand ==
  ASSUME IInv, NEW b \in Batch, NEW e \in Event, At(b, e),
         pc[b] # "claiming"
  PROVE  /\ hand[b][e] \in Row /\ hand[b][e] # None
         /\ row[e] \in Row /\ row[e].attempts <= MaxAttempts
         /\ row[e].status = "processing"
         /\ hand[b][e].attempts = row[e].attempts
         /\ \A f \in Event : /\ hand[b][f] # None
                             /\ \A g \in Event : hand[b][g] # None => f <= g
                             => f = e
<1>1. /\ hand[b][e] \in Row /\ hand[b][e] # None
      /\ \A f \in Event : hand[b][f] # None => e <= f
  BY DEF IInv, TypeOK, At, InHand
<1>2. /\ row[e] \in Row /\ row[e].status = "processing"
      /\ hand[b][e].attempts = row[e].attempts
  BY <1>1 DEF IInv, Hands, Held
<1>3. row[e].attempts <= MaxAttempts
  BY <1>2, NullAssumption DEF IInv, TypeOK, Stored
<1>4. QED
  BY <1>1, <1>2, <1>3, EventAssumption

\* A step of a batch over the event it is at that changes no row.
LEMMA QuietStep ==
  ASSUME IInv, NEW b \in Batch, NEW e \in Event, At(b, e),
         pc[b] \in {"dispatch", "handle", "saveRead"},
         NEW p \in {"handle", "saveRead", "saveWrite"},
         NEW n \in Row \cup {None}, NEW d \in SUBSET Column,
         ToSave(p, row[e], n, d),
         pc' = [pc EXCEPT ![b] = p],
         entity' = [entity EXCEPT ![b] = n],
         dirty' = [dirty EXCEPT ![b] = d],
         row' = row, hand' = hand
  PROVE  IInv'
<1>1. hand[b] \in [Event -> Row \cup {None}]
      /\ hand' = [hand EXCEPT ![b] = hand[b]]
      /\ row' \in [Event -> Row \cup {None}]
      /\ p \in Phase
  BY DEF IInv, TypeOK, Phase
<1>2. \A f \in Event : hand[b][f] # None =>
        /\ Held(p, row'[f], hand[b][f])
        /\ \A c \in Batch \ {b} : hand[c][f] = None
  BY DEF IInv, Hands, Held
<1>3. \A f \in Event :
        /\ hand[b][f] # None
        /\ \A g \in Event : hand[b][g] # None => f <= g
        => ToSave(p, row'[f], n, d)
  BY AtHand
<1>4. QED
  BY <1>1, <1>2, <1>3, BatchStep

LEMMA DispatchInv ==
  ASSUME IInv, NEW b \in Batch, NEW e \in Event, Dispatch(b, e)
  PROVE  IInv'
<1>1. /\ At(b, e) /\ pc[b] = "dispatch" /\ row' = row /\ hand' = hand
      /\ dirty' = [dirty EXCEPT ![b] = dirty[b]] /\ dirty[b] \in SUBSET Column
  BY DEF Dispatch, IInv, TypeOK
<1>2. CASE e \in Known
  <2>1. /\ pc' = [pc EXCEPT ![b] = "handle"]
        /\ entity' = [entity EXCEPT ![b] = entity[b]]
        /\ entity[b] \in Row \cup {None}
    BY <1>2 DEF Dispatch, Goto, IInv, TypeOK
  <2>2. ToSave("handle", row[e], entity[b], dirty[b])
    BY DEF ToSave
  <2>3. QED
    BY <1>1, <2>1, <2>2, QuietStep
<1>3. CASE e \notin Known
  <2> DEFINE n == DeadLetter(hand[b][e], hand[b][e].available)
  <2>1. /\ pc' = [pc EXCEPT ![b] = "saveRead"]
        /\ entity' = [entity EXCEPT ![b] = n]
    BY <1>3 DEF Dispatch, Goto
  <2>2. /\ hand[b][e] \in Row /\ hand[b][e].attempts = row[e].attempts
        /\ hand[b][e].available \in Availability
    BY <1>1, AtHand, RowFields
  <2>3. n \in Row /\ n.status = "dead_letter" /\ n.attempts = row[e].attempts
    BY <2>2, EntityRow
  <2> HIDE DEF n
  <2>4. ToSave("saveRead", row[e], n, dirty[b])
    BY <2>3 DEF ToSave
  <2>5. QED
    BY <1>1, <2>1, <2>3, <2>4, QuietStep
<1>4. QED
  BY <1>2, <1>3

LEMMA ReportInv ==
  ASSUME IInv, NEW b \in Batch, NEW e \in Event, NEW verdict \in Verdict,
         Report(b, e, verdict)
  PROVE  IInv'
<1> DEFINE n == IF verdict = "complete" THEN Completed(row[e])
                ELSE Failed(row[e], verdict = "fatal")
<1>1. /\ At(b, e) /\ pc[b] = "handle" /\ row' = row /\ hand' = hand
      /\ dirty' = [dirty EXCEPT ![b] = dirty[b]] /\ dirty[b] \in SUBSET Column
      /\ pc' = [pc EXCEPT ![b] = "saveRead"]
      /\ entity' = [entity EXCEPT ![b] = n]
  BY DEF Report, Goto, IInv, TypeOK
<1>2. row[e] \in Row
  BY <1>1, AtHand
<1>3. /\ n \in Row /\ n.attempts = row[e].attempts
      /\ n.status # "processing"
      /\ n.status = "pending" => n.attempts < MaxAttempts
  <2>1. CASE verdict = "complete"
    BY <1>2, <2>1, EntityRow
  <2>2. CASE verdict # "complete"
    <3>1. (verdict = "fatal") \in BOOLEAN /\ n = Failed(row[e], verdict = "fatal")
      BY <2>2
    <3>2. QED
      BY <1>2, <3>1, FailedRow
  <2>3. QED
    BY <2>1, <2>2
<1> HIDE DEF n
<1>4. ToSave("saveRead", row[e], n, dirty[b])
  BY <1>3 DEF ToSave
<1>5. QED
  BY <1>1, <1>3, <1>4, QuietStep

LEMMA SaveReadInv ==
  ASSUME IInv, NEW b \in Batch, NEW e \in Event, SaveRead(b, e)
  PROVE  IInv'
<1> DEFINE d == Differs(entity[b], row[e])
<1>1. /\ At(b, e) /\ pc[b] = "saveRead" /\ row' = row /\ hand' = hand
      /\ entity' = [entity EXCEPT ![b] = entity[b]]
      /\ pc' = [pc EXCEPT ![b] = "saveWrite"]
      /\ dirty' = [dirty EXCEPT ![b] = d]
  BY DEF SaveRead, Goto, IInv, TypeOK
<1>2. row[e] \in Row /\ row[e].status = "processing"
  BY <1>1, AtHand
<1>3. ToSave("saveRead", row[e], entity[b], dirty[b])
  BY <1>1 DEF IInv, Saves
<1>4. ToSave("saveWrite", row[e], entity[b], d) /\ d \in SUBSET Column
  BY <1>2, <1>3 DEF ToSave, Differs, Column
<1> HIDE DEF d
<1>5. entity[b] \in Row \cup {None}
  BY DEF IInv, TypeOK
<1>6. QED
  BY <1>1, <1>4, <1>5, QuietStep

\* A batch leaves the event it is at.  Its row may get a new status, with the
\* same number of attempts.
LEMMA LeaveStep ==
  ASSUME IInv, NEW b \in Batch, NEW e \in Event, At(b, e),
         pc[b] # "claiming",
         Leave(b, e),
         NEW r \in Row, row' = [row EXCEPT ![e] = r],
         r.attempts = row[e].attempts,
         r.status = "pending" => r.attempts < MaxAttempts
  PROVE  IInv'
<1> DEFINE h == [hand[b] EXCEPT ![e] = None]
           p == IF InHand(b) = {e} THEN "idle" ELSE "dispatch"
<1>1. /\ hand[b] \in [Event -> Row \cup {None}]
      /\ hand[b][e] # None /\ row[e] \in Row
      /\ row[e].attempts <= MaxAttempts
  BY AtHand DEF IInv, TypeOK
<1>2. /\ pc' = [pc EXCEPT ![b] = p]
      /\ hand' = [hand EXCEPT ![b] = h]
      /\ entity' = [entity EXCEPT ![b] = None]
      /\ dirty' = [dirty EXCEPT ![b] = {}]
  BY DEF Leave, Goto, IInv, TypeOK
<1>3. h \in [Event -> Row \cup {None}] /\ p \in Phase
  BY <1>1 DEF Phase
<1>4. row' \in [Event -> Row \cup {None}]
  BY DEF IInv, TypeOK
<1>5. \A f \in Event : row'[f] # row[f] =>
        /\ hand[b][f] # None
        /\ row'[f] \in Row
        /\ row'[f].attempts <= MaxAttempts
        /\ row'[f].status = "pending" => row'[f].attempts < MaxAttempts
  BY <1>1 DEF IInv, TypeOK
<1>6. ASSUME NEW f \in Event, h[f] # None
      PROVE  /\ Held(p, row'[f], h[f])
             /\ \A c \in Batch \ {b} : hand[c][f] = None
  <2>1. f # e /\ h[f] = hand[b][f]
    BY <1>1, <1>6
  <2>2. row'[f] = row[f]
    BY <2>1 DEF IInv, TypeOK
  <2>3. p = "dispatch"
    BY <1>6, <2>1 DEF InHand
  <2>4. Held(pc[b], row[f], hand[b][f]) /\ pc[b] # "claiming"
    BY <1>6, <2>1 DEF IInv, Hands
  <2>5. \A c \in Batch \ {b} : hand[c][f] = None
    BY <1>6, <2>1 DEF IInv, Hands
  <2>6. QED
    BY <2>1, <2>2, <2>3, <2>4, <2>5 DEF Held
<1>7. \A f \in Event : ToSave(p, row'[f], None, {})
  BY DEF ToSave
<1> HIDE DEF h, p
<1>8. QED
  BY <1>2, <1>3, <1>4, <1>5, <1>6, <1>7, BatchStep

\* What a save leaves in the row it updates.
LEMMA SavedRow ==
  ASSUME IInv, NEW b \in Batch, NEW e \in Event, SaveWrite(b, e)
  PROVE  LET r == Updated(row[e], entity[b], dirty[b])
         IN  /\ r \in Row
             /\ r.attempts = row[e].attempts
             /\ r.status = entity[b].status
             /\ r.status # "processing"
             /\ r.status = "pending" => r.attempts < MaxAttempts
<1>1. At(b, e) /\ pc[b] = "saveWrite"
  BY DEF SaveWrite
<1>2. row[e] \in Row /\ dirty[b] \in SUBSET Column
  BY <1>1, AtHand DEF IInv, TypeOK
<1>3. ToSave("saveWrite", row[e], entity[b], dirty[b])
  BY <1>1 DEF IInv, Saves
<1>4. QED
  BY <1>2, <1>3, UpdatedRow DEF ToSave

LEMMA SaveWriteInv ==
  ASSUME IInv, NEW b \in Batch, NEW e \in Event, SaveWrite(b, e)
  PROVE  IInv'
<1> DEFINE r == Updated(row[e], entity[b], dirty[b])
<1>1. /\ r \in Row /\ r.attempts = row[e].attempts
      /\ r.status = "pending" => r.attempts < MaxAttempts
  BY SavedRow
<1>2. /\ At(b, e) /\ pc[b] # "claiming" /\ Leave(b, e)
      /\ row' = [row EXCEPT ![e] = r]
  BY DEF SaveWrite
<1> HIDE DEF r
<1>3. QED
  BY <1>1, <1>2, LeaveStep

LEMMA UnreportedInv ==
  ASSUME IInv, NEW b \in Batch, NEW e \in Event, Unreported(b, e)
  PROVE  IInv'
<1>1. At(b, e) /\ pc[b] # "claiming" /\ Leave(b, e) /\ row' = row
  BY DEF Unreported
<1>2. row[e] \in Row /\ row[e].status = "processing"
  BY <1>1, AtHand
<1>3. row' = [row EXCEPT ![e] = row[e]]
  BY <1>1 DEF IInv, TypeOK
<1>4. QED
  BY <1>1, <1>2, <1>3, LeaveStep

LEMMA CrashInv ==
  ASSUME IInv, NEW b \in Batch, Crash(b)
  PROVE  IInv'
<1> DEFINE h == [e \in Event |-> None]
<1>1. /\ pc' = [pc EXCEPT ![b] = "idle"]
      /\ hand' = [hand EXCEPT ![b] = h]
      /\ entity' = [entity EXCEPT ![b] = None]
      /\ dirty' = [dirty EXCEPT ![b] = {}]
      /\ row' = row
  BY DEF Crash, Goto
<1>2. /\ h \in [Event -> Row \cup {None}] /\ "idle" \in Phase
      /\ \A e \in Event : h[e] = None
      /\ row' \in [Event -> Row \cup {None}]
  BY <1>1 DEF Phase, IInv, TypeOK
<1>3. \A e \in Event : ToSave("idle", row'[e], None, {})
  BY DEF ToSave
<1>4. /\ \A e \in Event : row'[e] = row[e]
      /\ None \in Row \cup {None} /\ {} \in SUBSET Column
  BY <1>1
<1> HIDE DEF h
<1>5. \A e \in Event : h[e] # None =>
        /\ Held("idle", row'[e], h[e])
        /\ \A c \in Batch \ {b} : hand[c][e] = None
  BY <1>2
<1>6. QED
  BY <1>1, <1>2, <1>3, <1>4, <1>5, BatchStep

LEMMA NextInv == IInv /\ [Next]_vars => IInv'
<1> SUFFICES ASSUME IInv, [Next]_vars PROVE IInv'
  OBVIOUS
<1>1. CASE UNCHANGED vars
  BY <1>1 DEF vars, IInv, TypeOK, TriesLeft, Hands, Saves, Stored, At, InHand
<1>2. ASSUME NEW e \in Event, Create(e) \/ Ripen(e) PROVE IInv'
  BY <1>2, CreateInv, RipenInv
<1>3. ASSUME NEW b \in Batch, ClaimRead(b) \/ ClaimWrite(b) \/ Crash(b)
      PROVE  IInv'
  BY <1>3, ClaimReadInv, ClaimWriteInv, CrashInv
<1>4. ASSUME NEW b \in Batch, Work(b) PROVE IInv'
  <2>1. PICK e \in Event :
          \/ Dispatch(b, e)
          \/ \E verdict \in Verdict : Report(b, e, verdict)
          \/ SaveRead(b, e) \/ SaveWrite(b, e) \/ Unreported(b, e)
    BY <1>4 DEF Work
  <2>2. QED
    BY <2>1, DispatchInv, ReportInv, SaveReadInv, SaveWriteInv, UnreportedInv
<1>5. QED
  BY <1>1, <1>2, <1>3, <1>4 DEF Next

-----------------------------------------------------------------------------
(* The theorems. *)

\* Every variable keeps its type, and no event is tried more often than
\* MaxAttempts.
THEOREM TypeCorrect == Safety => []TypeOK
<1>1. IInv => TypeOK
  BY DEF IInv
<1>2. QED
  BY InitInv, NextInv, <1>1, PTL DEF Safety

\* However batches overlap, crash and claim, an event is in the hands of one
\* batch, which alone may change its row.
THEOREM DeliveredOnce == Safety => []OneDelivery
<1>1. IInv => OneDelivery
  BY DEF IInv, Hands, Held, OneDelivery, InHand
<1>2. QED
  BY InitInv, NextInv, <1>1, PTL DEF Safety

-----------------------------------------------------------------------------
(* The refinement of EventDelivery. *)

\* One event's part of a step of EventDelivery.
EventStep(r, running, r2, running2) ==
    LET s == StageOf(r, running)
        s2 == StageOf(r2, running2)
        t == TriesOf(r)
        t2 == TriesOf(r2)
    IN  \/ s = "none" /\ s2 = "waiting" /\ t2 = 0
        \/ /\ s = "waiting" /\ s2 = "running"
           /\ t < MaxAttempts /\ t2 = t + 1
        \/ s = "running" /\ s2 = "waiting" /\ t < MaxAttempts /\ t2 = t
        \/ s = "running" /\ s2 \in {"done", "dead", "lost"} /\ t2 = t
        \/ s2 = s /\ t2 = t

LEMMA DeliveryInit == Init => Delivery!Init
BY DEF Init, Delivery!Init, StageOf, TriesOf

LEMMA DeliveryStep ==
  ASSUME IInv',
         \A e \in Event : EventStep(row[e], Running(e), row'[e],
                                    \E b \in Batch : pc'[b] # "claiming"
                                                     /\ hand'[b][e] # None)
  PROVE  Delivery!Next
<1>1. \A e \in Event : TriesOf(row'[e]) \in Nat
  BY RowFields DEF IInv, TypeOK, TriesOf
<1>2. \A e \in Event, x \in BOOLEAN :
        StageOf(row'[e], x) \in {"none", "waiting", "running", "done", "dead", "lost"}
  BY DEF StageOf
<1>3. QED
  BY <1>1, <1>2 DEF Delivery!Next, Delivery!Stage, Delivery!Create,
     Delivery!Start, Delivery!Retry, Delivery!End, Delivery!Same, Running,
     EventStep

\* Steps that change no row, and leave each batch with the events it had.
LEMMA SameRows ==
  ASSUME row' = row,
         \A e \in Event :
            (\E b \in Batch : pc'[b] # "claiming" /\ hand'[b][e] # None)
              <=> Running(e)
  PROVE  \A e \in Event : EventStep(row[e], Running(e), row'[e],
                                    \E b \in Batch : pc'[b] # "claiming"
                                                     /\ hand'[b][e] # None)
BY DEF EventStep, StageOf

\* An event some batch works on has the stage "running".
LEMMA RunningStage ==
  ASSUME IInv, NEW b \in Batch, NEW e \in Event,
         pc[b] # "claiming", hand[b][e] # None
  PROVE  /\ Running(e) /\ row[e] \in Row /\ row[e] # None
         /\ row[e].status = "processing"
         /\ StageOf(row[e], Running(e)) = "running"
         /\ TriesOf(row[e]) = row[e].attempts
         /\ \A c \in Batch \ {b} : hand[c][e] = None
<1>1. Running(e)
  BY DEF Running
<1>2. /\ row[e] \in Row /\ row[e] # None /\ row[e].status = "processing"
      /\ \A c \in Batch \ {b} : hand[c][e] = None
  BY NullAssumption DEF IInv, Hands, Held
<1>3. QED
  BY <1>1, <1>2 DEF StageOf, TriesOf

LEMMA ClaimReadStep ==
  ASSUME IInv, NEW b \in Batch, ClaimRead(b)
  PROVE  \A e \in Event : EventStep(row[e], Running(e), row'[e],
                                    \E c \in Batch : pc'[c] # "claiming"
                                                     /\ hand'[c][e] # None)
<1>1. /\ row' = row /\ pc'[b] = "claiming"
      /\ \A c \in Batch \ {b} : pc'[c] = pc[c] /\ hand'[c] = hand[c]
  BY DEF ClaimRead, Goto, IInv, TypeOK
<1>2. \A e \in Event : hand[b][e] = None
  BY DEF ClaimRead, IInv, Hands, Held
<1>3. QED
  BY <1>1, <1>2, SameRows DEF Running

LEMMA ClaimWriteStep ==
  ASSUME IInv, NEW b \in Batch, ClaimWrite(b)
  PROVE  \A e \in Event : EventStep(row[e], Running(e), row'[e],
                                    \E c \in Batch : pc'[c] # "claiming"
                                                     /\ hand'[c][e] # None)
<1>1. /\ pc[b] = "claiming" /\ pc'[b] = "dispatch" /\ hand' = hand
      /\ \A c \in Batch \ {b} : pc'[c] = pc[c]
      /\ \A e \in Event : row'[e] = IF hand[b][e] # None THEN hand[b][e]
                                                        ELSE row[e]
  BY DEF ClaimWrite, Goto, IInv, TypeOK, InHand
<1> SUFFICES ASSUME NEW e \in Event
             PROVE  EventStep(row[e], Running(e), row'[e],
                              \E c \in Batch : pc'[c] # "claiming"
                                               /\ hand'[c][e] # None)
  OBVIOUS
<1> DEFINE running2 == \E c \in Batch : pc'[c] # "claiming"
                                        /\ hand'[c][e] # None
<1>2. CASE hand[b][e] = None
  <2>1. row'[e] = row[e] /\ (running2 <=> Running(e))
    BY <1>1, <1>2 DEF Running
  <2>2. QED
    BY <2>1 DEF EventStep, StageOf
<1>3. CASE hand[b][e] # None
  <2>1. /\ row[e] \in Row /\ row[e] # None
        /\ row[e].status = "pending"
        /\ row[e].attempts < MaxAttempts
        /\ row'[e] = Claimed(row[e])
    BY <1>1, <1>3, NullAssumption DEF IInv, Hands, Held, TriesLeft, Stored
  <2>2. /\ row'[e] # None /\ row'[e].status = "processing"
        /\ row'[e].attempts = row[e].attempts + 1
    BY <2>1, ClaimedRow, NullAssumption
  <2>3. running2
    BY <1>1, <1>3
  <2> HIDE DEF running2
  <2>4. EventStep(row[e], Running(e), row'[e], running2)
    BY <2>1, <2>2, <2>3 DEF EventStep, StageOf, TriesOf
  <2>5. QED
    BY <2>4 DEF running2
<1>4. QED
  BY <1>2, <1>3

\* A batch leaves an event: its row tells whether it is finished, waits for
\* another try, or is lost.
LEMMA LeaveEvent ==
  ASSUME IInv, NEW b \in Batch, NEW e \in Event, At(b, e),
         pc[b] # "claiming", Leave(b, e),
         NEW r \in Row, row' = [row EXCEPT ![e] = r],
         r.attempts = row[e].attempts,
         r.status = "pending" => r.attempts < MaxAttempts
  PROVE  \A f \in Event : EventStep(row[f], Running(f), row'[f],
                                    \E c \in Batch : pc'[c] # "claiming"
                                                     /\ hand'[c][f] # None)
<1>1. /\ pc'[b] \in {"idle", "dispatch"} /\ hand'[b][e] = None
      /\ \A f \in Event \ {e} : hand'[b][f] = hand[b][f]
      /\ \A c \in Batch \ {b} : pc'[c] = pc[c] /\ hand'[c] = hand[c]
  BY DEF Leave, Goto, IInv, TypeOK
<1>2. /\ row'[e] = r /\ r # None
      /\ \A f \in Event \ {e} : row'[f] = row[f]
  BY NullAssumption DEF IInv, TypeOK
<1> SUFFICES ASSUME NEW f \in Event
             PROVE  EventStep(row[f], Running(f), row'[f],
                              \E c \in Batch : pc'[c] # "claiming"
                                               /\ hand'[c][f] # None)
  OBVIOUS
<1> DEFINE running2 == \E c \in Batch : pc'[c] # "claiming"
                                        /\ hand'[c][f] # None
<1>3. CASE f # e
  <2>1. row'[f] = row[f] /\ (running2 <=> Running(f))
    BY <1>1, <1>2, <1>3 DEF Running
  <2>2. QED
    BY <2>1 DEF EventStep, StageOf
<1>4. CASE f = e
  <2>1. /\ hand[b][e] # None
        /\ StageOf(row[e], Running(e)) = "running"
        /\ TriesOf(row[e]) = row[e].attempts
        /\ \A c \in Batch \ {b} : hand[c][e] = None
    BY RunningStage DEF At, InHand
  <2>2. ~running2
    BY <1>1, <1>4, <2>1
  <2> HIDE DEF running2
  <2>3. r.status \in Status
    BY RowFields
  <2>4. EventStep(row[f], Running(f), row'[f], running2)
    BY <1>2, <1>4, <2>1, <2>2, <2>3 DEF EventStep, StageOf, TriesOf, Status
  <2>5. QED
    BY <2>4 DEF running2
<1>5. QED
  BY <1>3, <1>4

LEMMA CrashStep ==
  ASSUME IInv, NEW b \in Batch, Crash(b)
  PROVE  \A e \in Event : EventStep(row[e], Running(e), row'[e],
                                    \E c \in Batch : pc'[c] # "claiming"
                                                     /\ hand'[c][e] # None)
<1>1. /\ row' = row /\ \A e \in Event : hand'[b][e] = None
      /\ \A c \in Batch \ {b} : pc'[c] = pc[c] /\ hand'[c] = hand[c]
  BY DEF Crash, Goto, IInv, TypeOK
<1> SUFFICES ASSUME NEW e \in Event
             PROVE  EventStep(row[e], Running(e), row'[e],
                              \E c \in Batch : pc'[c] # "claiming"
                                               /\ hand'[c][e] # None)
  OBVIOUS
<1> DEFINE running2 == \E c \in Batch : pc'[c] # "claiming"
                                        /\ hand'[c][e] # None
<1>2. CASE pc[b] = "claiming" \/ hand[b][e] = None
  <2>1. running2 <=> Running(e)
    BY <1>1, <1>2 DEF Running
  <2>2. QED
    BY <1>1, <2>1 DEF EventStep, StageOf
<1>3. CASE pc[b] # "claiming" /\ hand[b][e] # None
  <2>1. /\ StageOf(row[e], Running(e)) = "running"
        /\ row[e] # None /\ row[e].status = "processing"
        /\ \A c \in Batch \ {b} : hand[c][e] = None
    BY <1>3, RunningStage
  <2>2. ~running2
    BY <1>1, <2>1
  <2> HIDE DEF running2
  <2>3. EventStep(row[e], Running(e), row'[e], running2)
    BY <1>1, <2>1, <2>2 DEF EventStep, StageOf
  <2>4. QED
    BY <2>3 DEF running2
<1>4. QED
  BY <1>2, <1>3

LEMMA TableEvent ==
  ASSUME IInv, NEW e \in Event, Create(e) \/ Ripen(e)
  PROVE  \A f \in Event : EventStep(row[f], Running(f), row'[f],
                                    \E c \in Batch : pc'[c] # "claiming"
                                                     /\ hand'[c][f] # None)
<1>1. /\ pc' = pc /\ hand' = hand
      /\ \A f \in Event \ {e} : row'[f] = row[f]
  BY DEF Create, Ripen, IInv, TypeOK
<1> SUFFICES ASSUME NEW f \in Event
             PROVE  EventStep(row[f], Running(f), row'[f], Running(f))
  BY <1>1 DEF Running
<1>2. CASE f # e
  BY <1>1, <1>2 DEF EventStep
<1>3. CASE f = e /\ Create(e)
  <2> DEFINE new == [status |-> "pending", attempts |-> 0,
                     available |-> InitialAvailable]
  <2>1. new \in Row /\ new.status = "pending" /\ new.attempts = 0
    BY LimitAssumption DEF Row, Status, Availability
  <2>2. row[f] = None /\ row'[f] = new
    BY <1>3 DEF Create, Stored, IInv, TypeOK
  <2> HIDE DEF new
  <2>3. row'[f] # None
    BY <2>1, <2>2, NullAssumption
  <2>4. QED
    BY <2>1, <2>2, <2>3 DEF EventStep, StageOf, TriesOf
<1>4. CASE f = e /\ Ripen(e)
  <2> DEFINE new == Updated(row[e], [available |-> "due"], {"available"})
  <2>1. row[e] \in Row /\ row[e] # None
    BY <1>4 DEF Ripen, Stored, IInv, TypeOK
  <2>2. /\ new \in Row /\ new.status = row[e].status
        /\ new.attempts = row[e].attempts
    BY <2>1, RipenRow
  <2>3. row'[e] = new
    BY <1>4 DEF Ripen, IInv, TypeOK
  <2> HIDE DEF new
  <2>4. QED
    BY <1>4, <2>1, <2>2, <2>3, NullAssumption DEF EventStep, StageOf, TriesOf
<1>5. QED
  BY <1>2, <1>3, <1>4

LEMMA WorkEvent ==
  ASSUME IInv, NEW b \in Batch, Work(b)
  PROVE  \A f \in Event : EventStep(row[f], Running(f), row'[f],
                                    \E c \in Batch : pc'[c] # "claiming"
                                                     /\ hand'[c][f] # None)
<1>1. PICK e \in Event :
        \/ Dispatch(b, e)
        \/ \E verdict \in Verdict : Report(b, e, verdict)
        \/ SaveRead(b, e) \/ SaveWrite(b, e) \/ Unreported(b, e)
  BY DEF Work
<1>2. CASE \/ Dispatch(b, e) \/ SaveRead(b, e)
           \/ \E verdict \in Verdict : Report(b, e, verdict)
  <2>1. /\ row' = row /\ hand' = hand
        /\ pc[b] # "claiming" /\ pc'[b] # "claiming"
        /\ \A c \in Batch \ {b} : pc'[c] = pc[c]
    BY <1>2 DEF Dispatch, SaveRead, Report, Goto, IInv, TypeOK
  <2>2. QED
    BY <2>1, SameRows DEF Running
<1>3. CASE SaveWrite(b, e)
  <2> DEFINE r == Updated(row[e], entity[b], dirty[b])
  <2>1. /\ r \in Row /\ r.attempts = row[e].attempts
        /\ r.status = "pending" => r.attempts < MaxAttempts
    BY <1>3, SavedRow
  <2>2. /\ At(b, e) /\ pc[b] # "claiming" /\ Leave(b, e)
        /\ row' = [row EXCEPT ![e] = r]
    BY <1>3 DEF SaveWrite
  <2> HIDE DEF r
  <2>3. QED
    BY <2>1, <2>2, LeaveEvent
<1>4. CASE Unreported(b, e)
  <2>1. At(b, e) /\ pc[b] # "claiming" /\ Leave(b, e) /\ row' = row
    BY <1>4 DEF Unreported
  <2>2. row[e] \in Row /\ row[e].status = "processing"
    BY <2>1, AtHand
  <2>3. row' = [row EXCEPT ![e] = row[e]]
    BY <2>1 DEF IInv, TypeOK
  <2>4. QED
    BY <2>1, <2>2, <2>3, LeaveEvent
<1>5. QED
  BY <1>1, <1>2, <1>3, <1>4

LEMMA DeliveryNext ==
  IInv /\ IInv' /\ [Next]_vars
    => [Delivery!Next]_<<[e \in Event |-> StageOf(row[e], Running(e))],
                         [e \in Event |-> TriesOf(row[e])]>>
<1> SUFFICES ASSUME IInv, IInv', [Next]_vars, ~(UNCHANGED vars)
             PROVE  Delivery!Next
  BY DEF vars, StageOf, TriesOf, Running
<1>1. CASE \E e \in Event : Create(e) \/ Ripen(e)
  BY <1>1, TableEvent, DeliveryStep
<1>2. CASE \E b \in Batch : ClaimRead(b)
  BY <1>2, ClaimReadStep, DeliveryStep
<1>3. CASE \E b \in Batch : ClaimWrite(b)
  BY <1>3, ClaimWriteStep, DeliveryStep
<1>4. CASE \E b \in Batch : Work(b)
  BY <1>4, WorkEvent, DeliveryStep
<1>5. CASE \E b \in Batch : Crash(b)
  BY <1>5, CrashStep, DeliveryStep
<1>6. QED
  BY <1>1, <1>2, <1>3, <1>4, <1>5 DEF Next

\* The table implements EventDelivery: at most MaxAttempts tries, a retry only
\* on a report of a failure, and never another change of a completed or dead
\* event.
THEOREM ImplementsDelivery == Safety => DeliverySafety
<1>1. Init => Delivery!Init
  BY DeliveryInit
<1>2. QED
  BY InitInv, NextInv, DeliveryNext, <1>1, PTL
     DEF Safety, DeliverySafety, Delivery!Safety

=============================================================================
