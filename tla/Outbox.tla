------------------------------- MODULE Outbox -------------------------------
(***************************************************************************)
(* The transactional outbox of the NestJS backend                          *)
(* (src/backends/nest/src/outbox): callers insert events; once a minute    *)
(* each Node process starts a batch that claims the oldest due events      *)
(* under row locks and hands them, one after the other, to their handlers, *)
(* which answer through complete or fail.  Cron does not wait for the      *)
(* previous batch, so batches overlap within a process and between         *)
(* processes.  Every database statement is one step.                       *)
(*                                                                         *)
(* The handlers and the callers of create are outside of the source tree.  *)
(* A handler is taken to await its one call of complete or fail before it  *)
(* returns, and an error it throws stops there.                            *)
(***************************************************************************)
EXTENDS Naturals, FiniteSets

CONSTANTS
    Event,             \* outbox events, numbered in the order of created_at
    Known,             \* those of a type dispatchEvent knows
    Batch,             \* bound: runs of the cron job that may overlap
    None,              \* null: no row, no entity, no date
    MaxAttempts,       \* outbox.maxAttempts
    BatchLimit,        \* the LIMIT of getPendingEvents
    InitialAvailable   \* available_at of a new row: create leaves it to the
                       \* column's default, null in the entity's schema

Status == {"pending", "processing", "completed", "dead_letter"}

\* available_at: null, in the past, or still to come.
Availability == {None, "due", "later"}

\* A row of outbox_events: the columns that decide what is done with it.
Row == [status : Status, attempts : Nat, available : Availability]

Column == {"status", "attempts", "available"}

\* What a handler may ask for: complete(id), fail(id, e), fail(id, e, true).
Verdict == {"complete", "fail", "fatal"}

ASSUME EventAssumption == Event \subseteq Nat /\ Known \subseteq Event

ASSUME NullAssumption == None \notin Row /\ None \notin {"due", "later"}

ASSUME LimitAssumption ==
    /\ MaxAttempts \in Nat \ {0}
    /\ BatchLimit \in Nat \ {0}
    /\ InitialAvailable \in {None, "due"}

VARIABLES
    row,      \* [Event -> Row or None]: the table
    pc,       \* [Batch -> Phase]
    hand,     \* [Batch -> [Event -> Row or None]]: the claimed entities a
              \* batch still has to dispatch
    entity,   \* [Batch -> Row or None]: the entity about to be saved
    dirty     \* [Batch -> set of columns]: what that save will UPDATE

vars == <<row, pc, hand, entity, dirty>>

Phase == {"idle", "claiming", "dispatch", "handle", "saveRead", "saveWrite"}

-----------------------------------------------------------------------------
Stored(e) == row[e] # None

InHand(b) == {e \in Event : hand[b][e] # None}

\* Rows under FOR UPDATE in a transaction that has not committed.
Locked == UNION {InHand(b) : b \in {c \in Batch : pc[c] = "claiming"}}

\* Faulty variant: the query lost its status clause.
DueOfAnyStatus == {e \in Event : Stored(e) /\ row[e].available = "due"} \ Locked

\* Faulty variant: the query does not skip the rows another batch has locked.
DueWithLocked == {e \in Event : /\ Stored(e)
                                /\ row[e].status = "pending"
                                /\ row[e].available = "due"}

\* Pending, available_at <= now (null is not), and not locked by another batch.
Due == {e \in Event : /\ Stored(e)
                      /\ row[e].status = "pending"
                      /\ row[e].available = "due"} \ Locked

\* S: the first BatchLimit of D in the order of created_at.
Oldest(S, D) ==
    /\ S \subseteq D
    /\ \A e \in S, f \in D \ S : e < f
    /\ IF Cardinality(D) <= BatchLimit THEN S = D
                                       ELSE Cardinality(S) = BatchLimit

\* The event a batch is at: the for loop follows the order of the query.
At(b, e) == e \in InHand(b) /\ \A f \in InHand(b) : e <= f

-----------------------------------------------------------------------------
(* Changes to an entity. *)

\* Faulty variant: the attempt is not counted.
ClaimedUncounted(r) ==
    [status |-> "processing", attempts |-> r.attempts,
     available |-> r.available]

Claimed(r) ==
    [status |-> "processing", attempts |-> r.attempts + 1,
     available |-> r.available]

\* Faulty variant: one attempt too many.
NextTryOffByOne(r) == IF r.attempts > MaxAttempts THEN None ELSE "later"

\* getNextTryDate: null once the attempts are used up.
NextTry(r) == IF r.attempts >= MaxAttempts THEN None ELSE "later"

Completed(r) ==
    [status |-> "completed", attempts |-> r.attempts,
     available |-> r.available]

DeadLetter(r, available) ==
    [status |-> "dead_letter", attempts |-> r.attempts,
     available |-> available]

\* Faulty variant: fail forgets the date of the next try.
FailedWithoutDate(r, fatal) ==
    IF fatal \/ NextTry(r) = None
    THEN DeadLetter(r, NextTry(r))
    ELSE [status |-> "pending", attempts |-> r.attempts, available |-> None]

\* A fatal error keeps the date of a next try that never comes.
Failed(r, fatal) ==
    IF fatal \/ NextTry(r) = None
    THEN DeadLetter(r, NextTry(r))
    ELSE [status |-> "pending", attempts |-> r.attempts,
          available |-> NextTry(r)]

Differs(new, old) == {c \in Column : new[c] # old[c]}

Updated(old, new, columns) ==
    [c \in DOMAIN old |-> IF c \in columns THEN new[c] ELSE old[c]]

-----------------------------------------------------------------------------
(* The steps. *)

Goto(b, phase) == pc' = [pc EXCEPT ![b] = phase]

\* On to the next event, or the end of the batch.
Leave(b, e) ==
    /\ hand' = [hand EXCEPT ![b][e] = None]
    /\ entity' = [entity EXCEPT ![b] = None]
    /\ dirty' = [dirty EXCEPT ![b] = {}]
    /\ Goto(b, IF InHand(b) = {e} THEN "idle" ELSE "dispatch")

\* create: the row becomes visible when the caller's transaction commits, not
\* necessarily in the order of created_at.
Create(e) ==
    /\ ~Stored(e)
    /\ row' = [row EXCEPT ![e] = [status |-> "pending", attempts |-> 0,
                                  available |-> InitialAvailable]]
    /\ UNCHANGED <<pc, hand, entity, dirty>>

\* The date of a next try passes.
Ripen(e) ==
    /\ Stored(e)
    /\ row[e].available = "later"
    /\ row' = [row EXCEPT ![e] = Updated(@, [available |-> "due"],
                                         {"available"})]
    /\ UNCHANGED <<pc, hand, entity, dirty>>

\* getPendingEvents: SELECT ... FOR UPDATE SKIP LOCKED in a transaction ...
ClaimRead(b) ==
    /\ pc[b] = "idle"
    /\ Due # {}
    /\ \E S \in SUBSET Due :
         /\ Oldest(S, Due)
         /\ hand' = [hand EXCEPT ![b] = [e \in Event |->
                         IF e \in S THEN Claimed(row[e]) ELSE None]]
    /\ Goto(b, "claiming")
    /\ UNCHANGED <<row, entity, dirty>>

\* ... and the save of the claimed entities, with its commit.
ClaimWrite(b) ==
    /\ pc[b] = "claiming"
    /\ row' = [e \in Event |-> IF e \in InHand(b) THEN hand[b][e] ELSE row[e]]
    /\ Goto(b, "dispatch")
    /\ UNCHANGED <<hand, entity, dirty>>

\* dispatchEvent: a known type goes to its handler, any other is reported and
\* the claimed entity itself saved as a dead letter.
Dispatch(b, e) ==
    /\ pc[b] = "dispatch"
    /\ At(b, e)
    /\ IF e \in Known
       THEN Goto(b, "handle") /\ UNCHANGED entity
       ELSE /\ entity' = [entity EXCEPT ![b] =
                             DeadLetter(hand[b][e], hand[b][e].available)]
            /\ Goto(b, "saveRead")
    /\ UNCHANGED <<row, hand, dirty>>

\* complete and fail: load the event and change it, whatever its status.
Report(b, e, verdict) ==
    /\ pc[b] = "handle"
    /\ At(b, e)
    /\ entity' = [entity EXCEPT ![b] =
                     IF verdict = "complete" THEN Completed(row[e])
                     ELSE Failed(row[e], verdict = "fatal")]
    /\ Goto(b, "saveRead")
    /\ UNCHANGED <<row, hand, dirty>>

\* repository.save, its SELECT ...
SaveRead(b, e) ==
    /\ pc[b] = "saveRead"
    /\ At(b, e)
    /\ dirty' = [dirty EXCEPT ![b] = Differs(entity[b], row[e])]
    /\ Goto(b, "saveWrite")
    /\ UNCHANGED <<row, hand, entity>>

\* ... and its UPDATE.
SaveWrite(b, e) ==
    /\ pc[b] = "saveWrite"
    /\ At(b, e)
    /\ row' = [row EXCEPT ![e] = Updated(@, entity[b], dirty[b])]
    /\ Leave(b, e)

\* The handler returns without a report, or a statement of complete or fail
\* throws inside it: the error is logged and the batch goes on.
Unreported(b, e) ==
    /\ pc[b] \in {"handle", "saveRead", "saveWrite"}
    /\ e \in Known
    /\ At(b, e)
    /\ Leave(b, e)
    /\ UNCHANGED row

\* The process stops, or another statement throws.  An open transaction is
\* rolled back; what was committed stays.
Crash(b) ==
    /\ pc[b] # "idle"
    /\ hand' = [hand EXCEPT ![b] = [e \in Event |-> None]]
    /\ entity' = [entity EXCEPT ![b] = None]
    /\ dirty' = [dirty EXCEPT ![b] = {}]
    /\ Goto(b, "idle")
    /\ UNCHANGED row

-----------------------------------------------------------------------------
Init ==
    /\ row = [e \in Event |-> None]
    /\ pc = [b \in Batch |-> "idle"]
    /\ hand = [b \in Batch |-> [e \in Event |-> None]]
    /\ entity = [b \in Batch |-> None]
    /\ dirty = [b \in Batch |-> {}]

Work(b) ==
    \E e \in Event :
        \/ Dispatch(b, e)
        \/ \E verdict \in Verdict : Report(b, e, verdict)
        \/ SaveRead(b, e)
        \/ SaveWrite(b, e)
        \/ Unreported(b, e)

Next ==
    \/ \E e \in Event : Create(e) \/ Ripen(e)
    \/ \E b \in Batch : ClaimRead(b) \/ ClaimWrite(b) \/ Work(b) \/ Crash(b)

Safety == Init /\ [][Next]_vars

\* Time passes and cron keeps starting batches; statements and handlers end;
\* a batch that tries to claim again and again does not fail every time.
Fairness ==
    /\ \A e \in Event : WF_vars(Ripen(e))
    /\ WF_vars(\E b \in Batch : ClaimRead(b))
    /\ SF_vars(\E b \in Batch : ClaimWrite(b))
    /\ \A b \in Batch : WF_vars(Work(b) \/ ClaimWrite(b))

Spec == Safety /\ Fairness
-----------------------------------------------------------------------------
(* What the outbox promises. *)

TypeOK ==
    /\ row \in [Event -> Row \cup {None}]
    /\ \A e \in Event : Stored(e) => row[e].attempts <= MaxAttempts
    /\ pc \in [Batch -> Phase]
    /\ hand \in [Batch -> [Event -> Row \cup {None}]]
    /\ entity \in [Batch -> Row \cup {None}]
    /\ dirty \in [Batch -> SUBSET Column]

\* However batches of one or several processes overlap, an event is in the
\* hands of at most one of them, and from its claim to its last save its row
\* is marked "processing": no handler is called twice for one attempt, and no
\* save of complete or fail meets another.
OneDelivery ==
    \A e \in Event, b \in Batch : e \in InHand(b) =>
        /\ \A c \in Batch \ {b} : e \notin InHand(c)
        /\ pc[b] # "claiming" => row[e].status = "processing"

\* The abstract view of an event with row r: "lost" when its row is marked
\* "processing" and no batch works on it any more.
StageOf(r, running) ==
    IF r = None THEN "none"
    ELSE IF r.status = "pending" THEN "waiting"
    ELSE IF r.status = "completed" THEN "done"
    ELSE IF r.status = "dead_letter" THEN "dead"
    ELSE IF running THEN "running" ELSE "lost"

TriesOf(r) == IF r = None THEN 0 ELSE r.attempts

Running(e) == \E b \in Batch : pc[b] # "claiming" /\ hand[b][e] # None

Delivery == INSTANCE EventDelivery WITH
    stage <- [e \in Event |-> StageOf(row[e], Running(e))],
    tries <- [e \in Event |-> TriesOf(row[e])]

\* The table implements EventDelivery: an event is tried at most MaxAttempts
\* times, a retry follows only on a report of a failure, and a completed or
\* dead event is never touched again.
DeliverySafety == Delivery!Safety

\* Where a new event is due at once, every event ends completed, dead or lost:
\* no event waits for ever behind older ones that are retried.
EventsSettle == Delivery!Settles

\* What the tests of processPendingEvents expect of pending events: they are
\* grabbed in the end.
CreatedIsClaimed ==
    \A e \in Event : Stored(e) ~> (Stored(e) /\ row[e].attempts > 0)
=============================================================================
