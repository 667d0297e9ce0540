-------------------------- MODULE SessionLifecycle --------------------------
(***************************************************************************)
(* The life of the rows of the sessions table, as a client may rely on it. *)
(* A session is inserted once, is live, and may be deleted.  While a       *)
(* request that read the session before its deletion has still to save it, *)
(* the deleted session is in limbo: that save may bring it back.  Once no  *)
(* such request is left the session is dead, and a dead session stays dead.*)
(* No new request can join those a session in limbo waits for, so limbo    *)
(* ends.                                                                   *)
(***************************************************************************)
CONSTANT Id

VARIABLE status      \* [Id -> Stage]

Stage == {"unborn", "live", "limbo", "dead"}

Init == status = [s \in Id |-> "unborn"]

Insert(s) == status[s] = "unborn" /\ status'[s] = "live"

Delete(s) == status[s] = "live" /\ status'[s] \in {"limbo", "dead"}

Revive(s) == status[s] = "limbo" /\ status'[s] = "live"

Settle(s) == status[s] = "limbo" /\ status'[s] = "dead"

\* One statement may delete several sessions.
Next ==
    /\ status' \in [Id -> Stage]
    /\ \A s \in Id : \/ Insert(s) \/ Delete(s) \/ Revive(s) \/ Settle(s)
                     \/ status'[s] = status[s]

Safety == Init /\ [][Next]_status

LimboEnds == \A s \in Id : []<>(status[s] # "limbo")

Spec == Safety /\ LimboEnds
=============================================================================
