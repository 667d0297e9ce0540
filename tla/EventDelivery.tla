---------------------------- MODULE EventDelivery ----------------------------
(***************************************************************************)
(* What the outbox promises about each event: it waits until it is tried,  *)
(* is tried at most MaxAttempts times and by one worker at a time, and     *)
(* ends done or dead, once and for all.  An event whose worker stops, or   *)
(* whose handler never reports, is lost: nothing takes it up again.        *)
(***************************************************************************)
EXTENDS Naturals

CONSTANTS Event, MaxAttempts

VARIABLES
    stage,   \* [Event -> Stage]
    tries    \* [Event -> 0 .. MaxAttempts]: how often the event was tried

Stage == {"none", "waiting", "running", "done", "dead", "lost"}

Init ==
    /\ stage = [e \in Event |-> "none"]
    /\ tries = [e \in Event |-> 0]

Create(e) == stage[e] = "none" /\ stage'[e] = "waiting" /\ tries'[e] = 0

Start(e) ==
    /\ stage[e] = "waiting" /\ stage'[e] = "running"
    /\ tries[e] < MaxAttempts /\ tries'[e] = tries[e] + 1

\* Another try follows only when the event has one left.
Retry(e) ==
    /\ stage[e] = "running" /\ stage'[e] = "waiting"
    /\ tries[e] < MaxAttempts /\ tries'[e] = tries[e]

End(e) ==
    /\ stage[e] = "running" /\ stage'[e] \in {"done", "dead", "lost"}
    /\ tries'[e] = tries[e]

Same(e) == stage'[e] = stage[e] /\ tries'[e] = tries[e]

\* A worker takes, and loses, several events at once.
Next ==
    /\ stage' \in [Event -> Stage]
    /\ tries' \in [Event -> Nat]
    /\ \A e \in Event :
         \/ Create(e) \/ Start(e) \/ Retry(e) \/ End(e) \/ Same(e)

Safety == Init /\ [][Next]_<<stage, tries>>

Settles ==
    \A e \in Event :
        stage[e] = "waiting" ~> stage[e] \in {"done", "dead", "lost"}

Spec == Safety /\ Settles
=============================================================================
