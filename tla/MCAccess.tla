------------------------------ MODULE MCAccess ------------------------------
(* Instances of Access for TLC. *)
EXTENDS Access, TLC

Symmetry == Permutations(Req) \cup Permutations(Ip) \cup Permutations(Ua)

\* Bound: only logins and deletions of a session; one login is answered before
\* the next requests come, nothing fails and no date passes.
LoginsAndDeletions ==
    /\ passed = {}
    /\ \A r \in Req :
         /\ audit[r] = "none" /\ reply[r] # "failed"
         /\ request[r] # None => request[r].endpoint \in {"login", "deleteSession"}
    /\ Cardinality({r \in Req : request[r] # None}) > 1 =>
         \E r \in Req : reply[r] = "AUTHENTICATED"
=============================================================================
