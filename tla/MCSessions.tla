----------------------------- MODULE MCSessions -----------------------------
(* Instances of Sessions for TLC. *)
EXTENDS Sessions, TLC

\* Requests, users and the two halves of a context are interchangeable: no
\* definition orders or names one of them.
Symmetry == Permutations(Req) \cup Permutations(User)
                \cup Permutations(Ip) \cup Permutations(Ua)
=============================================================================
