--------------------------- MODULE MCQueryOptions ---------------------------
(* Instances of QueryOptions for TLC: the entities of the backend, and one *)
(* more. *)
EXTENDS QueryOptions

Entities == {"user", "session", "user_state", "state", "tag"}

\* The OneToMany and ManyToOne relations of the entities.
Relations ==
    {[from |-> "user", name |-> "sessions", to |-> "session", excluded |-> FALSE],
     [from |-> "session", name |-> "user", to |-> "user", excluded |-> FALSE],
     [from |-> "user", name |-> "states", to |-> "user_state", excluded |-> FALSE],
     [from |-> "user_state", name |-> "user", to |-> "user", excluded |-> TRUE],
     [from |-> "user_state", name |-> "state", to |-> "state", excluded |-> FALSE],
     [from |-> "state", name |-> "userStates", to |-> "user_state",
      excluded |-> FALSE]}

\* Two more: a longer cycle, and a path of four relations.
Added ==
    {[from |-> "state", name |-> "owner", to |-> "user", excluded |-> FALSE],
     [from |-> "state", name |-> "tags", to |-> "tag", excluded |-> FALSE]}

Schemas == {Relations} \cup
           {s \cup Added : s \in {x \in SUBSET Relations :
                                         Cardinality(x) >= 5}}

\* As it is.
RealSchema == {Relations}

Columns == {"id", "email"}

Paths == {<<"sessions">>, <<"states">>, <<"states", "state">>, <<"user">>,
          <<"user", "states">>, <<"junk">>}

Expands == {Missing, Empty, Many} \cup {<<p>> : p \in Paths}
               \cup {<<p, q>> : p \in Paths, q \in Paths}

Sorts == {Missing, Junk, <<[field |-> "id", desc |-> TRUE]>>,
          <<[field |-> "email", desc |-> FALSE], [field |-> "x", desc |-> FALSE]>>}

\* Either expand varies, or everything else does.
Queries ==
    {[NoQuery EXCEPT !["expand"] = e] : e \in Expands} \cup
    [page : {Missing, Empty, Many, 0, 2}, pageSize : {Missing, Junk, 1, 4},
     search : {Missing, Junk}, sort : Sorts, includeDeleted : {Missing, "true"},
     expand : {Missing, <<<<"junk">>>>}]

\* GET /user, GET /auth/sessions, GET /auth/sessions/:id.
RealEndpoints ==
    {[entity |-> "user", kind |-> "include", fields |-> {"expand"}],
     [entity |-> "session", kind |-> "exclude", fields |-> {"search", "expand"}],
     [entity |-> "session", kind |-> "include",
      fields |-> {"expand", "includeDeleted"}]}

\* And two that take every parameter.
Endpoints == RealEndpoints \cup
             {[entity |-> e, kind |-> "none", fields |-> {}] :
                 e \in {"user", "session"}}
=============================================================================
