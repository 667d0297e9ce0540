---------------------------- MODULE QueryOptions ----------------------------
(***************************************************************************)
(* How a list of query parameters becomes a database query: the registry   *)
(* of the relations a response may be expanded with, which is built once   *)
(* from the metadata of the entities; the parsing of page, pageSize, sort, *)
(* search, includeDeleted and expand; the joins; the page that is answered.*)
(***************************************************************************)
EXTENDS Integers, Sequences, FiniteSets, SequencesExt

CONSTANTS
    Entity,                      \* entity classes
    Schema,                      \* sets of relations the entities may have
    Sortable,                    \* columns one may sort by
    Query,                       \* query strings: a raw value for every Field
    Endpoint,                    \* what QueryOptionsDecorator is given, see Config
    Missing, Empty, Many, Junk,  \* raw values: none, "", an array, other text;
                                 \* numerals are numbers, lists are sequences
    DefaultPageSize, MaxPageSize,
    MaxDepth,                    \* maxDepth of buildExpansionPaths
    MaxRows                      \* bound: rows the query matches

Field == {"page", "pageSize", "search", "sort", "includeDeleted", "expand"}

\* A relation property of an entity.  excluded: it is decorated with @Exclude.
Relation == [from : Entity, name : STRING, to : Entity, excluded : BOOLEAN]

\* fields: what includeFields or excludeFields lists.
Config == [entity : Entity, kind : {"none", "include", "exclude"},
           fields : SUBSET Field]

ASSUME PageAssumption ==
    /\ DefaultPageSize \in Nat \ {0} /\ MaxPageSize \in Nat \ {0}
    /\ MaxDepth \in Nat \ {0} /\ MaxRows \in Nat

ASSUME InputAssumption ==
    /\ \A s \in Schema : s \subseteq Relation
    /\ Endpoint \subseteq Config
    /\ Missing \notin {Junk, "true"}
    /\ \A q \in Query :
          /\ q["sort"] \in {Missing, Empty, Many, Junk}
                             \cup Seq([field : STRING, desc : BOOLEAN])
          /\ q["expand"] \in {Missing, Empty, Many, Junk} \cup Seq(Seq(STRING))

VARIABLES
    schema,     \* the relations of all entities
    allowed,    \* [Entity -> set of paths]: expandableFields
    query,      \* the query string
    endpoint,   \* that is asked
    options,    \* QueryOptions, once the query string is accepted
    todo,       \* the paths still to be joined
    joined,     \* the aliases joined so far, each the path it stands for
    page,       \* the answer: its rows and totalPages
    pc

vars == <<schema, allowed, query, endpoint, options, todo, joined, page, pc>>

root == endpoint.entity

-----------------------------------------------------------------------------
(* The registry. *)

\* The relations of entity e that are not excluded and lead to no entity of path.
Onward(s, e, path) == {r \in s : r.from = e /\ ~r.excluded /\ r.to \notin path}

\* The path of relation r alone, and r before every one of paths.
Extended(r, paths) == {<<r.name>>} \cup {<<r.name>> \o p : p \in paths}

\* Faulty variant: only the entity one comes from is not entered again.
BuildExpansionPathsOneBack(s, e0) ==
    LET build[d \in 0 .. MaxDepth] ==
          [e \in Entity |-> [ancestors \in SUBSET Entity |->
             IF d = 0 THEN {}
             ELSE UNION {Extended(r, build[d - 1][r.to][{e}]) :
                            r \in Onward(s, e, ancestors \cup {e})}]]
    IN build[MaxDepth][e0][{}]

\* Depth first along the relations that are not excluded, never back to an
\* entity of the path so far.
BuildExpansionPaths(s, e0) ==
    LET build[d \in 0 .. MaxDepth] ==
          [e \in Entity |-> [ancestors \in SUBSET Entity |->
             LET path == ancestors \cup {e} IN
             IF d = 0 THEN {}
             ELSE UNION {Extended(r, build[d - 1][r.to][path]) :
                            r \in Onward(s, e, path)}]]
    IN build[MaxDepth][e0][{}]

\* onModuleInit.
Register ==
    /\ pc = "start"
    /\ allowed' = [e \in Entity |-> BuildExpansionPaths(schema, e)]
    /\ pc' = "ready"
    /\ UNCHANGED <<schema, query, endpoint, options, todo, joined, page>>

-----------------------------------------------------------------------------
(* Parsing. *)

Keys(f) ==
    IF f.kind = "include" THEN f.fields ELSE Field \ f.fields

\* Faulty variant: a key the filter does not mention is kept.
FilterOptionsKeep(q, f) ==
    [k \in Field |-> IF f.kind = "exclude" /\ k \in f.fields
                     THEN Missing ELSE q[k]]

\* The empty string is falsy, "0" is not.
FilterOptions(q, f) ==
    IF f.kind = "none" THEN q
    ELSE [k \in Field |-> IF k \in Keys(f) /\ q[k] # Empty THEN q[k]
                                                          ELSE Missing]

\* Faulty variant: zero passes.
PositiveIntOrZero(v) == v = Missing \/ v \in Nat

\* Number("") is 0, that of an array of two or of other text is not an integer.
PositiveInt(v) == v = Missing \/ (v \in Nat /\ v >= 1)

ParsePositiveInt(v, fallback) == IF v = Missing THEN fallback ELSE v

\* Anything but a nonempty string means no list.
ListOf(v) == IF v \in {Missing, Empty, Many} THEN <<>> ELSE v

SortAllowed(v) ==
    v # Junk /\ \A i \in DOMAIN ListOf(v) : ListOf(v)[i].field \in Sortable

ExpandAllowed(v, e) ==
    v # Junk /\ \A i \in DOMAIN ListOf(v) : ListOf(v)[i] \in allowed[e]

AtMost(a, b) == IF a < b THEN a ELSE b

DefaultOptions ==
    [page |-> 1, pageSize |-> AtMost(DefaultPageSize, MaxPageSize),
     search |-> FALSE, sort |-> <<>>, includeDeleted |-> FALSE,
     expand |-> <<>>]

\* search: there is a search string.
GetQueryOptions(q) ==
    [page |-> ParsePositiveInt(q["page"], 1),
     pageSize |-> AtMost(ParsePositiveInt(q["pageSize"], DefaultPageSize),
                         MaxPageSize),
     search |-> q["search"] \notin {Missing, Empty, Many},
     sort |-> ListOf(q["sort"]),
     includeDeleted |-> q["includeDeleted"] = "true",
     expand |-> ListOf(q["expand"])]

Accepted(q, e) ==
    /\ PositiveInt(q["page"])
    /\ PositiveInt(q["pageSize"])
    /\ SortAllowed(q["sort"])
    /\ ExpandAllowed(q["expand"], e)

\* A request: query string q to endpoint c.
Parse(q, c) ==
    /\ pc = "ready"
    /\ query' = q
    /\ endpoint' = c
    /\ LET kept == FilterOptions(q, c)
       IN IF Accepted(kept, c.entity)
          THEN /\ options' = GetQueryOptions(kept)
               /\ todo' = options'.expand
               /\ pc' = "join"
          ELSE /\ pc' = "rejected"
               /\ UNCHANGED <<options, todo>>
    /\ UNCHANGED <<schema, allowed, joined, page>>

-----------------------------------------------------------------------------
(* The query. *)

\* Faulty variant: every relation is joined to the root.
JoinToRoot ==
    /\ pc = "join"
    /\ todo # <<>>
    /\ joined' = joined \o [i \in 1 .. Len(Head(todo)) |-> <<Head(todo)[i]>>]
    /\ todo' = Tail(todo)
    /\ UNCHANGED <<schema, allowed, query, endpoint, options, page, pc>>

\* expandRelations: one leftJoinAndSelect for every relation on a path.
Join ==
    /\ pc = "join"
    /\ todo # <<>>
    /\ joined' = joined \o [i \in 1 .. Len(Head(todo)) |->
                               SubSeq(Head(todo), 1, i)]
    /\ todo' = Tail(todo)
    /\ UNCHANGED <<schema, allowed, query, endpoint, options, page, pc>>

\* Faulty variant: pages counted from zero.
PageRowsFromZero(p, size, rows) ==
    {n \in 1 .. rows : p * size < n /\ n <= (p + 1) * size}

\* skip and take.
PageRows(p, size, rows) ==
    {n \in 1 .. rows : (p - 1) * size < n /\ n <= (p - 1) * size + size}

\* addPagination: Math.ceil.
TotalPages(rows, size) == (rows + size - 1) \div size

\* The query matches so many rows.  No caller names the fields to search in,
\* without which finalizeQuery throws, and Postgres does not take one alias
\* twice.
Fetch(rows) ==
    /\ pc = "join"
    /\ todo = <<>>
    /\ IF ~options.search /\ IsInjective(joined)
       THEN /\ page' = [rows |-> rows,
                        items |-> PageRows(options.page, options.pageSize, rows),
                        totalPages |-> TotalPages(rows, options.pageSize)]
            /\ pc' = "answered"
       ELSE pc' = "error" /\ UNCHANGED page
    /\ UNCHANGED <<schema, allowed, query, endpoint, options, todo, joined>>

NoPage == [rows |-> 0, items |-> {}, totalPages |-> 0]

NoQuery == [k \in Field |-> Missing]

Init ==
    /\ schema \in Schema
    /\ allowed = [e \in Entity |-> {}]
    /\ query = NoQuery
    /\ endpoint \in Endpoint
    /\ options = DefaultOptions
    /\ todo = <<>>
    /\ joined = <<>>
    /\ page = NoPage
    /\ pc = "start"

Next ==
    \/ Register
    \/ \E q \in Query, c \in Endpoint : Parse(q, c)
    \/ Join
    \/ \E rows \in 0 .. MaxRows : Fetch(rows)

Spec == Init /\ [][Next]_vars

-----------------------------------------------------------------------------
\* Accepted options are within their bounds, whatever the query string.
TypeOK ==
    /\ schema \in Schema /\ endpoint \in Endpoint
    /\ allowed \in [Entity -> SUBSET Seq(STRING)]
    /\ options.page \in Nat \ {0}
    /\ options.pageSize \in 1 .. MaxPageSize
    /\ options.search \in BOOLEAN /\ options.includeDeleted \in BOOLEAN
    /\ options.sort \in Seq([field : Sortable, desc : BOOLEAN])
    /\ options.expand \in Seq(allowed[root])
    /\ todo \in Seq(allowed[root]) /\ joined \in Seq(Seq(STRING))
    /\ page.items \subseteq 1 .. page.rows /\ page.totalPages \in Nat
    /\ pc \in {"start", "ready", "rejected", "join", "answered", "error"}

\* The paths from e that visit no entity twice and use no excluded relation.
SimplePath(p, e) ==
    \E q \in [DOMAIN p -> schema] :
        /\ p # <<>> /\ q[1].from = e
        /\ \A i \in DOMAIN p :
              /\ q[i].name = p[i] /\ ~q[i].excluded /\ q[i].to # e
              /\ i > 1 => q[i].from = q[i - 1].to
              /\ \A j \in DOMAIN p : q[i].to = q[j].to => i = j

PathNames == UNION {[1 .. n -> {r.name : r \in schema}] : n \in 1 .. MaxDepth}

\* The registry offers exactly the simple paths, up to MaxDepth, to every
\* entity: no cycle, no excluded relation, none forgotten.
OffersSimplePaths ==
    pc = "ready" =>
        \A e \in Entity : allowed[e] = {p \in PathNames : SimplePath(p, e)}

\* A field the endpoint does not take has no effect: it keeps its default, and
\* the query string is not rejected for it.
FilterHolds ==
    LET taken == IF endpoint.kind = "none" THEN Field ELSE Keys(endpoint) IN
    /\ pc \in {"join", "answered", "error"} =>
          \A k \in Field \ taken : options[k] = DefaultOptions[k]
    /\ pc = "rejected" =>
          ~Accepted([k \in Field |-> IF k \in taken THEN query[k] ELSE Missing],
                    root)

\* Every matching row is on exactly one of the pages 1 to totalPages, and the
\* page that was asked for is empty just when it lies beyond them.
PagesPartition ==
    pc = "answered" =>
        /\ \A n \in 1 .. page.rows :
              Cardinality({p \in 1 .. page.totalPages :
                  n \in PageRows(p, options.pageSize, page.rows)}) = 1
        /\ page.items = {} <=> options.page > page.totalPages

\* Every relation is joined to the root or to an alias joined before, and no
\* join reaches an excluded relation.
JoinsResolve ==
    \A i \in DOMAIN joined :
        /\ SimplePath(joined[i], root)
        /\ Len(joined[i]) = 1 \/ \E j \in 1 .. i - 1 : joined[j] = Front(joined[i])

\* What the API documents: any list of the expandable relations may be asked
\* for, so one that is accepted and names none twice is answered.
ExpansionsAnswered ==
    pc = "error" => options.search \/ ~IsInjective(options.expand)
=============================================================================
