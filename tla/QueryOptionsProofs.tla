-------------------------- MODULE QueryOptionsProofs --------------------------
(***************************************************************************)
(* Proofs about QueryOptions: the filter of the parameters, the pages, the *)
(* paths the registry offers, by induction on their length, and the joins. *)
(***************************************************************************)
EXTENDS QueryOptions, FiniteSetTheorems, TLAPS

Taken(c) == IF c.kind = "none" THEN Field ELSE Keys(c)

\* The query string without the fields an endpoint does not take.
Without(q, c) == [k \in Field |-> IF k \in Taken(c) THEN q[k] ELSE Missing]

-----------------------------------------------------------------------------
(* The filter. *)

\* A field that is missing gets its default.
LEMMA MissingDefault ==
  ASSUME NEW q, NEW k \in Field, q[k] = Missing
  PROVE  GetQueryOptions(q)[k] = DefaultOptions[k]
<1>1. Missing # "true"
  BY InputAssumption
<1> DEFINE got == GetQueryOptions(q)
<1>2. /\ got.page = ParsePositiveInt(q["page"], 1)
      /\ got.pageSize = AtMost(ParsePositiveInt(q["pageSize"], DefaultPageSize),
                               MaxPageSize)
      /\ got.search = (q["search"] \notin {Missing, Empty, Many})
      /\ got.sort = ListOf(q["sort"]) /\ got.expand = ListOf(q["expand"])
      /\ got.includeDeleted = (q["includeDeleted"] = "true")
  BY DEF GetQueryOptions
<1> SUFFICES got[k] = DefaultOptions[k]
  OBVIOUS
<1> HIDE DEF got
<1>3. CASE k \in {"page", "pageSize"}
  BY <1>2, <1>3 DEF ParsePositiveInt, DefaultOptions
<1>4. CASE k = "search"
  BY <1>2, <1>4 DEF DefaultOptions
<1>5. CASE k = "includeDeleted"
  BY <1>1, <1>2, <1>5 DEF DefaultOptions
<1>6. CASE k \in {"sort", "expand"}
  BY <1>2, <1>6 DEF ListOf, DefaultOptions
<1>7. QED
  BY <1>3, <1>4, <1>5, <1>6 DEF Field

\* What is accepted with an empty field is accepted without it.
LEMMA AcceptedFiltered ==
  ASSUME NEW q, NEW c, Accepted(Without(q, c), c.entity)
  PROVE  Accepted(FilterOptions(q, c), c.entity)
<1> DEFINE kept == FilterOptions(q, c)
           all == Without(q, c)
<1>1. \A k \in Field : kept[k] = all[k] \/ (kept[k] = Missing /\ all[k] = Empty)
  BY DEF FilterOptions, Without, Taken
<1> HIDE DEF kept, all
<1>2. PositiveInt(kept["page"]) /\ PositiveInt(kept["pageSize"])
  BY <1>1 DEF all, Accepted, PositiveInt, Field
<1>3. SortAllowed(kept["sort"])
  <2>1. ListOf(kept["sort"]) = ListOf(all["sort"])
    BY <1>1 DEF ListOf, Field
  <2>2. kept["sort"] # Junk
    BY <1>1, InputAssumption DEF all, Accepted, SortAllowed, Field
  <2>3. QED
    BY <2>1, <2>2 DEF all, Accepted, SortAllowed
<1>4. ExpandAllowed(kept["expand"], c.entity)
  <2>1. ListOf(kept["expand"]) = ListOf(all["expand"])
    BY <1>1 DEF ListOf, Field
  <2>2. kept["expand"] # Junk
    BY <1>1, InputAssumption DEF all, Accepted, ExpandAllowed, Field
  <2>3. QED
    BY <2>1, <2>2 DEF all, Accepted, ExpandAllowed
<1>5. QED
  BY <1>2, <1>3, <1>4 DEF Accepted, kept

\* A step keeps the answer of the filter: only Parse sets it.
LEMMA NextFilter == FilterHolds /\ [Next]_vars => FilterHolds'
<1> SUFFICES ASSUME FilterHolds, [Next]_vars PROVE FilterHolds'
  OBVIOUS
<1> DEFINE Held ==
      /\ pc \in {"join", "answered", "error"} =>
            \A k \in Field \ Taken(endpoint) : options[k] = DefaultOptions[k]
      /\ pc = "rejected" => ~Accepted(Without(query, endpoint), root)
<1>1. FilterHolds <=> Held
  BY DEF FilterHolds, Without, Taken
<1>2. CASE /\ UNCHANGED <<allowed, query, endpoint, options>>
           /\ pc' = pc \/ (pc = "join" /\ pc' \in {"answered", "error"})
  <2>1. Accepted(Without(query, endpoint), root)' <=> Accepted(Without(query, endpoint), root)
    BY <1>2 DEF Accepted, ExpandAllowed, SortAllowed, PositiveInt, ListOf, Without, Taken, root
  <2>2. Held'
    BY <1>1, <1>2, <2>1 DEF Taken, Keys
  <2>3. QED
    BY <2>2 DEF FilterHolds, Without, Taken
<1>3. ASSUME NEW q \in Query, NEW c \in Endpoint, Parse(q, c)
      PROVE  FilterHolds'
  <2> DEFINE kept == FilterOptions(q, c)
  <2>1. CASE Accepted(kept, c.entity)
    <3>1. /\ options' = GetQueryOptions(kept) /\ pc' = "join" /\ endpoint' = c
      BY <1>3, <2>1 DEF Parse
    <3>2. ASSUME NEW k \in Field \ Taken(c) PROVE kept[k] = Missing
      BY <3>2 DEF Taken, FilterOptions
    <3>3. \A k \in Field \ Taken(c) : GetQueryOptions(kept)[k] = DefaultOptions[k]
      BY <3>2, MissingDefault
    <3>4. QED
      BY <3>1, <3>3 DEF FilterHolds, Taken
  <2>2. CASE ~Accepted(kept, c.entity)
    <3>1. /\ pc' = "rejected" /\ endpoint' = c /\ query' = q /\ allowed' = allowed
      BY <1>3, <2>2 DEF Parse
    <3>2. ~Accepted(Without(q, c), c.entity)
      BY <2>2, AcceptedFiltered
    <3>3. ~Accepted(Without(q, c), c.entity)'
      BY <3>1, <3>2 DEF Accepted, ExpandAllowed, SortAllowed, PositiveInt, ListOf,
         Without, Taken, root
    <3>4. QED
      BY <3>1, <3>3 DEF FilterHolds, Without, Taken, root
  <2>3. QED
    BY <2>1, <2>2
<1>4. CASE Register \/ Join \/ UNCHANGED vars
  <2>1. CASE Register
    BY <2>1 DEF Register, FilterHolds
  <2>2. CASE Join \/ UNCHANGED vars
    <3>1. UNCHANGED <<allowed, query, endpoint, options, pc>>
      BY <2>2 DEF Join, vars
    <3>2. QED
      BY <1>2, <3>1
  <2>3. QED
    BY <1>4, <2>1, <2>2
<1>5. ASSUME NEW rows \in 0 .. MaxRows, Fetch(rows) PROVE FilterHolds'
  <2>1. /\ UNCHANGED <<allowed, query, endpoint, options>>
        /\ pc = "join" /\ pc' \in {"answered", "error"}
    BY <1>5 DEF Fetch
  <2>2. QED
    BY <1>2, <2>1
<1>6. QED
  BY <1>3, <1>4, <1>5 DEF Next

\* A parameter the endpoint does not take keeps its default and makes no request
\* fail, whatever the query string, the endpoint and the relations.
THEOREM FilterAlways == Spec => []FilterHolds
<1>1. Init => FilterHolds
  BY DEF Init, FilterHolds
<1>2. QED
  BY <1>1, NextFilter, PTL DEF Spec

-----------------------------------------------------------------------------
(* The pages. *)

\* What division and remainder are.
LEMMA DivMod ==
  ASSUME NEW a \in Nat, NEW b \in Nat \ {0}
  PROVE  /\ a \div b \in Nat /\ (a \div b) * b <= a
         /\ a < (a \div b) * b + b
BY SMT

\* A product grows with its factor.
LEMMA TimesMonotone ==
  ASSUME NEW p \in Int, NEW q \in Int, NEW b \in Nat \ {0}, p < q
  PROVE  p * b + b <= q * b
BY SMT

\* Row n is on page p just when that is the one (n - 1) div size pages after the
\* first.
LEMMA PageOfRow ==
  ASSUME NEW rows \in Nat, NEW size \in Nat \ {0}, NEW n \in 1 .. rows,
         NEW p \in Nat \ {0}
  PROVE  n \in PageRows(p, size, rows) <=> p = ((n - 1) \div size) + 1
<1> DEFINE d == (n - 1) \div size
<1>1. n - 1 \in Nat
  OBVIOUS
<1>2. d \in Nat /\ d * size <= n - 1 /\ n - 1 < d * size + size
  BY <1>1, DivMod
<1>3. n \in PageRows(p, size, rows) <=>
        (p - 1) * size < n /\ n <= (p - 1) * size + size
  BY DEF PageRows
<1> HIDE DEF d
<1>4. (p - 1) * size \in Int /\ d * size \in Int
  BY <1>2
<1>5. p - 1 < d => (p - 1) * size + size <= d * size
  BY <1>2, TimesMonotone
<1>6. d < p - 1 => d * size + size <= (p - 1) * size
  BY <1>2, TimesMonotone
<1>7. p - 1 = d => (p - 1) * size = d * size
  OBVIOUS
<1> DEFINE x == (p - 1) * size
           y == d * size
<1>8. /\ x \in Int /\ y \in Int
      /\ n \in PageRows(p, size, rows) <=> (x < n /\ n <= x + size)
      /\ y <= n - 1 /\ n - 1 < y + size
      /\ p - 1 < d => x + size <= y
      /\ d < p - 1 => y + size <= x
      /\ p - 1 = d => x = y
  BY <1>2, <1>3, <1>4, <1>5, <1>6, <1>7
<1> HIDE DEF x, y
<1>9. n \in PageRows(p, size, rows) <=> p - 1 = d
  BY <1>2, <1>8
<1>10. QED
  BY <1>2, <1>9 DEF d

\* There are as many pages as it takes, and no more.
LEMMA PagesOfRows ==
  ASSUME NEW rows \in Nat, NEW size \in Nat \ {0}
  PROVE  /\ TotalPages(rows, size) \in Nat
         /\ (TotalPages(rows, size) - 1) * size < rows
         /\ rows <= TotalPages(rows, size) * size
<1> DEFINE t == (rows + size - 1) \div size
<1>1. rows + size - 1 \in Nat
  OBVIOUS
<1>2. t \in Nat /\ t * size <= rows + size - 1 /\ rows + size - 1 < t * size + size
  BY <1>1, DivMod
<1> HIDE DEF t
<1>3. (t - 1) * size = t * size - size
  BY <1>2
<1>4. t * size \in Int
  BY <1>2
<1> DEFINE x == t * size
<1>5. x \in Int /\ x <= rows + size - 1 /\ rows + size - 1 < x + size
  BY <1>2, <1>4
<1> HIDE DEF x
<1>6. x - size < rows /\ rows <= x
  BY <1>5
<1>7. TotalPages(rows, size) = t
  BY DEF TotalPages, t
<1>8. QED
  BY <1>2, <1>3, <1>6, <1>7 DEF x

\* Each row is on one page, and on one of those there are.
LEMMA OnePage ==
  ASSUME NEW rows \in Nat, NEW size \in Nat \ {0}, NEW n \in 1 .. rows
  PROVE  Cardinality({p \in 1 .. TotalPages(rows, size) :
                        n \in PageRows(p, size, rows)}) = 1
<1> DEFINE t == TotalPages(rows, size)
           d == (n - 1) \div size
<1>1. t \in Nat /\ rows <= t * size
  BY PagesOfRows
<1>2. d \in Nat /\ d * size <= n - 1
  BY DivMod
<1>3. d + 1 <= t
  <2> HIDE DEF d, t
  <2>1. CASE t <= d
    <3>1. t * size <= d * size
      BY <1>1, <1>2, <2>1, TimesMonotone
    <3>2. t * size \in Int /\ d * size \in Int
      BY <1>1, <1>2
    <3>3. QED
      BY <1>1, <1>2, <3>1, <3>2
  <2>2. QED
    BY <1>1, <1>2, <2>1
<1>4. \A p \in 1 .. t : n \in PageRows(p, size, rows) <=> p = d + 1
  BY <1>1, PageOfRow
<1>5. {p \in 1 .. t : n \in PageRows(p, size, rows)} = {d + 1}
  <2> HIDE DEF d, t
  <2> QED BY <1>1, <1>2, <1>3, <1>4
<1>6. Cardinality({d + 1}) = 1
  BY FS_Singleton
<1>7. QED
  BY <1>5, <1>6

\* A page is empty just when it lies beyond the last one.
LEMMA EmptyPage ==
  ASSUME NEW rows \in Nat, NEW size \in Nat \ {0}, NEW p \in Nat \ {0}
  PROVE  PageRows(p, size, rows) = {} <=> p > TotalPages(rows, size)
<1> DEFINE t == TotalPages(rows, size)
           x == (p - 1) * size
<1>1. t \in Nat /\ (t - 1) * size < rows /\ rows <= t * size
  BY PagesOfRows
<1>2. x \in Nat
  OBVIOUS
<1>3. PageRows(p, size, rows) = {n \in 1 .. rows : x < n /\ n <= x + size}
  BY DEF PageRows
<1>4. p <= t => x < rows
  <2> HIDE DEF t
  <2> SUFFICES ASSUME p <= t PROVE x < rows
    OBVIOUS
  <2>1. (p - 1) * size <= (t - 1) * size
    BY <1>1, TimesMonotone
  <2>2. (p - 1) * size \in Int /\ (t - 1) * size \in Int
    BY <1>1
  <2>3. QED
    BY <1>1, <2>1, <2>2
<1>5. p > t => rows <= x
  <2> HIDE DEF t
  <2> SUFFICES ASSUME p > t PROVE rows <= x
    OBVIOUS
  <2>1. t * size <= (p - 1) * size
    BY <1>1, TimesMonotone
  <2>2. (p - 1) * size \in Int /\ t * size \in Int
    BY <1>1
  <2>3. QED
    BY <1>1, <2>1, <2>2
<1> HIDE DEF x, t
<1>6. x < rows => x + 1 \in PageRows(p, size, rows)
  BY <1>2, <1>3
<1>7. rows <= x => PageRows(p, size, rows) = {}
  BY <1>2, <1>3
<1>8. QED
  BY <1>1, <1>4, <1>5, <1>6, <1>7 DEF t

\* An answer has the rows of the page that was asked for, whose number and size
\* are positive.
PageInv ==
    /\ options.page \in Nat \ {0} /\ options.pageSize \in Nat \ {0}
    /\ pc = "answered" =>
         /\ page.rows \in Nat
         /\ page.items = PageRows(options.page, options.pageSize, page.rows)
         /\ page.totalPages = TotalPages(page.rows, options.pageSize)

LEMMA NextPage == PageInv /\ [Next]_vars => PageInv'
<1> SUFFICES ASSUME PageInv, [Next]_vars PROVE PageInv'
  OBVIOUS
<1>1. CASE Register \/ Join \/ UNCHANGED vars
  BY <1>1 DEF Register, Join, vars, PageInv
<1>2. ASSUME NEW q \in Query, NEW c \in Endpoint, Parse(q, c) PROVE PageInv'
  <2> DEFINE kept == FilterOptions(q, c)
  <2>1. CASE Accepted(kept, c.entity)
    <3>1. options' = GetQueryOptions(kept) /\ pc' = "join"
      BY <1>2, <2>1 DEF Parse
    <3>2. PositiveInt(kept["page"]) /\ PositiveInt(kept["pageSize"])
      BY <2>1 DEF Accepted
    <3>3. /\ GetQueryOptions(kept).page \in Nat \ {0}
          /\ GetQueryOptions(kept).pageSize \in Nat \ {0}
      <4> HIDE DEF kept
      <4> QED BY <3>2, PageAssumption
            DEF GetQueryOptions, ParsePositiveInt, PositiveInt, AtMost
    <3>4. QED
      BY <3>1, <3>3 DEF PageInv
  <2>2. CASE ~Accepted(kept, c.entity)
    BY <1>2, <2>2 DEF Parse, PageInv
  <2>3. QED
    BY <2>1, <2>2
<1>3. ASSUME NEW rows \in 0 .. MaxRows, Fetch(rows) PROVE PageInv'
  BY <1>3, PageAssumption DEF Fetch, PageInv
<1>4. QED
  BY <1>1, <1>2, <1>3 DEF Next

\* Whatever page and page size are asked for, and however many rows there are,
\* each row is on one page, and only a page beyond the last is empty.
THEOREM PagesAlwaysPartition == Spec => []PagesPartition
<1>1. Init => PageInv
  BY PageAssumption DEF Init, PageInv, DefaultOptions, AtMost
<1>2. PageInv => PagesPartition
  <2> SUFFICES ASSUME PageInv, pc = "answered"
               PROVE  /\ \A n \in 1 .. page.rows :
                            Cardinality({p \in 1 .. page.totalPages :
                                n \in PageRows(p, options.pageSize, page.rows)}) = 1
                      /\ page.items = {} <=> options.page > page.totalPages
    BY DEF PagesPartition
  <2>1. QED
    BY OnePage, EmptyPage DEF PageInv
<1>3. QED
  BY <1>1, <1>2, NextPage, PTL DEF Spec
-----------------------------------------------------------------------------
(* The registry. *)

\* Induction, for a set of numbers.
LEMMA SetInduction ==
  ASSUME NEW T, 0 \in T, \A n \in Nat : n \in T => n + 1 \in T
  PROVE  Nat \subseteq T
<1> DEFINE bad == Nat \ T
           less == OpToRel(<, Nat)
<1>1. \A m, n \in Nat : m < n => <<m, n>> \in less
  BY DEF OpToRel
<1>2. IsWellFoundedOn(less, Nat)
  BY NatLessThanWellFounded, Zenon
<1>3. bad \subseteq Nat
  OBVIOUS
<1> HIDE DEF less
<1>4. ASSUME bad # {} PROVE FALSE
  <2> HIDE DEF bad
  <2>1. PICK n \in bad : \A m \in bad : <<m, n>> \notin less
    BY <1>2, <1>3, <1>4, WFMin
  <2> USE DEF bad
  <2>2. n - 1 \in Nat /\ n - 1 < n /\ n \in Nat
    OBVIOUS
  <2>3. n - 1 \in T
    BY <1>1, <2>1, <2>2
  <2>4. QED
    BY <2>2, <2>3
<1>5. QED
  BY <1>4

\* What buildExpansionPaths returns at depth d, if f is what it returns at others.
PathsOf(s, f, d, e, path) ==
    IF d = 0 THEN {}
    ELSE UNION {Extended(r, f[d - 1][r.to][path]) : r \in Onward(s, e, path)}

Level(s, f, d) ==
    [e \in Entity |-> [ancestors \in SUBSET Entity |->
        PathsOf(s, f, d, e, ancestors \cup {e})]]

\* f is the recursion, up to depth n.
Builds(s, f, n) == f = [d \in 0 .. n |-> Level(s, f, d)]

\* A depth depends on the one before it only.
LEMMA LevelSame ==
  ASSUME NEW s, NEW f, NEW g, NEW d, d = 0 \/ f[d - 1] = g[d - 1]
  PROVE  Level(s, f, d) = Level(s, g, d)
<1>1. \A e, path : PathsOf(s, f, d, e, path) = PathsOf(s, g, d, e, path)
  BY DEF PathsOf
<1>2. QED
  BY <1>1, Zenon DEF Level

\* The recursion comes to an end at every depth: there is such a function.
LEMMA BuildExists ==
  ASSUME NEW s, NEW m \in Nat
  PROVE  \E f : Builds(s, f, m)
<1> DEFINE T == {n \in Nat : \E f : Builds(s, f, n)}
<1>1. 0 \in T
  <2> DEFINE f == [d \in 0 .. 0 |-> Level(s, [x \in {} |-> x], d)]
  <2>1. \A d \in 0 .. 0 : Level(s, [x \in {} |-> x], d) = Level(s, f, d)
    <3> HIDE DEF f
    <3> QED BY LevelSame
  <2>2. Builds(s, f, 0)
    BY <2>1, Zenon DEF Builds
  <2>3. QED
    BY <2>2
<1>2. ASSUME NEW n \in Nat, n \in T PROVE n + 1 \in T
  <2>1. PICK g : Builds(s, g, n)
    BY <1>2
  <2> DEFINE f == [d \in 0 .. n + 1 |-> IF d = n + 1 THEN Level(s, g, d) ELSE g[d]]
  <2>2. \A d \in 0 .. n : d \in 0 .. n + 1 /\ d # n + 1 /\ f[d] = g[d]
    OBVIOUS
  <2>3. ASSUME NEW d \in 0 .. n + 1
        PROVE  f[d] = Level(s, f, d)
    <3>1. d = 0 \/ d - 1 \in 0 .. n
      OBVIOUS
    <3>2. Level(s, f, d) = Level(s, g, d)
      <4>1. d = 0 \/ f[d - 1] = g[d - 1]
        BY <2>2, <3>1
      <4> HIDE DEF f
      <4>2. QED
        BY <4>1, LevelSame
    <3>3. CASE d = n + 1
      <4>1. f[d] = Level(s, g, d)
        BY <3>3
      <4>2. QED
        BY <3>2, <4>1
    <3>4. CASE d # n + 1
      <4>1. d \in 0 .. n
        BY <3>4
      <4>2. f[d] = g[d]
        BY <2>2, <4>1
      <4>3. g[d] = Level(s, g, d)
        BY <2>1, <4>1, Zenon DEF Builds
      <4>4. QED
        BY <3>2, <4>2, <4>3
    <3>5. QED
      BY <3>3, <3>4
  <2>4. f = [d \in 0 .. n + 1 |-> f[d]]
    BY Zenon
  <2>5. Builds(s, f, n + 1)
    <3> HIDE DEF f
    <3> QED BY <2>3, <2>4, Zenon DEF Builds
  <2>6. QED
    BY <2>5
<1>3. m \in T
  <2> HIDE DEF T
  <2> QED BY <1>1, <1>2, SetInduction
<1>4. QED
  BY <1>3

LEMMA BuildIs ==
  ASSUME NEW s, NEW e
  PROVE  \E f : Builds(s, f, MaxDepth) /\ BuildExpansionPaths(s, e) = f[MaxDepth][e][{}]
<1> DEFINE f == CHOOSE f : f = [d \in 0 .. MaxDepth |-> Level(s, f, d)]
<1>1. \E g : g = [d \in 0 .. MaxDepth |-> Level(s, g, d)]
  BY BuildExists, PageAssumption DEF Builds
<1>2. f = [d \in 0 .. MaxDepth |-> Level(s, f, d)]
  BY <1>1, Zenon
<1>3. BuildExpansionPaths(s, e) = f[MaxDepth][e][{}]
  BY Zenon DEF BuildExpansionPaths, Level, PathsOf
<1>4. QED
  BY <1>2, <1>3 DEF Builds

\* The relations q lead from e along p, and never into path or to where they led
\* before.
Along(s, p, q, e, path) ==
    /\ q \in [DOMAIN p -> s] /\ q[1].from = e
    /\ \A i \in DOMAIN p :
          /\ q[i].name = p[i] /\ ~q[i].excluded /\ q[i].to \notin path
          /\ i > 1 => q[i].from = q[i - 1].to
          /\ \A j \in DOMAIN p : q[i].to = q[j].to => i = j

\* The paths of up to n relations from e that avoid path.
SimpleFrom(s, n, e, path) ==
    {p \in Seq(STRING) : Len(p) \in 1 .. n /\ \E q : Along(s, p, q, e, path)}

LEMMA SimpleOne ==
  ASSUME NEW s, s \subseteq Relation, NEW n \in Nat \ {0}, NEW e, NEW path,
         NEW r \in Onward(s, e, path)
  PROVE  <<r.name>> \in SimpleFrom(s, n, e, path)
<1> DEFINE p == <<r.name>>
           q == [i \in DOMAIN p |-> r]
<1>1. r \in s /\ r.from = e /\ ~r.excluded /\ r.to \notin path /\ r.name \in STRING
  BY DEF Onward, Relation
<1>2. p \in Seq(STRING) /\ Len(p) = 1 /\ DOMAIN p = 1 .. 1 /\ p[1] = r.name
  BY <1>1
<1> HIDE DEF p
<1>3. q \in [DOMAIN p -> s] /\ \A i \in DOMAIN p : q[i] = r /\ i = 1
  BY <1>1, <1>2
<1>4. Along(s, p, q, e, path)
  <2> HIDE DEF q
  <2> QED BY <1>1, <1>2, <1>3 DEF Along
<1>5. QED
  BY <1>2, <1>4 DEF SimpleFrom, p

LEMMA SimpleLonger ==
  ASSUME NEW s, s \subseteq Relation, NEW n \in Nat, NEW e, NEW path,
         NEW r \in Onward(s, e, path), NEW t \in SimpleFrom(s, n, r.to, path \cup {r.to})
  PROVE  <<r.name>> \o t \in SimpleFrom(s, n + 1, e, path)
<1> DEFINE p == <<r.name>> \o t
           k == Len(t)
<1>1. PICK u : Along(s, t, u, r.to, path \cup {r.to})
  BY DEF SimpleFrom
<1> DEFINE q == [i \in 1 .. k + 1 |-> IF i = 1 THEN r ELSE u[i - 1]]
<1>2. r \in s /\ r.from = e /\ ~r.excluded /\ r.to \notin path /\ r.name \in STRING
  BY DEF Onward, Relation
<1>3. t \in Seq(STRING) /\ k \in 1 .. n /\ DOMAIN t = 1 .. k
  BY DEF SimpleFrom
<1>4. /\ p \in Seq(STRING) /\ Len(p) = k + 1 /\ DOMAIN p = 1 .. k + 1
      /\ p[1] = r.name /\ \A i \in 2 .. k + 1 : p[i] = t[i - 1]
  BY <1>2, <1>3
<1>5. /\ q[1] = r /\ \A i \in 2 .. k + 1 : q[i] = u[i - 1]
  BY <1>3
<1>6. /\ \A i \in 1 .. k : /\ u[i] \in s /\ u[i].name = t[i] /\ ~u[i].excluded
                           /\ u[i].to \notin path /\ u[i].to # r.to
                           /\ i > 1 => u[i].from = u[i - 1].to
      /\ \A i, j \in 1 .. k : u[i].to = u[j].to => i = j
      /\ u[1].from = r.to
  BY <1>1, <1>3 DEF Along
<1>7. q \in [DOMAIN p -> s]
  BY <1>2, <1>3, <1>4, <1>6
<1> HIDE DEF p, q, k
<1>8. ASSUME NEW i \in 1 .. k + 1
      PROVE  /\ q[i].name = p[i] /\ ~q[i].excluded /\ q[i].to \notin path
             /\ i > 1 => q[i].from = q[i - 1].to
             /\ \A j \in 1 .. k + 1 : q[i].to = q[j].to => i = j
  <2>1. i = 1 \/ (i \in 2 .. k + 1 /\ i - 1 \in 1 .. k)
    BY <1>3
  <2>2. \A j \in 1 .. k + 1 : j = 1 \/ (j \in 2 .. k + 1 /\ j - 1 \in 1 .. k)
    BY <1>3
  <2>3. q[i].name = p[i] /\ ~q[i].excluded /\ q[i].to \notin path
    BY <1>2, <1>4, <1>5, <1>6, <2>1
  <2>4. i > 1 => q[i].from = q[i - 1].to
    <3>1. CASE i = 2
      BY <1>3, <1>5, <1>6, <3>1
    <3>2. CASE i > 2
      <4>1. i - 1 \in 2 .. k + 1 /\ (i - 1) - 1 \in 1 .. k /\ i \in 2 .. k + 1
               /\ i - 1 \in 1 .. k /\ i - 1 > 1
        BY <1>3, <3>2
      <4>2. QED
        BY <1>5, <1>6, <4>1
    <3>3. QED
      BY <1>3, <3>1, <3>2
  <2>5. ASSUME NEW j \in 1 .. k + 1, q[i].to = q[j].to PROVE i = j
    BY <1>3, <1>5, <1>6, <2>1, <2>2, <2>5
  <2>6. QED
    BY <2>3, <2>4, <2>5
<1>9. Along(s, p, q, e, path)
  BY <1>2, <1>4, <1>5, <1>7, <1>8 DEF Along
<1>10. Len(p) \in 1 .. n + 1
  BY <1>3, <1>4
<1>11. QED
  BY <1>4, <1>9, <1>10 DEF SimpleFrom, p

\* What buildExpansionPaths puts together are such paths, and there are no others.
LEMMA SimpleExtended ==
  ASSUME NEW s, s \subseteq Relation, NEW n \in Nat, NEW e, NEW path,
         NEW r \in Onward(s, e, path),
         NEW p \in Extended(r, SimpleFrom(s, n, r.to, path \cup {r.to}))
  PROVE  p \in SimpleFrom(s, n + 1, e, path)
<1>1. n + 1 \in Nat \ {0}
  OBVIOUS
<1>2. CASE p = <<r.name>>
  BY <1>1, <1>2, SimpleOne
<1>3. CASE \E t \in SimpleFrom(s, n, r.to, path \cup {r.to}) : p = <<r.name>> \o t
  BY <1>3, SimpleLonger
<1>4. QED
  BY <1>2, <1>3, Zenon DEF Extended

LEMMA SimpleShorter ==
  ASSUME NEW s, s \subseteq Relation, NEW n \in Nat, NEW e, NEW path,
         NEW p \in SimpleFrom(s, n + 1, e, path)
  PROVE  \E r \in Onward(s, e, path) :
            p \in Extended(r, SimpleFrom(s, n, r.to, path \cup {r.to}))
<1> DEFINE k == Len(p)
<1>1. PICK q : Along(s, p, q, e, path)
  BY DEF SimpleFrom
<1>2. p \in Seq(STRING) /\ k \in 1 .. n + 1 /\ DOMAIN p = 1 .. k
  BY DEF SimpleFrom
<1>3. /\ \A i \in 1 .. k : /\ q[i] \in s /\ q[i].name = p[i] /\ ~q[i].excluded
                           /\ q[i].to \notin path
                           /\ i > 1 => q[i].from = q[i - 1].to
      /\ \A i, j \in 1 .. k : q[i].to = q[j].to => i = j
      /\ q[1].from = e
  BY <1>1, <1>2 DEF Along
<1>4. q[1] \in Onward(s, e, path) /\ q[1].name = p[1]
  BY <1>2, <1>3 DEF Onward
<1>5. CASE k = 1
  <2>1. p = <<p[1]>>
    BY <1>2, <1>5
  <2>2. QED
    BY <1>4, <2>1 DEF Extended
<1>6. CASE k > 1
  <2> DEFINE t == Tail(p)
             u == [i \in 1 .. k - 1 |-> q[i + 1]]
  <2>1. /\ t \in Seq(STRING) /\ Len(t) = k - 1 /\ DOMAIN t = 1 .. k - 1
        /\ \A i \in 1 .. k - 1 : t[i] = p[i + 1] /\ i + 1 \in 1 .. k
    BY <1>2, <1>6
  <2>2. p = <<q[1].name>> \o t
    <3>1. p = <<p[1]>> \o t
      BY <1>2, <1>6
    <3>2. QED
      BY <1>4, <3>1
  <2>3. \A i \in 1 .. k - 1 : u[i] = q[i + 1]
    OBVIOUS
  <2>4. u \in [DOMAIN t -> s]
    BY <1>3, <2>1
  <2>5. 1 \in 1 .. k /\ 2 \in 1 .. k /\ 1 \in 1 .. k - 1
    BY <1>2, <1>6
  <2> HIDE DEF t, u, k
  <2>6. u[1].from = q[1].to
    BY <1>3, <2>3, <2>5
  <2>7. ASSUME NEW i \in 1 .. k - 1
        PROVE  /\ u[i].name = t[i] /\ ~u[i].excluded
               /\ u[i].to \notin path \cup {q[1].to}
               /\ i > 1 => u[i].from = u[i - 1].to
               /\ \A j \in 1 .. k - 1 : u[i].to = u[j].to => i = j
    <3>1. i + 1 \in 1 .. k /\ i + 1 > 1 /\ i + 1 # 1 /\ (i + 1) - 1 = i
      BY <1>2
    <3>2. /\ u[i].name = t[i] /\ ~u[i].excluded
          /\ u[i].to \notin path \cup {q[1].to}
      BY <1>3, <2>1, <2>3, <2>5, <3>1
    <3>3. i > 1 => u[i].from = u[i - 1].to
      <4>1. i > 1 => i - 1 \in 1 .. k - 1 /\ (i - 1) + 1 = i
        BY <1>2
      <4>2. QED
        BY <1>3, <2>3, <3>1, <4>1
    <3>4. ASSUME NEW j \in 1 .. k - 1, u[i].to = u[j].to PROVE i = j
      <4>1. q[i + 1].to = q[j + 1].to /\ j + 1 \in 1 .. k
        BY <1>2, <2>3, <3>4
      <4>2. i + 1 = j + 1
        BY <1>3, <3>1, <4>1
      <4>3. QED
        BY <4>2
    <3>5. QED
      BY <3>2, <3>3, <3>4
  <2>8. Along(s, t, u, q[1].to, path \cup {q[1].to})
    BY <2>1, <2>4, <2>6, <2>7 DEF Along
  <2>9. k - 1 \in 1 .. n
    BY <1>2, <1>6
  <2>10. t \in SimpleFrom(s, n, q[1].to, path \cup {q[1].to})
    BY <2>1, <2>8, <2>9 DEF SimpleFrom
  <2>11. QED
    BY <1>4, <2>2, <2>10 DEF Extended
<1>7. k = 1 \/ k > 1
  BY <1>2
<1>8. QED
  BY <1>5, <1>6, <1>7, Zenon

FindsSimple(s, f, m) ==
    \A n \in 0 .. m : \A e \in Entity : \A a \in SUBSET Entity :
        f[n][e][a] = SimpleFrom(s, n, e, a \cup {e})

LEMMA BuildsSimple ==
  ASSUME NEW s, s \subseteq Relation, NEW f, Builds(s, f, MaxDepth)
  PROVE  FindsSimple(s, f, MaxDepth)
<1> DEFINE T == {d \in Nat : d <= MaxDepth =>
                     \A x \in Entity : \A b \in SUBSET Entity :
                        f[d][x][b] = SimpleFrom(s, d, x, b \cup {x})}
<1>1. ASSUME NEW d \in 0 .. MaxDepth, NEW x \in Entity, NEW b \in SUBSET Entity
      PROVE  f[d][x][b] = PathsOf(s, f, d, x, b \cup {x})
  <2>1. f[d] = Level(s, f, d)
    BY Zenon DEF Builds
  <2>2. f[d][x] = [c \in SUBSET Entity |-> PathsOf(s, f, d, x, c \cup {x})]
    BY <2>1, Zenon DEF Level
  <2>3. QED
    BY <2>2, Zenon
<1>2. 0 \in T
  <2>1. ASSUME NEW x \in Entity, NEW b \in SUBSET Entity
        PROVE  f[0][x][b] = SimpleFrom(s, 0, x, b \cup {x})
    <3>1. PathsOf(s, f, 0, x, b \cup {x}) = {}
      BY DEF PathsOf
    <3>2. SimpleFrom(s, 0, x, b \cup {x}) = {}
      BY DEF SimpleFrom
    <3>3. 0 \in 0 .. MaxDepth
      BY PageAssumption
    <3>4. f[0][x][b] = PathsOf(s, f, 0, x, b \cup {x})
      BY <1>1, <3>3
    <3>5. QED
      BY <3>1, <3>2, <3>4, Zenon
  <2>2. QED
    BY <2>1
<1>3. ASSUME NEW d \in Nat, d \in T PROVE d + 1 \in T
  <2> SUFFICES ASSUME d + 1 <= MaxDepth, NEW x \in Entity, NEW b \in SUBSET Entity
               PROVE  f[d + 1][x][b] = SimpleFrom(s, d + 1, x, b \cup {x})
    OBVIOUS
  <2> DEFINE path == b \cup {x}
  <2>1. path \in SUBSET Entity /\ d + 1 \in 0 .. MaxDepth /\ d <= MaxDepth
          /\ d + 1 # 0 /\ (d + 1) - 1 = d
    BY PageAssumption
  <2>2. ASSUME NEW r \in Onward(s, x, path)
        PROVE  f[d][r.to][path] = SimpleFrom(s, d, r.to, path \cup {r.to})
    <3>1. r.to \in Entity
      BY DEF Onward, Relation
    <3>2. QED
      BY <1>3, <2>1, <3>1
  <2> HIDE DEF path
  <2>3. PathsOf(s, f, d + 1, x, path)
          = UNION {Extended(r, f[d][r.to][path]) : r \in Onward(s, x, path)}
    BY <2>1 DEF PathsOf
  <2>4. \A p : p \in PathsOf(s, f, d + 1, x, path) <=>
                 \E r \in Onward(s, x, path) :
                    p \in Extended(r, SimpleFrom(s, d, r.to, path \cup {r.to}))
    BY <2>2, <2>3
  <2>5. \A p : p \in PathsOf(s, f, d + 1, x, path) <=> p \in SimpleFrom(s, d + 1, x, path)
    BY <2>4, SimpleShorter, SimpleExtended
  <2>6. PathsOf(s, f, d + 1, x, path) = SimpleFrom(s, d + 1, x, path)
    BY <2>5
  <2>7. QED
    BY <1>1, <2>1, <2>6 DEF path
<1>4. Nat \subseteq T
  <2> HIDE DEF T
  <2> QED BY <1>2, <1>3, SetInduction
<1>5. \A n \in 0 .. MaxDepth : n \in T /\ n <= MaxDepth
  <2> HIDE DEF T
  <2> QED BY <1>4, PageAssumption
<1>6. QED
  BY <1>5, Zenon DEF FindsSimple

\* What the registry finds for an entity.
LEMMA PathsFound ==
  ASSUME NEW s, s \subseteq Relation, NEW e \in Entity
  PROVE  BuildExpansionPaths(s, e) = SimpleFrom(s, MaxDepth, e, {e})
<1>1. PICK f : Builds(s, f, MaxDepth) /\ BuildExpansionPaths(s, e) = f[MaxDepth][e][{}]
  BY BuildIs
<1>2. MaxDepth \in 0 .. MaxDepth /\ {} \in SUBSET Entity /\ {} \cup {e} = {e}
  BY PageAssumption
<1>3. f[MaxDepth][e][{}] = SimpleFrom(s, MaxDepth, e, {} \cup {e})
  <2>1. \A n \in 0 .. MaxDepth : \A x \in Entity : \A a \in SUBSET Entity :
           f[n][x][a] = SimpleFrom(s, n, x, a \cup {x})
    <3>1. FindsSimple(s, f, MaxDepth)
      BY <1>1, BuildsSimple
    <3>2. QED
      BY <3>1, Zenon DEF FindsSimple
  <2>2. QED
    BY <1>2, <2>1, Zenon
<1>4. QED
  BY <1>1, <1>2, <1>3

LEMMA SimpleIs ==
  ASSUME NEW e, NEW p \in Seq(STRING), p # <<>>
  PROVE  SimplePath(p, e) <=> \E q : Along(schema, p, q, e, {e})
BY DEF SimplePath, Along

\* The beginnings of a path that is offered.
LEMMA SimplePrefix ==
  ASSUME NEW e, NEW n \in Nat, NEW p \in SimpleFrom(schema, n, e, {e}), NEW i \in 1 .. Len(p)
  PROVE  SubSeq(p, 1, i) \in Seq(STRING) /\ SimplePath(SubSeq(p, 1, i), e)
<1> DEFINE t == SubSeq(p, 1, i)
<1>1. PICK q : Along(schema, p, q, e, {e})
  BY DEF SimpleFrom
<1>2. p \in Seq(STRING) /\ DOMAIN p = 1 .. Len(p) /\ Len(p) \in Nat
  BY DEF SimpleFrom
<1>3. /\ t \in Seq(STRING) /\ Len(t) = i /\ DOMAIN t = 1 .. i /\ 1 .. i \subseteq DOMAIN p
      /\ \A j \in 1 .. i : t[j] = p[j]
  BY <1>2
<1> DEFINE u == [j \in 1 .. i |-> q[j]]
<1> HIDE DEF t
<1>4. t # <<>> /\ 1 \in 1 .. i /\ \A j \in 1 .. i : j > 1 => j - 1 \in 1 .. i
  BY <1>3
<1>5. u \in [DOMAIN t -> schema]
  BY <1>1, <1>3 DEF Along
<1>6. \A j \in 1 .. i : u[j] = q[j]
  OBVIOUS
<1> HIDE DEF u
<1>7. Along(schema, t, u, e, {e})
  BY <1>1, <1>3, <1>4, <1>5, <1>6 DEF Along
<1>8. QED
  BY <1>3, <1>4, <1>7, SimpleIs DEF t

\* The registry offers what it should.
LEMMA Offered ==
  ASSUME schema \subseteq Relation, NEW e \in Entity
  PROVE  BuildExpansionPaths(schema, e) = {p \in PathNames : SimplePath(p, e)}
<1> DEFINE names == {r.name : r \in schema}
<1>1. names \subseteq STRING
  BY DEF Relation
<1>2. ASSUME NEW p \in PathNames, SimplePath(p, e)
      PROVE  p \in SimpleFrom(schema, MaxDepth, e, {e})
  <2>1. PICK n \in 1 .. MaxDepth : p \in [1 .. n -> names]
    BY DEF PathNames
  <2>2. p \in Seq(STRING) /\ Len(p) = n /\ p # <<>>
    BY <1>1, <2>1, PageAssumption
  <2>3. QED
    BY <1>2, <2>2, SimpleIs DEF SimpleFrom
<1>3. ASSUME NEW p \in SimpleFrom(schema, MaxDepth, e, {e})
      PROVE  p \in PathNames /\ SimplePath(p, e)
  <2>1. /\ p \in Seq(STRING) /\ Len(p) \in 1 .. MaxDepth /\ DOMAIN p = 1 .. Len(p)
        /\ p # <<>>
    BY PageAssumption DEF SimpleFrom
  <2>2. PICK q : Along(schema, p, q, e, {e})
    BY DEF SimpleFrom
  <2>3. \A i \in 1 .. Len(p) : p[i] \in names
    BY <2>1, <2>2 DEF Along
  <2>4. p \in [1 .. Len(p) -> names]
    BY <2>1, <2>3
  <2>5. p \in PathNames
    BY <2>1, <2>4 DEF PathNames
  <2>6. QED
    BY <2>1, <2>2, <2>5, SimpleIs
<1>4. QED
  BY <1>2, <1>3, PathsFound

-----------------------------------------------------------------------------
(* The registry in use. *)

Registered ==
    /\ pc = "start" => allowed = [e \in Entity |-> {}]
    /\ pc # "start" => allowed = [e \in Entity |-> BuildExpansionPaths(schema, e)]

Unasked ==
    pc \in {"start", "ready", "rejected"} =>
        todo = <<>> /\ joined = <<>> /\ options.expand = <<>>

OptionsOK(o, paths) ==
    /\ o.page \in Nat \ {0} /\ o.pageSize \in 1 .. MaxPageSize
    /\ o.search \in BOOLEAN /\ o.includeDeleted \in BOOLEAN
    /\ o.sort \in Seq([field : Sortable, desc : BOOLEAN])
    /\ o.expand \in Seq(paths)

\* Inductive.
RegistryInv == TypeOK /\ Registered /\ Unasked /\ JoinsResolve

LEMMA TypeIs ==
  TypeOK <=> /\ schema \in Schema /\ endpoint \in Endpoint
             /\ allowed \in [Entity -> SUBSET Seq(STRING)]
             /\ OptionsOK(options, allowed[root])
             /\ todo \in Seq(allowed[root]) /\ joined \in Seq(Seq(STRING))
             /\ page.items \subseteq 1 .. page.rows /\ page.totalPages \in Nat
             /\ pc \in {"start", "ready", "rejected", "join", "answered", "error"}
BY DEF TypeOK, OptionsOK

LEMMA DefaultsOK == \A paths : OptionsOK(DefaultOptions, paths)
BY PageAssumption DEF OptionsOK, DefaultOptions, AtMost

\* The members of a sequence.
LEMMA MembersOf ==
  ASSUME NEW S, NEW l \in Seq(S)
  PROVE  \A i \in DOMAIN l : l[i] \in S
OBVIOUS

LEMMA SequenceOf ==
  ASSUME NEW S, NEW T, NEW l \in Seq(S), \A i \in DOMAIN l : l[i] \in T
  PROVE  l \in Seq(T)
OBVIOUS

\* What follows a sequence in another.
LEMMA Appended ==
  ASSUME NEW S, NEW l \in Seq(S), NEW m \in Seq(S)
  PROVE  /\ l \o m \in Seq(S) /\ DOMAIN (l \o m) = 1 .. Len(l) + Len(m)
         /\ DOMAIN l = 1 .. Len(l) /\ Len(l) \in Nat
         /\ \A i \in 1 .. Len(l) : (l \o m)[i] = l[i]
         /\ \A i \in 1 .. Len(m) : (l \o m)[Len(l) + i] = m[i]
OBVIOUS

\* What is accepted of a query string gives options of their types.
LEMMA AcceptedOK ==
  ASSUME NEW q \in Query, NEW c \in Endpoint,
         Accepted(FilterOptions(q, c), c.entity)
  PROVE  OptionsOK(GetQueryOptions(FilterOptions(q, c)), allowed[c.entity])
<1> DEFINE kept == FilterOptions(q, c)
           o == GetQueryOptions(kept)
           raw == {Missing, Empty, Many, Junk}
<1>1. /\ kept["sort"] \in raw \cup Seq([field : STRING, desc : BOOLEAN])
      /\ kept["expand"] \in raw \cup Seq(Seq(STRING))
  <2>1. /\ kept["sort"] \in {q["sort"], Missing}
        /\ kept["expand"] \in {q["expand"], Missing}
    BY DEF FilterOptions, Field
  <2>2. QED
    BY <2>1, InputAssumption
<1> HIDE DEF kept
<1>2. /\ PositiveInt(kept["page"]) /\ PositiveInt(kept["pageSize"])
      /\ SortAllowed(kept["sort"]) /\ ExpandAllowed(kept["expand"], c.entity)
  BY DEF Accepted, kept
<1>3. /\ o.page = ParsePositiveInt(kept["page"], 1)
      /\ o.pageSize = AtMost(ParsePositiveInt(kept["pageSize"], DefaultPageSize),
                             MaxPageSize)
      /\ o.search \in BOOLEAN /\ o.includeDeleted \in BOOLEAN
      /\ o.sort = ListOf(kept["sort"]) /\ o.expand = ListOf(kept["expand"])
  BY DEF GetQueryOptions
<1> HIDE DEF o
<1>4. o.page \in Nat \ {0} /\ o.pageSize \in 1 .. MaxPageSize
  BY <1>2, <1>3, PageAssumption DEF PositiveInt, ParsePositiveInt, AtMost
<1>5. o.sort \in Seq([field : Sortable, desc : BOOLEAN])
  <2> DEFINE l == ListOf(kept["sort"])
  <2>1. l \in Seq([field : STRING, desc : BOOLEAN])
    BY <1>1, <1>2 DEF ListOf, SortAllowed
  <2>2. \A i \in DOMAIN l : l[i].field \in Sortable
    BY <1>2 DEF SortAllowed
  <2> HIDE DEF l
  <2>3. \A i \in DOMAIN l : l[i] \in [field : STRING, desc : BOOLEAN]
    BY <2>1, MembersOf
  <2>4. \A i \in DOMAIN l : l[i] \in [field : Sortable, desc : BOOLEAN]
    BY <2>2, <2>3
  <2>5. l \in Seq([field : Sortable, desc : BOOLEAN])
    BY <2>1, <2>4, SequenceOf
  <2>6. QED
    BY <1>3, <2>5 DEF l
<1>6. o.expand \in Seq(allowed[c.entity])
  <2> DEFINE l == ListOf(kept["expand"])
  <2>1. l \in Seq(Seq(STRING))
    <3> DEFINE S == Seq(STRING)
    <3>1. kept["expand"] \in raw \cup Seq(S) /\ kept["expand"] # Junk
      BY <1>1, <1>2 DEF ExpandAllowed
    <3> HIDE DEF S
    <3>2. l \in Seq(S)
      BY <3>1 DEF ListOf
    <3>3. QED
      BY <3>2 DEF S
  <2>2. \A i \in DOMAIN l : l[i] \in allowed[c.entity]
    BY <1>2 DEF ExpandAllowed
  <2> HIDE DEF l
  <2>3. l \in Seq(allowed[c.entity])
    BY <2>1, <2>2, SequenceOf
  <2>4. QED
    BY <1>3, <2>3 DEF l
<1>7. QED
  BY <1>3, <1>4, <1>5, <1>6 DEF OptionsOK, o, kept

LEMMA InitRegistry == Init => RegistryInv
<1> SUFFICES ASSUME Init PROVE RegistryInv
  OBVIOUS
<1>1. root \in Entity
  BY InputAssumption DEF Init, root, Config
<1>2. TypeOK
  BY <1>1, DefaultsOK, TypeIs DEF Init, NoPage
<1>3. QED
  BY <1>2 DEF Init, RegistryInv, Registered, Unasked, JoinsResolve, DefaultOptions

\* A join of a path that is offered resolves.
LEMMA JoinResolves ==
  ASSUME RegistryInv, Join
  PROVE  joined' \in Seq(Seq(STRING)) /\ todo' \in Seq(allowed[root]) /\ JoinsResolve'
<1> DEFINE h == Head(todo)
           new == [i \in 1 .. Len(h) |-> SubSeq(h, 1, i)]
           k == Len(joined)
<1>1. /\ todo # <<>> /\ pc = "join" /\ joined' = joined \o new /\ todo' = Tail(todo)
      /\ UNCHANGED <<schema, endpoint>>
  BY DEF Join
<1>2. /\ todo \in Seq(allowed[root]) /\ joined \in Seq(Seq(STRING)) /\ schema \subseteq Relation
      /\ root \in Entity /\ allowed[root] = BuildExpansionPaths(schema, root)
  BY <1>1, InputAssumption DEF RegistryInv, TypeOK, Registered, root, Config
<1>3. h \in SimpleFrom(schema, MaxDepth, root, {root}) /\ todo' \in Seq(allowed[root])
  BY <1>1, <1>2, PathsFound
<1>4. h \in Seq(STRING) /\ Len(h) \in Nat
  BY <1>3 DEF SimpleFrom
<1>5. \A i \in 1 .. Len(h) : SubSeq(h, 1, i) \in Seq(STRING) /\ SimplePath(SubSeq(h, 1, i), root)
  BY <1>3, SimplePrefix, PageAssumption
<1>6. new \in Seq(Seq(STRING)) /\ Len(new) = Len(h)
  BY <1>4, <1>5
<1>7. \A i \in 1 .. Len(h) : new[i] = SubSeq(h, 1, i)
  OBVIOUS
<1> HIDE DEF new, h
<1>8. /\ joined' \in Seq(Seq(STRING)) /\ DOMAIN joined' = 1 .. k + Len(h) /\ k \in Nat
      /\ DOMAIN joined = 1 .. k
      /\ \A i \in 1 .. k : joined'[i] = joined[i]
      /\ \A i \in 1 .. Len(h) : joined'[k + i] = new[i]
  <2> DEFINE S == Seq(STRING)
  <2>1. joined \in Seq(S) /\ new \in Seq(S)
    BY <1>2, <1>6
  <2> HIDE DEF S
  <2>2. joined' = joined \o new /\ Len(new) = Len(h)
    BY <1>1, <1>6
  <2>3. /\ joined' \in Seq(S) /\ DOMAIN joined' = 1 .. k + Len(h) /\ k \in Nat
        /\ DOMAIN joined = 1 .. k
        /\ \A i \in 1 .. k : joined'[i] = joined[i]
        /\ \A i \in 1 .. Len(h) : joined'[k + i] = new[i]
    <3>1. Len(new) = Len(h)
      BY <2>2
    <3>2. /\ joined \o new \in Seq(S)
          /\ DOMAIN (joined \o new) = 1 .. Len(joined) + Len(new)
          /\ DOMAIN joined = 1 .. Len(joined) /\ Len(joined) \in Nat
          /\ \A i \in 1 .. Len(joined) : (joined \o new)[i] = joined[i]
          /\ \A i \in 1 .. Len(new) : (joined \o new)[Len(joined) + i] = new[i]
      BY <2>1, Appended
    <3>3. QED
      BY <2>2, <3>1, <3>2
  <2>4. QED
    BY <2>3 DEF S
<1> HIDE DEF k
<1>9. ASSUME NEW i \in 1 .. k + Len(h)
      PROVE  /\ SimplePath(joined'[i], root)
             /\ Len(joined'[i]) = 1 \/ \E j \in 1 .. i - 1 : joined'[j] = Front(joined'[i])
  <2>1. CASE i \in 1 .. k
    <3>1. joined'[i] = joined[i] /\ \A j \in 1 .. i - 1 : joined'[j] = joined[j]
      BY <1>8, <2>1
    <3>2. /\ SimplePath(joined[i], root)
          /\ Len(joined[i]) = 1 \/ \E j \in 1 .. i - 1 : joined[j] = Front(joined[i])
      BY <1>8, <2>1 DEF RegistryInv, JoinsResolve
    <3>3. QED
      BY <3>1, <3>2
  <2>2. CASE i \notin 1 .. k
    <3> DEFINE n == i - k
    <3>1. n \in 1 .. Len(h) /\ i = k + n
      BY <1>4, <1>8, <2>2
    <3> HIDE DEF n
    <3>2. joined'[i] = SubSeq(h, 1, n)
      BY <1>7, <1>8, <3>1
    <3>3. SimplePath(joined'[i], root)
      BY <1>5, <3>1, <3>2
    <3>4. CASE n = 1
      <4>1. Len(SubSeq(h, 1, n)) = 1
        BY <1>4, <3>1, <3>4
      <4>2. QED
        BY <3>2, <3>3, <4>1
    <3>5. CASE n # 1
      <4>1. n - 1 \in 1 .. Len(h) /\ i - 1 = k + (n - 1) /\ i - 1 \in 1 .. i - 1
        BY <1>4, <1>8, <3>1, <3>5
      <4>2. joined'[i - 1] = SubSeq(h, 1, n - 1)
        BY <1>7, <1>8, <4>1
      <4>3. Front(SubSeq(h, 1, n)) = SubSeq(h, 1, n - 1)
        BY <1>4, <3>1, <4>1 DEF Front
      <4>4. QED
        BY <3>2, <3>3, <4>1, <4>2, <4>3
    <3>6. QED
      BY <3>4, <3>5
  <2>3. QED
    BY <2>1, <2>2
<1>10. root' = root
  BY <1>1 DEF root
<1>11. JoinsResolve'
  <2>1. \A i \in DOMAIN joined' : SimplePath(joined'[i], root) => SimplePath(joined[i], root)'
    BY <1>1, <1>10 DEF SimplePath
  <2>2. QED
    BY <1>8, <1>9, <2>1 DEF JoinsResolve
<1>12. QED
  BY <1>3, <1>8, <1>11

LEMMA NextRegistry == RegistryInv /\ [Next]_vars => RegistryInv'
<1> SUFFICES ASSUME RegistryInv, [Next]_vars PROVE RegistryInv'
  OBVIOUS
<1>1. CASE Register
  <2>1. /\ pc = "start" /\ pc' = "ready"
        /\ allowed' = [e \in Entity |-> BuildExpansionPaths(schema, e)]
        /\ UNCHANGED <<schema, query, endpoint, options, todo, joined, page>>
    BY <1>1 DEF Register
  <2>2. \A e \in Entity : BuildExpansionPaths(schema, e) \subseteq Seq(STRING)
    BY PathsFound, InputAssumption DEF RegistryInv, TypeOK, SimpleFrom
  <2>3. allowed' \in [Entity -> SUBSET Seq(STRING)]
    BY <2>1, <2>2
  <2>4. todo = <<>> /\ joined = <<>> /\ options.expand = <<>>
    BY <2>1 DEF RegistryInv, Unasked
  <2>5. OptionsOK(options, allowed[root])'
    BY <2>1, <2>4, TypeIs DEF RegistryInv, OptionsOK
  <2>6. TypeOK'
    BY <2>1, <2>3, <2>4, <2>5 DEF RegistryInv, TypeOK, OptionsOK
  <2>7. QED
    BY <2>1, <2>4, <2>6 DEF RegistryInv, Registered, Unasked, JoinsResolve
<1>2. ASSUME NEW q \in Query, NEW c \in Endpoint, Parse(q, c) PROVE RegistryInv'
  <2> DEFINE kept == FilterOptions(q, c)
  <2>1. /\ pc = "ready" /\ endpoint' = c /\ UNCHANGED <<schema, allowed, joined, page>>
        /\ todo = <<>> /\ joined = <<>> /\ options.expand = <<>> /\ root' = c.entity
    BY <1>2 DEF Parse, RegistryInv, Unasked, root
  <2>2. CASE Accepted(kept, c.entity)
    <3>1. options' = GetQueryOptions(kept) /\ todo' = options'.expand /\ pc' = "join"
      BY <1>2, <2>2 DEF Parse
    <3>2. OptionsOK(options', allowed[c.entity])
      BY <2>2, <3>1, AcceptedOK
    <3>3. todo' \in Seq(allowed[c.entity])
      BY <3>1, <3>2 DEF OptionsOK
    <3>4. TypeOK'
      BY <2>1, <3>1, <3>2, <3>3 DEF RegistryInv, TypeOK, OptionsOK
    <3>5. QED
      BY <2>1, <3>1, <3>4 DEF RegistryInv, Registered, Unasked, JoinsResolve
  <2>3. CASE ~Accepted(kept, c.entity)
    <3>1. UNCHANGED <<options, todo>> /\ pc' = "rejected"
      BY <1>2, <2>3 DEF Parse
    <3>2. OptionsOK(options', allowed[c.entity])
      <4>1. OptionsOK(options, allowed[root]) /\ <<>> \in Seq(allowed[c.entity])
        BY TypeIs DEF RegistryInv
      <4>2. options.expand \in Seq(allowed[c.entity])
        BY <2>1, <4>1
      <4>3. OptionsOK(options, allowed[c.entity])
        BY <4>1, <4>2 DEF OptionsOK
      <4>4. QED
        BY <3>1, <4>3
    <3>3. todo' \in Seq(allowed[c.entity])
      BY <2>1, <3>1
    <3>4. TypeOK'
      BY <2>1, <3>1, <3>2, <3>3 DEF RegistryInv, TypeOK, OptionsOK
    <3>5. QED
      BY <2>1, <3>1, <3>4 DEF RegistryInv, Registered, Unasked, JoinsResolve
  <2>4. QED
    BY <2>2, <2>3
<1>3. CASE Join
  <2>1. /\ joined' \in Seq(Seq(STRING)) /\ todo' \in Seq(allowed[root]) /\ JoinsResolve'
    BY <1>3, JoinResolves
  <2>2. /\ pc = "join" /\ UNCHANGED <<schema, allowed, query, endpoint, options, page, pc>>
    BY <1>3 DEF Join
  <2>3. TypeOK'
    BY <2>1, <2>2 DEF RegistryInv, TypeOK, root
  <2>4. QED
    BY <2>1, <2>2, <2>3 DEF RegistryInv, Registered, Unasked
<1>4. ASSUME NEW rows \in 0 .. MaxRows, Fetch(rows) PROVE RegistryInv'
  <2>1. /\ pc = "join" /\ pc' \in {"answered", "error"}
        /\ UNCHANGED <<schema, allowed, query, endpoint, options, todo, joined>>
        /\ page' \in {page, [rows |-> rows,
                             items |-> PageRows(options.page, options.pageSize, rows),
                             totalPages |-> TotalPages(rows, options.pageSize)]}
    BY <1>4 DEF Fetch
  <2>2. TotalPages(rows, options.pageSize) \in Nat
    <3>1. rows \in Nat /\ options.pageSize \in Nat \ {0}
      BY PageAssumption DEF RegistryInv, TypeOK
    <3>2. QED
      BY <3>1, PagesOfRows
  <2>3. PageRows(options.page, options.pageSize, rows) \subseteq 1 .. rows
    BY DEF PageRows
  <2>4. page'.items \subseteq 1 .. page'.rows /\ page'.totalPages \in Nat
    BY <2>1, <2>2, <2>3 DEF RegistryInv, TypeOK
  <2>5. TypeOK'
    BY <2>1, <2>4 DEF RegistryInv, TypeOK, root
  <2>6. QED
    BY <2>1, <2>5 DEF RegistryInv, Registered, Unasked, JoinsResolve, SimplePath, root
<1>5. CASE UNCHANGED vars
  <2>1. TypeOK'
    BY <1>5 DEF vars, RegistryInv, TypeOK, root
  <2>2. Registered' /\ Unasked'
    BY <1>5 DEF vars, RegistryInv, Registered, Unasked
  <2>3. JoinsResolve'
    BY <1>5 DEF vars, RegistryInv, JoinsResolve, SimplePath, root
  <2>4. QED
    BY <2>1, <2>2, <2>3 DEF RegistryInv
<1>6. QED
  BY <1>1, <1>2, <1>3, <1>4, <1>5 DEF Next

-----------------------------------------------------------------------------
\* Whatever the query string, what getQueryOptions accepts is within its bounds,
\* sorted by columns one may sort by and expanded with paths that are offered.
THEOREM TypeCorrect == Spec => []TypeOK
<1>1. RegistryInv => TypeOK
  BY DEF RegistryInv
<1>2. QED
  BY <1>1, InitRegistry, NextRegistry, PTL DEF Spec

\* Whatever the entities and their relations, buildExpansionPaths finds each path
\* that enters no entity twice and no excluded relation, up to its depth, and no
\* other.
THEOREM OffersAllSimplePaths == Spec => []OffersSimplePaths
<1>1. RegistryInv => OffersSimplePaths
  BY Offered, InputAssumption DEF RegistryInv, TypeOK, Registered, OffersSimplePaths
<1>2. QED
  BY <1>1, InitRegistry, NextRegistry, PTL DEF Spec

\* Whatever is expanded, expandRelations joins every relation to the root or to an
\* alias that was joined before it.
THEOREM JoinsAlwaysResolve == Spec => []JoinsResolve
<1>1. RegistryInv => JoinsResolve
  BY DEF RegistryInv
<1>2. QED
  BY <1>1, InitRegistry, NextRegistry, PTL DEF Spec
=============================================================================
