----------------------------- MODULE QueryPages ------------------------------
(***************************************************************************)
(* A list of the query engine of core, page after page                     *)
(* (core/src/queries): a client of the bus follows the cursors while rows  *)
(* come, go and move in the order, permissions change, and the budget of   *)
(* bytes of a page is that of the connection of the moment.                *)
(*                                                                         *)
(* A request is two steps, because it reads the database twice: the rows   *)
(* of the page, and the collections they include.  Only with these is the  *)
(* size of an item known, and with it where the page is cut.               *)
(*                                                                         *)
(* Abstractions.  A resource has one column one may sort by besides `id`,  *)
(* and a filter by project.  A filter is a set: the lists of a filter are  *)
(* hashed in any order.  Dates are compared with the precision of the      *)
(* cursor, milliseconds, in which every row of the application is written. *)
(***************************************************************************)
EXTENDS Integers, Sequences, FiniteSetsExt, SequencesExt

CONSTANTS
  Ids,        \* of the rows there may be
  Keys,       \* values of the column
  Tables,     \* rows there may be at first
  Nullable,   \* whether the resource says that it may be null
  Projects,
  ProjectOf,  \* the project of each row
  External,   \* whether the caller is an external person
  Queries,    \* sort and filter of the queries
  PageLimits, \* `page.limit` of a request
  DefaultSort, DefaultLimit, MaxLimit,
  Budgets,    \* bytes there may be for the items of a page
  Sizes,      \* of an item
  MaxChanges, \* of rows and permissions in a walk
  MaxFaults,  \* requests that fail in a walk
  Null, None

RowKeys == Keys \union {None} \union IF Nullable THEN {Null} ELSE {}
Token   == [field : {"key", "id"}, dir : {"ASC", "DESC"}]
Filters == SUBSET Projects \union {None}

\* What a cursor says: where a page ended, of which order and filter.
Cursors == [keys : Seq(RowKeys \union Ids), hash : Filters \X Seq(Token)]

ASSUME QueriesAssumption ==
  /\ Keys \subseteq Nat /\ Ids \subseteq Nat \ {0} /\ IsFiniteSet(Ids)
  /\ Null \notin Keys \union Ids /\ None \notin Keys \union {Null} /\ None \notin Cursors
  /\ ProjectOf \in [Ids -> Projects] /\ Tables \subseteq [Ids -> RowKeys]
  /\ Queries \subseteq [sort : Seq(Token), filter : Filters]
  /\ DefaultSort \in Seq(Token) /\ DefaultSort # <<>>
  /\ MaxLimit \in Nat /\ DefaultLimit \in 1..MaxLimit /\ PageLimits \subseteq Nat
  /\ MaxChanges \in Nat /\ MaxFaults \in Nat

VARIABLES
  table,        \* the key of each row, or None if it is not there
  permissions,  \* the projects the caller has a permission for
  stage,        \* of the request
  query,        \* the query being walked
  limit,        \* of the request
  entries,      \* its rows: id and keys
  more,         \* whether there was one row too many
  cursor,       \* what the client got with the last page
  walking,      \* whether there may be more
  changes, faults,
  returned,     \* history: how often each row came, up to two
  moved         \* history: rows that were not in one place all along

rowVars  == <<table, permissions>>
walkVars == <<stage, query, limit, entries, more, cursor, walking, faults, returned>>
vars     == <<rowVars, walkVars, changes, moved>>

-----------------------------------------------------------------------------
(* What a query means.                                                     *)

\* Ties are broken by id, in the direction of the last criterion.
parseSort(tokens) ==
  LET t == IF tokens = <<>> THEN DefaultSort ELSE tokens
  IN  IF \E i \in DOMAIN t : t[i].field = "id" THEN t
      ELSE Append(t, [field |-> "id", dir |-> Last(t).dir])

\* The order of each query.
orderOf == [q \in Queries |-> parseSort(q.sort)]

\* Fault: no maximum.
Unlimited(n) == IF n = 0 THEN DefaultLimit ELSE n
\* What is refused is left out: a limit below zero is.
pageLimit(n) == IF n = 0 THEN DefaultLimit ELSE Min({n, MaxLimit})

\* Fault: what is hashed of the sort is what was written.
HashOfTokens(q) == <<q.filter, Len(q.sort)>>
\* The hash of the filter and of the order that results, not of the limit.
fingerprint(q) == <<q.filter, orderOf[q]>>

Column(id, criterion) == IF criterion.field = "id" THEN id ELSE table[id]

\* The filter and, for an external person, the scope of the resource.
Visible(q, id) ==
  /\ table[id] # None
  /\ q.filter # None => ProjectOf[id] \in q.filter
  /\ External => ProjectOf[id] \in permissions

\* ORDER BY of PostgreSQL: a null is greater than any value.
Greater(a, b) == a # b /\ (a = Null \/ (b # Null /\ a > b))
Precedes(a, b, sort) ==
  \E i \in DOMAIN sort :
    LET x == Column(a, sort[i])
        y == Column(b, sort[i])
    IN  /\ \A j \in 1..i-1 : Column(a, sort[j]) = Column(b, sort[j])
        /\ IF sort[i].dir = "DESC" THEN Greater(x, y) ELSE Greater(y, x)

\* A comparison in SQL is not true of a null.
Less(a, b) == a # Null /\ b # Null /\ a < b
Same(a, b) == a # Null /\ b # Null /\ a = b

\* Fault: the nulls at the end of an ascending order are forgotten.
NullsForgotten(id, criterion, k) ==
  LET x == Column(id, criterion)
  IN  IF criterion.dir = "DESC" THEN Less(x, k) ELSE Less(k, x)
\* A row is beyond a key in one criterion.
After(id, criterion, k) ==
  LET x == Column(id, criterion)
  IN  IF criterion.field = "key" /\ Nullable /\ k = Null
        THEN criterion.dir = "DESC" /\ x # Null
      ELSE IF criterion.dir = "DESC" THEN Less(x, k)
      ELSE Less(k, x) \/ (criterion.field = "key" /\ Nullable /\ x = Null)

EqualTo(id, criterion, k) ==
  LET x == Column(id, criterion)
  IN  IF criterion.field = "key" /\ Nullable /\ k = Null THEN x = Null ELSE Same(x, k)

\* Fault: rows that are equal up to the last criterion are not left behind.
Inclusive(id, sort, keys) ==
  \/ \E i \in DOMAIN sort :
       /\ \A j \in 1..i-1 : EqualTo(id, sort[j], keys[j])
       /\ After(id, sort[i], keys[i])
  \/ \A j \in DOMAIN sort : EqualTo(id, sort[j], keys[j])
\* The comparison of tuples, and what it is expanded to if it cannot be used.
keysetSql(id, sort, keys) ==
  \E i \in DOMAIN sort :
    /\ \A j \in 1..i-1 : EqualTo(id, sort[j], keys[j])
    /\ After(id, sort[i], keys[i])

\* The rows of a page after a cursor, if there is one, and the keys that go with each,
\* one more than asked for.
Selected(q, after, n) ==
  LET sort == orderOf[q]
      S    == {id \in Ids : Visible(q, id) /\ (after # None => keysetSql(id, sort, after.keys))}
      Rank(id) == 1 + Cardinality({x \in S : Precedes(x, id, sort)})
  IN  [i \in 1..Min({n + 1, Cardinality(S)}) |->
         LET id == CHOOSE id \in S : Rank(id) = i
         IN  [id |-> id, keys |-> [j \in DOMAIN sort |-> Column(id, sort[j])]]]

-----------------------------------------------------------------------------
(* Pages.                                                                  *)

\* The bytes of the first items.
UsedBy(size) ==
  LET used[n \in 0..Len(size)] == IF n = 0 THEN 0 ELSE used[n - 1] + size[n]
  IN  used

\* How many items fit: a first one that does not is truncated, and goes alone.
Fitting(size, budget) ==
  Max({n \in DOMAIN size : UsedBy(size)[n] <= budget} \union {Min({1, Len(size)})})

\* Whether there are rows after the first n entries.
GoesOn(n) == more \/ n < Len(entries)

-----------------------------------------------------------------------------
Init ==
  /\ table \in Tables /\ permissions = Projects
  /\ stage = "idle" /\ query \in Queries /\ limit = 0
  /\ entries = <<>> /\ more = FALSE
  /\ cursor = None /\ walking = TRUE
  /\ changes = 0 /\ faults = 0
  /\ returned = [id \in Ids |-> 0] /\ moved = {}

(* Rows and permissions change.                                            *)

\* Rows that one does not find where they were.
Elsewhere == {id \in Ids : table'[id] # table[id]
                \/ (External /\ (ProjectOf[id] \in permissions) # (ProjectOf[id] \in permissions'))}

Change ==
  /\ walking /\ changes < MaxChanges
  /\ changes' = changes + 1
  /\ moved' = moved \union Elsewhere
  /\ UNCHANGED walkVars

Write(id, key) ==
  /\ key # table[id]
  /\ table' = [table EXCEPT ![id] = key]
  /\ UNCHANGED permissions
  /\ Change

Permit(p) ==
  /\ External
  /\ permissions' = IF p \in permissions THEN permissions \ {p} ELSE permissions \union {p}
  /\ UNCHANGED table
  /\ Change

(* The client.                                                             *)

Stop == walking' = FALSE /\ cursor' = None /\ limit' = 0

\* The query comes again in other words, or another one with the same cursor.
Rephrase(q) ==
  /\ walking /\ stage = "idle" /\ q # query
  /\ query' = q
  /\ UNCHANGED <<rowVars, stage, limit, entries, more, cursor, walking, changes, faults,
                 returned, moved>>

(* The engine.                                                             *)

\* What the client thinks of a cursor, decodeCursor() decides.
Accepted == cursor # None => cursor.hash = fingerprint(query)

\* runList(), up to the rows.
Ask(n) ==
  /\ walking /\ stage = "idle" /\ Accepted
  /\ stage' = "selected" /\ limit' = pageLimit(n)
  /\ LET rows == Selected(query, cursor, limit')
     IN  /\ more' = (Len(rows) > limit')
         /\ entries' = SubSeq(rows, 1, Min({limit', Len(rows)}))
  /\ UNCHANGED <<rowVars, query, cursor, walking, changes, faults, returned, moved>>

\* invalid_cursor: the client has to start again.
Reject ==
  /\ walking /\ stage = "idle" /\ ~ Accepted
  /\ Stop
  /\ UNCHANGED <<rowVars, stage, query, entries, more, changes, faults, returned, moved>>

\* runList(), from the collections to the reply.
Answer(budget) ==
  /\ stage = "selected"
  /\ stage' = "idle" /\ entries' = <<>> /\ more' = FALSE
  /\ UNCHANGED <<rowVars, query, changes, faults, moved>>
  /\ \E n \in {Fitting(size, budget) : size \in [DOMAIN entries -> Sizes]} :
       LET page == {entries[i].id : i \in 1..n}
       IN  /\ returned' = [id \in Ids |-> IF id \in page THEN Min({2, returned[id] + 1})
                                          ELSE returned[id]]
           /\ IF GoesOn(n) /\ n > 0
                THEN /\ cursor' = [keys |-> entries[n].keys, hash |-> fingerprint(query)]
                     /\ limit' = 0 /\ UNCHANGED walking
                ELSE Stop

\* A timeout of the statement, an error, or a reply that comes too late.
Fail ==
  /\ stage = "selected" /\ faults < MaxFaults
  /\ faults' = faults + 1
  /\ stage' = "idle" /\ limit' = 0 /\ entries' = <<>> /\ more' = FALSE
  /\ UNCHANGED <<rowVars, query, cursor, walking, changes, returned, moved>>

Next ==
  \/ \E id \in Ids, key \in RowKeys : Write(id, key)
  \/ \E p \in Projects : Permit(p)
  \/ \E q \in Queries : Rephrase(q)
  \/ \E n \in PageLimits : Ask(n)
  \/ \E b \in Budgets : Answer(b)
  \/ Reject \/ Fail

Spec == Init /\ [][Next]_vars

\* The client asks until there is no cursor, and core answers.
FairSpec ==
  /\ Spec
  /\ WF_vars(Reject \/ \E n \in PageLimits : Ask(n))
  /\ WF_vars(\E b \in Budgets : Answer(b))

-----------------------------------------------------------------------------
\* The type of every variable.
TypeOK ==
  /\ table \in [Ids -> RowKeys] /\ permissions \subseteq Projects
  /\ stage \in {"idle", "selected"}
  /\ query \in Queries /\ limit \in 0..MaxLimit
  /\ \A e \in Range(entries) : e.id \in Ids /\ Range(e.keys) \subseteq RowKeys \union Ids
  /\ more \in BOOLEAN /\ walking \in BOOLEAN
  /\ Len(entries) <= limit /\ (cursor # None \/ stage = "selected" => walking)
  /\ changes \in 0..MaxChanges /\ faults \in 0..MaxFaults
  /\ returned \in [Ids -> 0..2] /\ moved \subseteq Ids

\* A row that stays where it is comes once at most in a walk, whatever other rows do,
\* whatever the limits and the budgets of the pages are, and however often a request
\* fails or the query comes in other words.
EachOnce == \A id \in Ids : returned[id] <= 1 \/ id \in moved

\* When there is no cursor any more, every row that was there all along has come.
NoneMissing ==
  [][stage = "selected" /\ walking /\ ~ walking' =>
       \A id \in Ids : Visible(query, id) /\ id \notin moved => returned'[id] = 1]_vars

\* A walk comes to an end once the rows are left alone: no page with a cursor is empty.
WalkEnds == <>(~ walking)
=============================================================================
