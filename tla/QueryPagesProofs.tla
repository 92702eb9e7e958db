-------------------------- MODULE QueryPagesProofs --------------------------
(***************************************************************************)
(* Proofs about QueryPages for any rows, values, queries, limits, budgets, *)
(* changes and faults.                                                     *)
(*                                                                         *)
(* First the order of a query: keys compared one criterion after the other *)
(* are a strict total order, whichever way its criteria point and wherever *)
(* its nulls come; what the SQL of a page says is that order, and so is    *)
(* ORDER BY.  Then the rows of a page are the first ones beyond the        *)
(* cursor, and the invariant follows: of the rows that stay, those that    *)
(* have come are behind the cursor and the others beyond it.               *)
(***************************************************************************)
EXTENDS QueryPages, FiniteSetTheorems, TLAPS

-----------------------------------------------------------------------------
(* The order of the values.                                                *)

Values == Keys \union Ids \union {Null}

\* A value comes before another in a criterion.
Before(x, y, c) == IF c.dir = "DESC" THEN Greater(x, y) ELSE Greater(y, x)

LEMMA GreaterIsOrder ==
  ASSUME NEW x \in Values, NEW y \in Values, NEW z \in Values
  PROVE  /\ ~ Greater(x, x)
         /\ Greater(x, y) /\ Greater(y, z) => Greater(x, z)
         /\ x # y => Greater(x, y) \/ Greater(y, x)
<1>1. \A v \in Values : v # Null => v \in Nat
  BY QueriesAssumption DEF Values
<1>2. QED
  BY <1>1 DEF Greater

LEMMA BeforeIsOrder ==
  ASSUME NEW c, NEW x \in Values, NEW y \in Values, NEW z \in Values
  PROVE  /\ ~ Before(x, x, c)
         /\ Before(x, y, c) /\ Before(y, z, c) => Before(x, z, c)
         /\ x # y => Before(x, y, c) \/ Before(y, x, c)
BY GreaterIsOrder DEF Before

-----------------------------------------------------------------------------
(* The order of the keys of a row.                                         *)

\* An order has criteria, and one of them is the id.
Orders == {s \in Seq(Token) : \E i \in DOMAIN s : s[i].field = "id"}

\* The keys a row may have: only a column that may be null is.
Tuples(sort) ==
  {k \in [DOMAIN sort -> Values] :
     \A i \in DOMAIN sort : k[i] = Null => sort[i].field = "key" /\ Nullable}

\* Some keys come before others.
Ahead(a, b, sort) ==
  \E i \in DOMAIN sort : (\A j \in 1..i-1 : a[j] = b[j]) /\ Before(a[i], b[i], sort[i])

LEMMA OrdersHaveLength ==
  ASSUME NEW sort \in Orders
  PROVE  DOMAIN sort \subseteq Nat \ {0} /\ \A i \in DOMAIN sort : 1..i-1 \subseteq DOMAIN sort
<1>1. Len(sort) \in Nat /\ DOMAIN sort = 1..Len(sort)
  BY DEF Orders
<1>2. QED
  BY <1>1

LEMMA AheadIsStrict ==
  ASSUME NEW sort \in Orders, NEW a \in Tuples(sort)
  PROVE  ~ Ahead(a, a, sort)
BY BeforeIsOrder DEF Ahead, Tuples

LEMMA AheadIsTransitive ==
  ASSUME NEW sort \in Orders, NEW a \in Tuples(sort), NEW b \in Tuples(sort),
         NEW c \in Tuples(sort), Ahead(a, b, sort), Ahead(b, c, sort)
  PROVE  Ahead(a, c, sort)
<1>1. PICK i \in DOMAIN sort :
        (\A j \in 1..i-1 : a[j] = b[j]) /\ Before(a[i], b[i], sort[i])
  BY DEF Ahead
<1>2. PICK k \in DOMAIN sort :
        (\A j \in 1..k-1 : b[j] = c[j]) /\ Before(b[k], c[k], sort[k])
  BY DEF Ahead
<1>3. i \in Nat \ {0} /\ k \in Nat \ {0}
  BY OrdersHaveLength
<1>4. \A j \in DOMAIN sort : a[j] \in Values /\ b[j] \in Values /\ c[j] \in Values
  BY DEF Tuples
<1>5. CASE i < k
  <2>1. (\A j \in 1..i-1 : a[j] = c[j]) /\ b[i] = c[i]
    BY <1>1, <1>2, <1>3, <1>5
  <2>2. QED
    BY <1>1, <2>1 DEF Ahead
<1>6. CASE k < i
  <2>1. (\A j \in 1..k-1 : a[j] = c[j]) /\ a[k] = b[k]
    BY <1>1, <1>2, <1>3, <1>6
  <2>2. QED
    BY <1>2, <2>1 DEF Ahead
<1>7. CASE i = k
  <2>1. (\A j \in 1..i-1 : a[j] = c[j]) /\ Before(a[i], c[i], sort[i])
    BY <1>1, <1>2, <1>4, <1>7, BeforeIsOrder
  <2>2. QED
    BY <2>1 DEF Ahead
<1>8. QED
  BY <1>3, <1>5, <1>6, <1>7

\* Keys that differ differ first somewhere.
LEMMA AheadIsTotal ==
  ASSUME NEW sort \in Orders, NEW a \in Tuples(sort), NEW b \in Tuples(sort), a # b
  PROVE  Ahead(a, b, sort) \/ Ahead(b, a, sort)
<1> DEFINE less == {p \in Nat \X Nat : p[1] < p[2]}
           D == {j \in DOMAIN sort : a[j] # b[j]}
<1>1. IsWellFoundedOn(less, Nat)
  BY NatLessThanWellFounded DEF OpToRel
<1>2. D # {} /\ D \subseteq Nat
  BY OrdersHaveLength DEF Tuples
<1>3. PICK i \in D : \A j \in D : <<j, i>> \notin less
  <2> HIDE DEF less, D
  <2>1. QED
    BY <1>1, <1>2, WFMin, Zenon
<1>4. ASSUME NEW j \in 1..i-1
      PROVE  a[j] = b[j]
  <2>1. j \in DOMAIN sort /\ j \in Nat /\ i \in Nat /\ j < i
    BY OrdersHaveLength
  <2>2. <<j, i>> \in less
    BY <2>1
  <2>3. j \notin D
    BY <1>3, <2>2
  <2>4. QED
    BY <2>1, <2>3
<1>5. a[i] \in Values /\ b[i] \in Values /\ a[i] # b[i] /\ i \in DOMAIN sort
  BY DEF Tuples
<1>6. Before(a[i], b[i], sort[i]) \/ Before(b[i], a[i], sort[i])
  BY <1>5, BeforeIsOrder
<1>7. QED
  BY <1>4, <1>5, <1>6 DEF Ahead

\* Every order of a query is one.
LEMMA OrderIs ==
  ASSUME NEW q \in Queries
  PROVE  orderOf[q] \in Orders
<1> DEFINE t == IF q.sort = <<>> THEN DefaultSort ELSE q.sort
           more1 == Append(t, [field |-> "id", dir |-> Last(t).dir])
<1>1. t \in Seq(Token) /\ Len(t) \in Nat /\ Len(t) > 0
  BY QueriesAssumption
<1>2. orderOf[q] = IF \E i \in DOMAIN t : t[i].field = "id" THEN t ELSE more1
  BY DEF orderOf, parseSort
<1>3. Last(t) \in Token
  <2> HIDE DEF t
  <2>1. QED
    BY <1>1 DEF Last
<1>4. more1 \in Seq(Token) /\ Len(t) + 1 \in DOMAIN more1 /\ more1[Len(t) + 1].field = "id"
  <2> HIDE DEF t
  <2>1. [field |-> "id", dir |-> Last(t).dir] \in Token
    BY <1>3 DEF Token
  <2>2. QED
    BY <1>1, <2>1
<1>5. QED
  <2> HIDE DEF t, more1
  <2>1. QED
    BY <1>1, <1>2, <1>4 DEF Orders

-----------------------------------------------------------------------------
(* What the SQL says.                                                      *)

\* The keys of a row.
KeysOf(id, sort) == [j \in DOMAIN sort |-> Column(id, sort[j])]

\* The keys of a row that has this value.
Keyed(id, key, sort) ==
  [j \in DOMAIN sort |-> IF sort[j].field = "id" THEN id ELSE key]

\* The types these lemmas need.
Rows == table \in [Ids -> RowKeys]

LEMMA KeyedType ==
  ASSUME NEW id \in Ids, NEW key \in RowKeys, key # None, NEW sort \in Orders
  PROVE  Keyed(id, key, sort) \in Tuples(sort)
<1>1. ASSUME NEW j \in DOMAIN sort
      PROVE  /\ Keyed(id, key, sort)[j] \in Values
             /\ Keyed(id, key, sort)[j] = Null => sort[j].field = "key" /\ Nullable
  <2>1. key \in Keys \union {Null} /\ (key = Null => Nullable)
    BY QueriesAssumption DEF RowKeys
  <2>2. sort[j].field \in {"key", "id"}
    <3>1. sort \in Seq(Token)
      BY DEF Orders
    <3>2. sort[j] \in Token
      BY <3>1
    <3>3. QED
      BY <3>2 DEF Token
  <2>3. QED
    BY <2>1, <2>2, QueriesAssumption DEF Keyed, Values
<1>2. QED
  BY <1>1 DEF Keyed, Tuples

LEMMA KeysOfIs ==
  ASSUME NEW id, NEW sort
  PROVE  KeysOf(id, sort) = Keyed(id, table[id], sort)
BY DEF KeysOf, Keyed, Column

LEMMA KeysOfType ==
  ASSUME Rows, NEW id \in Ids, table[id] # None, NEW sort \in Orders
  PROVE  KeysOf(id, sort) \in Tuples(sort)
BY KeyedType, KeysOfIs DEF Rows

\* Two rows have different keys: the id is one.
LEMMA KeysDiffer ==
  ASSUME NEW sort \in Orders, NEW x, NEW y, x # y
  PROVE  KeysOf(x, sort) # KeysOf(y, sort)
<1>1. PICK i \in DOMAIN sort : sort[i].field = "id"
  BY DEF Orders
<1>2. KeysOf(x, sort)[i] = x /\ KeysOf(y, sort)[i] = y
  BY <1>1 DEF KeysOf, Column
<1>3. QED
  BY <1>2

\* ORDER BY.
LEMMA PrecedesIs ==
  ASSUME NEW sort \in Orders, NEW x, NEW y
  PROVE  Precedes(x, y, sort) <=> Ahead(KeysOf(x, sort), KeysOf(y, sort), sort)
BY OrdersHaveLength DEF Precedes, Ahead, KeysOf, Before

\* The condition of a page after the first, with the nulls of its criteria.
LEMMA KeysetIs ==
  ASSUME Rows, NEW id \in Ids, table[id] # None, NEW sort \in Orders,
         NEW keys \in Tuples(sort)
  PROVE  keysetSql(id, sort, keys) <=> Ahead(keys, KeysOf(id, sort), sort)
<1>1. KeysOf(id, sort) \in Tuples(sort)
  BY KeysOfType
<1>2. ASSUME NEW j \in DOMAIN sort
      PROVE  /\ EqualTo(id, sort[j], keys[j]) <=> keys[j] = KeysOf(id, sort)[j]
             /\ After(id, sort[j], keys[j]) <=> Before(keys[j], KeysOf(id, sort)[j], sort[j])
  <2> DEFINE x == KeysOf(id, sort)[j]
             k == keys[j]
  <2>1. /\ x = Column(id, sort[j]) /\ x \in Values /\ k \in Values
        /\ x = Null => sort[j].field = "key" /\ Nullable
        /\ k = Null => sort[j].field = "key" /\ Nullable
    BY <1>1 DEF Tuples, KeysOf
  <2>2. (x # Null => x \in Nat) /\ (k # Null => k \in Nat)
    BY <2>1, QueriesAssumption DEF Values
  <2>3. EqualTo(id, sort[j], k) <=> k = x
    BY <2>1 DEF EqualTo, Same
  <2>4. After(id, sort[j], k) <=> Before(k, x, sort[j])
    <3> HIDE DEF x, k
    <3>1. CASE k = Null
      BY <2>1, <3>1 DEF After, Before, Greater
    <3>2. CASE k # Null
      BY <2>1, <2>2, <3>2 DEF After, Before, Greater, Less
    <3>3. QED
      BY <3>1, <3>2
  <2>5. QED
    BY <2>3, <2>4
<1>3. QED
  BY <1>2, OrdersHaveLength DEF keysetSql, Ahead

-----------------------------------------------------------------------------
(* The rows of a page.                                                     *)

\* The elements of a finite set in a strict total order: one for each place, from the
\* first to the last.
LEMMA RankIs ==
  ASSUME NEW S, IsFiniteSet(S), NEW R,
         \A x \in S : <<x, x>> \notin R,
         \A x, y, z \in S : <<x, y>> \in R /\ <<y, z>> \in R => <<x, z>> \in R,
         \A x, y \in S : x # y => <<x, y>> \in R \/ <<y, x>> \in R,
         NEW rank, rank = [x \in S |-> 1 + Cardinality({y \in S : <<y, x>> \in R})]
  PROVE  /\ Cardinality(S) \in Nat
         /\ \A x \in S : rank[x] \in 1..Cardinality(S)
         /\ \A x, y \in S : <<x, y>> \in R <=> rank[x] < rank[y]
         /\ \A i \in 1..Cardinality(S) : \E x \in S : rank[x] = i
<1> DEFINE Below(x) == {y \in S : <<y, x>> \in R}
<1>1. Cardinality(S) \in Nat
  BY FS_CardinalityType
<1>2. ASSUME NEW x \in S
      PROVE  /\ IsFiniteSet(Below(x)) /\ Cardinality(Below(x)) \in Nat
             /\ Cardinality(Below(x)) < Cardinality(S)
             /\ rank[x] = 1 + Cardinality(Below(x))
  <2>1. Below(x) \in SUBSET (S \ {x})
    OBVIOUS
  <2>2. IsFiniteSet(S \ {x}) /\ Cardinality(S \ {x}) = Cardinality(S) - 1
    BY FS_RemoveElement
  <2>3. IsFiniteSet(Below(x)) /\ Cardinality(Below(x)) <= Cardinality(S \ {x})
    BY <2>1, <2>2, FS_Subset
  <2>4. Cardinality(Below(x)) \in Nat
    BY <2>3, FS_CardinalityType
  <2>5. rank[x] = 1 + Cardinality(Below(x))
    OBVIOUS
  <2>6. QED
    BY <1>1, <2>2, <2>3, <2>4, <2>5
<1>3. \A x \in S : rank[x] \in 1..Cardinality(S)
  <2> HIDE DEF Below
  <2>1. QED
    BY <1>1, <1>2
<1>4. ASSUME NEW x \in S, NEW y \in S, <<x, y>> \in R
      PROVE  rank[x] < rank[y]
  <2>1. Below(x) \union {x} \in SUBSET Below(y)
    BY <1>4
  <2>2. x \notin Below(x)
    OBVIOUS
  <2> HIDE DEF Below
  <2>3. Cardinality(Below(x) \union {x}) = Cardinality(Below(x)) + 1
    BY <1>2, <2>2, FS_AddElement
  <2>4. Cardinality(Below(x) \union {x}) <= Cardinality(Below(y))
    BY <1>2, <2>1, FS_Subset
  <2>5. QED
    BY <1>2, <2>3, <2>4
<1>5. \A x, y \in S : <<x, y>> \in R <=> rank[x] < rank[y]
  <2>1. ASSUME NEW x \in S, NEW y \in S, rank[x] < rank[y]
        PROVE  <<x, y>> \in R
    <3>1. rank[x] \in Nat /\ rank[y] \in Nat
      BY <1>1, <1>3
    <3>2. x # y
      <4>1. \A a, b \in Nat : a < b => a # b
        OBVIOUS
      <4>2. rank[x] # rank[y]
        BY <2>1, <3>1, <4>1, Zenon
      <4>3. QED
        BY <4>2, Zenon
    <3>3. <<y, x>> \notin R
      <4>1. SUFFICES ASSUME <<y, x>> \in R PROVE FALSE
        OBVIOUS
      <4>2. rank[y] < rank[x]
        BY <1>4, <4>1
      <4>3. QED
        BY <2>1, <3>1, <4>2
    <3>4. QED
      BY <3>2, <3>3
  <2>2. QED
    BY <1>4, <2>1
<1>6. \A i \in 1..Cardinality(S) : \E x \in S : rank[x] = i
  <2>1. rank \in Injection(S, 1..Cardinality(S))
    <3>1. rank \in [S -> 1..Cardinality(S)]
      BY <1>3
    <3>2. ASSUME NEW x \in S, NEW y \in S, rank[x] = rank[y]
          PROVE  x = y
      <4>1. ~ (rank[x] < rank[y]) /\ ~ (rank[y] < rank[x])
        BY <1>1, <1>3, <3>2
      <4>2. QED
        BY <1>5, <4>1
    <3>3. DOMAIN rank = S
      OBVIOUS
    <3>4. QED
      BY <3>1, <3>2, <3>3 DEF Injection, IsInjective
  <2>2. IsFiniteSet(1..Cardinality(S)) /\ Cardinality(1..Cardinality(S)) = Cardinality(S)
    BY <1>1, FS_Interval
  <2>3. rank \in Surjection(S, 1..Cardinality(S))
    BY <2>1, <2>2, FS_Injection
  <2>4. QED
    BY <2>3 DEF Surjection
<1>7. QED
  BY <1>1, <1>3, <1>5, <1>6

\* The rows of a query beyond a cursor, or all of them.
Beyond(q, after) ==
  {id \in Ids : Visible(q, id) /\ (after # None => keysetSql(id, orderOf[q], after.keys))}

\* What is selected: the first of the rows beyond the cursor, in order and with their keys,
\* one more than asked for if there are as many.
LEMMA SelectedIs ==
  ASSUME Rows, NEW q \in Queries, NEW after,
         NEW n \in Nat, NEW rows, rows = Selected(q, after, n)
  PROVE  /\ rows \in Seq([id : Ids, keys : Tuples(orderOf[q])]) /\ Len(rows) <= n + 1
         /\ \A i \in 1..Len(rows) : /\ rows[i].id \in Beyond(q, after)
                                    /\ rows[i].keys = KeysOf(rows[i].id, orderOf[q])
         /\ \A i, k \in 1..Len(rows) :
              i < k => Ahead(rows[i].keys, rows[k].keys, orderOf[q])
         /\ \A x \in Beyond(q, after) :
              \/ \E i \in 1..Len(rows) : rows[i].id = x
              \/ /\ Len(rows) = n + 1
                 /\ \A i \in 1..Len(rows) :
                      Ahead(rows[i].keys, KeysOf(x, orderOf[q]), orderOf[q])
<1> DEFINE sort == orderOf[q]
           S == Beyond(q, after)
           R == {p \in S \X S : Precedes(p[1], p[2], sort)}
           rank == [x \in S |-> 1 + Cardinality({y \in S : <<y, x>> \in R})]
           N == Min({n + 1, Cardinality(S)})
           Rank(id) == 1 + Cardinality({x \in S : Precedes(x, id, sort)})
           At(i) == CHOOSE id \in S : Rank(id) = i
<1>1. sort \in Orders
  BY OrderIs
<1>2. S \subseteq Ids /\ IsFiniteSet(S) /\ \A x \in S : table[x] # None
  BY QueriesAssumption, FS_Subset DEF Beyond, Visible
<1>3. \A x \in S : KeysOf(x, sort) \in Tuples(sort)
  BY <1>1, <1>2, KeysOfType
<1>4. \A x, y \in S : <<x, y>> \in R <=> Ahead(KeysOf(x, sort), KeysOf(y, sort), sort)
  BY <1>1, PrecedesIs
<1>5. /\ Cardinality(S) \in Nat
      /\ \A x \in S : rank[x] \in 1..Cardinality(S)
      /\ \A x, y \in S : <<x, y>> \in R <=> rank[x] < rank[y]
      /\ \A i \in 1..Cardinality(S) : \E x \in S : rank[x] = i
  <2> HIDE DEF S, R
  <2>1. \A x \in S : <<x, x>> \notin R
    BY <1>1, <1>3, <1>4, AheadIsStrict
  <2>2. ASSUME NEW x \in S, NEW y \in S, NEW z \in S, <<x, y>> \in R, <<y, z>> \in R
        PROVE  <<x, z>> \in R
    <3> HIDE DEF sort
    <3>1. /\ KeysOf(x, sort) \in Tuples(sort) /\ KeysOf(y, sort) \in Tuples(sort)
          /\ KeysOf(z, sort) \in Tuples(sort)
      BY <1>3
    <3>2. Ahead(KeysOf(x, sort), KeysOf(y, sort), sort)
          /\ Ahead(KeysOf(y, sort), KeysOf(z, sort), sort)
      BY <1>4, <2>2
    <3>3. Ahead(KeysOf(x, sort), KeysOf(z, sort), sort)
      BY <1>1, <3>1, <3>2, AheadIsTransitive
    <3>4. QED
      BY <1>4, <3>3
  <2>3. ASSUME NEW x \in S, NEW y \in S, x # y
        PROVE  <<x, y>> \in R \/ <<y, x>> \in R
    <3> HIDE DEF sort
    <3>1. KeysOf(x, sort) # KeysOf(y, sort)
      BY <1>1, <2>3, KeysDiffer
    <3>2. Ahead(KeysOf(x, sort), KeysOf(y, sort), sort)
          \/ Ahead(KeysOf(y, sort), KeysOf(x, sort), sort)
      BY <1>1, <1>3, <3>1, AheadIsTotal
    <3>3. QED
      BY <1>4, <3>2
  <2>4. QED
    BY <1>2, <2>1, <2>2, <2>3, RankIs
<1>6. N \in Nat /\ N <= n + 1 /\ N <= Cardinality(S)
      /\ (N = n + 1 \/ N = Cardinality(S))
  <2> HIDE DEF S
  <2>1. QED
    BY <1>5 DEF Min
<1>7. rows = [i \in 1..N |-> [id |-> At(i), keys |-> KeysOf(At(i), sort)]]
  BY DEF Selected, Beyond, KeysOf
<1>8. \A i \in 1..N : At(i) \in S /\ rank[At(i)] = i
  <2>1. ASSUME NEW x \in S
        PROVE  Rank(x) = rank[x]
    <3>1. {y \in S : Precedes(y, x, sort)} = {y \in S : <<y, x>> \in R}
      OBVIOUS
    <3>2. QED
      BY <3>1
  <2> HIDE DEF S, R, rank, N, Rank
  <2>2. \A i \in 1..N : \E x \in S : Rank(x) = i
    BY <1>5, <1>6, <2>1
  <2>3. QED
    BY <2>1, <2>2
<1> HIDE DEF S, R, rank, N
<1> HIDE DEF At, Rank, sort
<1>9. rows \in Seq([id : Ids, keys : Tuples(sort)]) /\ Len(rows) = N
  <2>1. \A i \in 1..N : [id |-> At(i), keys |-> KeysOf(At(i), sort)] \in [id : Ids, keys : Tuples(sort)]
    BY <1>2, <1>3, <1>8
  <2>2. QED
    BY <1>6, <1>7, <2>1
<1>10. \A i \in 1..N : /\ rows[i].id = At(i)
                       /\ rows[i].keys = KeysOf(At(i), sort)
  BY <1>7
<1>11. \A i, k \in 1..N : i < k => Ahead(rows[i].keys, rows[k].keys, sort)
  BY <1>4, <1>5, <1>8, <1>10
<1>12. ASSUME NEW x \in S, \A i \in 1..N : rows[i].id # x
       PROVE  N = n + 1 /\ \A i \in 1..N : Ahead(rows[i].keys, KeysOf(x, sort), sort)
  <2>1. rank[x] \in 1..Cardinality(S)
    BY <1>5
  <2>2. rank[x] \notin 1..N
    <3>1. SUFFICES ASSUME rank[x] \in 1..N PROVE FALSE
      OBVIOUS
    <3>2. At(rank[x]) \in S /\ rank[At(rank[x])] = rank[x] /\ At(rank[x]) # x
      BY <1>8, <1>10, <1>12, <3>1
    <3>3. <<x, At(rank[x])>> \in R \/ <<At(rank[x]), x>> \in R
      <4>1. KeysOf(x, sort) # KeysOf(At(rank[x]), sort)
        BY <1>1, <3>2, KeysDiffer
      <4>2. QED
        BY <1>1, <1>3, <1>4, <3>2, <4>1, AheadIsTotal
    <3>4. QED
      BY <1>5, <2>1, <3>2, <3>3
  <2>3. N = n + 1 /\ \A i \in 1..N : i < rank[x]
    BY <1>5, <1>6, <2>1, <2>2
  <2>4. ASSUME NEW i \in 1..N
        PROVE  Ahead(rows[i].keys, KeysOf(x, sort), sort)
    <3>1. At(i) \in S /\ rank[At(i)] < rank[x]
      BY <1>8, <2>3
    <3>2. QED
      BY <1>4, <1>5, <1>10, <3>1
  <2>5. QED
    BY <2>3, <2>4
<1>13. QED
  <2>1. \A i \in 1..N : rows[i].id \in S /\ rows[i].keys = KeysOf(rows[i].id, sort)
    BY <1>8, <1>10
  <2>2. QED
    BY <1>6, <1>9, <1>11, <1>12, <2>1 DEF sort, S
-----------------------------------------------------------------------------
(* The invariant.  It speaks of rows by their values, so that it says the  *)
(* same of the next state.                                                 *)

\* Whether a filter and these permissions let a row with this value through.
Shown(filter, id, key, projects) ==
  /\ key # None
  /\ filter # None => ProjectOf[id] \in filter
  /\ External => ProjectOf[id] \in projects

\* A row is to come after these keys.
ToCome(keys, id, key, sort) == Ahead(keys, Keyed(id, key, sort), sort)

\* A cursor is one core gave.
CursorInv ==
  cursor # None => /\ cursor \in Cursors
                   /\ \E q \in Queries : /\ cursor.hash = fingerprint(q)
                                         /\ cursor.keys \in Tuples(orderOf[q])

\* Before the first page no row has come; then, of the rows that stay, those that have
\* come are not beyond the cursor, and the others are.
WalkInv ==
  /\ walking /\ cursor = None => \A id \in Ids : returned[id] = 0
  /\ walking /\ cursor # None =>
       \A q \in Queries : fingerprint(q) = cursor.hash =>
         \A id \in Ids \ moved :
           /\ returned[id] > 0 => /\ table[id] # None
                                  /\ ~ ToCome(cursor.keys, id, table[id], orderOf[q])
           /\ returned[id] = 0 /\ Shown(q.filter, id, table[id], permissions) =>
                ToCome(cursor.keys, id, table[id], orderOf[q])

\* The entries of a page are in order and beyond the cursor, which is one of its query.
InOrder ==
  /\ entries \in Seq([id : Ids, keys : Tuples(orderOf[query])])
  /\ \A i, k \in 1..Len(entries) :
       i < k => Ahead(entries[i].keys, entries[k].keys, orderOf[query])
  /\ cursor # None => /\ cursor.hash = fingerprint(query)
                      /\ \A i \in 1..Len(entries) :
                           Ahead(cursor.keys, entries[i].keys, orderOf[query])

\* An entry is its row, if that stays.
Actual ==
  \A i \in 1..Len(entries) :
    LET id == entries[i].id
    IN  id \notin moved => /\ Shown(query.filter, id, table[id], permissions)
                           /\ entries[i].keys = Keyed(id, table[id], orderOf[query])

\* A row beyond the cursor that stays is an entry, or there are more after the last one.
Whole ==
  /\ \A id \in Ids \ moved :
       /\ Shown(query.filter, id, table[id], permissions)
       /\ cursor # None => ToCome(cursor.keys, id, table[id], orderOf[query])
       => \/ \E i \in 1..Len(entries) : entries[i].id = id
          \/ /\ more
             /\ \A i \in 1..Len(entries) :
                  ToCome(entries[i].keys, id, table[id], orderOf[query])
  /\ more => Len(entries) > 0

PageInv ==
  /\ stage = "idle" => entries = <<>>
  /\ stage = "selected" => InOrder /\ Actual /\ Whole

Inv == TypeOK /\ CursorInv /\ WalkInv /\ PageInv /\ EachOnce
-----------------------------------------------------------------------------
(* How many items a page has.                                              *)

LEMMA FittingIs ==
  ASSUME NEW S, NEW size \in Seq(S), NEW budget
  PROVE  /\ Fitting(size, budget) \in 0..Len(size)
         /\ Len(size) > 0 => Fitting(size, budget) > 0
<1> DEFINE L == Len(size)
           one == Min({1, L})
           fits == {n \in DOMAIN size : UsedBy(size)[n] <= budget} \union {one}
           less == {p \in Nat \X Nat : p[1] < p[2]}
           D == {L - t : t \in fits}
<1>1. L \in Nat /\ DOMAIN size = 1..L
  OBVIOUS
<1>2. one \in 0..L /\ (L > 0 => one = 1)
  <2> HIDE DEF L
  <2>1. QED
    BY <1>1 DEF Min
<1>3. fits \subseteq 0..L /\ one \in fits
  <2> HIDE DEF L, one
  <2>1. QED
    BY <1>1, <1>2
<1>4. \E m \in fits : \A t \in fits : m >= t
  <2>1. IsWellFoundedOn(less, Nat)
    BY NatLessThanWellFounded DEF OpToRel
  <2>2. D # {} /\ D \subseteq Nat
    <3> HIDE DEF fits, L, one
    <3>1. QED
      BY <1>1, <1>3
  <2>3. PICK d \in D : \A e \in D : <<e, d>> \notin less
    <3> HIDE DEF less, D
    <3>1. QED
      BY <2>1, <2>2, WFMin, Zenon
  <2>4. PICK m \in fits : d = L - m
    OBVIOUS
  <2> HIDE DEF fits, L, one
  <2>5. ASSUME NEW t \in fits
        PROVE  m >= t
    <3>1. m \in 0..L /\ t \in 0..L
      BY <1>3
    <3>2. L - t \in D /\ L - t \in Nat /\ L - m \in Nat
      BY <1>1, <3>1
    <3>3. ~ (L - t < L - m)
      BY <2>3, <2>4, <3>2
    <3>4. QED
      BY <1>1, <3>1, <3>3
  <2>6. QED
    BY <2>5
<1>5. Fitting(size, budget) = Max(fits)
  BY DEF Fitting
<1>6. Max(fits) \in fits /\ \A t \in fits : Max(fits) >= t
  <2> HIDE DEF fits
  <2>1. QED
    BY <1>4 DEF Max
<1> HIDE DEF fits, one, L
<1>7. Max(fits) \in 0..L /\ (L > 0 => Max(fits) > 0)
  <2>1. ASSUME NEW m \in fits, \A t \in fits : m >= t
        PROVE  m \in 0..L /\ (L > 0 => m > 0)
    BY <1>1, <1>2, <1>3, <2>1
  <2>2. QED
    BY <1>6, <2>1, Zenon
<1>8. QED
  BY <1>5, <1>7 DEF L

-----------------------------------------------------------------------------
(* The steps.                                                              *)

LEMMA InitInv == Init => Inv
<1> SUFFICES ASSUME Init PROVE Inv
  OBVIOUS
<1>1. TypeOK
  <2>1. (\A e \in Range(entries) : FALSE) /\ Len(entries) <= limit
    BY DEF Init, Range
  <2>2. returned \in [Ids -> 0..2] /\ moved \subseteq Ids
    BY DEF Init
  <2>3. table \in [Ids -> RowKeys] /\ limit \in 0..MaxLimit /\ changes \in 0..MaxChanges
        /\ faults \in 0..MaxFaults
    BY QueriesAssumption DEF Init
  <2>4. QED
    BY <2>1, <2>2, <2>3 DEF Init, TypeOK
<1>2. CursorInv /\ WalkInv /\ EachOnce
  BY DEF Init, CursorInv, WalkInv, EachOnce
<1>3. PageInv
  BY DEF Init, PageInv
<1>4. QED
  BY <1>1, <1>2, <1>3 DEF Inv

LEMMA ElementIs ==
  ASSUME NEW S, NEW s \in Seq(S), NEW i \in 1..Len(s)
  PROVE  s[i] \in S
OBVIOUS

LEMMA PrefixIs ==
  ASSUME NEW S, NEW s \in Seq(S), NEW e \in 0..Len(s)
  PROVE  /\ SubSeq(s, 1, e) \in Seq(S) /\ Len(SubSeq(s, 1, e)) = e
         /\ \A i \in 1..e : SubSeq(s, 1, e)[i] = s[i]
OBVIOUS

LEMMA MinIs ==
  ASSUME NEW a \in Int, NEW b \in Int
  PROVE  Min({a, b}) = IF a <= b THEN a ELSE b
BY DEF Min

LEMMA EntryIs ==
  ASSUME InOrder, NEW i \in 1..Len(entries)
  PROVE  entries[i].id \in Ids /\ entries[i].keys \in Tuples(orderOf[query])
<1>1. entries[i] \in [id : Ids, keys : Tuples(orderOf[query])]
  BY ElementIs DEF InOrder
<1>2. QED
  BY <1>1

\* Rows and permissions: nothing is said of what has moved.
LEMMA ChangeStep ==
  ASSUME Inv, Change, table' \in [Ids -> RowKeys], permissions' \subseteq Projects
  PROVE  Inv'
<1>1. /\ moved \subseteq moved' /\ moved' \subseteq Ids
      /\ changes' \in 0..MaxChanges
  <2>1. Elsewhere \subseteq Ids
    BY DEF Elsewhere
  <2>2. moved \subseteq moved' /\ moved' \subseteq Ids
    BY <2>1 DEF Inv, TypeOK, Change
  <2>3. changes' \in 0..MaxChanges
    BY QueriesAssumption DEF Inv, TypeOK, Change
  <2>4. QED
    BY <2>2, <2>3
<1>2. ASSUME NEW id \in Ids \ moved'
      PROVE  /\ id \notin moved /\ table'[id] = table[id]
             /\ \A f : Shown(f, id, table'[id], permissions')
                         <=> Shown(f, id, table[id], permissions)
  BY DEF Change, Elsewhere, Shown
<1>3. UNCHANGED <<stage, query, limit, entries, more, cursor, walking, faults, returned>>
  BY DEF Change, walkVars
<1>4. TypeOK'
  BY <1>1, <1>3 DEF Inv, TypeOK
<1>5. CursorInv'
  BY <1>3 DEF Inv, CursorInv
<1>6. WalkInv'
  BY <1>2, <1>3 DEF Inv, WalkInv
<1>7. PageInv'
  <2> SUFFICES ASSUME stage = "selected"
               PROVE  InOrder' /\ Actual' /\ Whole'
    BY <1>3 DEF Inv, PageInv
  <2>1. InOrder'
    BY <1>3 DEF Inv, PageInv, InOrder
  <2>2. Actual'
    <3>1. ASSUME NEW i \in 1..Len(entries)
          PROVE  entries[i].id \in Ids
      BY EntryIs DEF Inv, PageInv
    <3>2. QED
      BY <1>2, <1>3, <3>1 DEF Inv, PageInv, Actual
  <2>3. Whole'
    BY <1>2, <1>3 DEF Inv, PageInv, Whole
  <2>4. QED
    BY <2>1, <2>2, <2>3
<1>8. EachOnce'
  BY <1>1, <1>3 DEF Inv, EachOnce
<1>9. QED
  BY <1>4, <1>5, <1>6, <1>7, <1>8 DEF Inv

LEMMA RephraseStep ==
  ASSUME Inv, NEW q \in Queries, Rephrase(q)
  PROVE  Inv'
<1>1. TypeOK'
  BY DEF Inv, TypeOK, Rephrase, rowVars
<1>2. CursorInv' /\ WalkInv'
  BY DEF Inv, CursorInv, WalkInv, Rephrase, rowVars
<1>3. PageInv' /\ EachOnce'
  BY DEF Inv, PageInv, EachOnce, Rephrase
<1>4. QED
  BY <1>1, <1>2, <1>3 DEF Inv

LEMMA RejectStep ==
  ASSUME Inv, Reject
  PROVE  Inv'
<1>1. entries = <<>> /\ stage = "idle"
  BY DEF Inv, PageInv, Reject
<1>2. TypeOK'
  <2>1. (\A e \in Range(entries') : FALSE) /\ Len(entries') <= limit'
    BY <1>1 DEF Reject, Stop, Range
  <2>2. limit' \in 0..MaxLimit /\ UNCHANGED <<table, permissions>>
    BY QueriesAssumption DEF Reject, Stop, rowVars
  <2>3. QED
    BY <1>1, <2>1, <2>2 DEF Inv, TypeOK, Reject, Stop
<1>3. CursorInv' /\ WalkInv'
  BY DEF CursorInv, WalkInv, Reject, Stop
<1>4. PageInv' /\ EachOnce'
  BY <1>1 DEF Inv, PageInv, EachOnce, Reject
<1>5. QED
  BY <1>2, <1>3, <1>4 DEF Inv

LEMMA FailStep ==
  ASSUME Inv, Fail
  PROVE  Inv'
<1>1. TypeOK'
  <2>1. (\A e \in Range(entries') : FALSE) /\ Len(entries') <= limit'
    BY DEF Fail, Range
  <2>2. faults' \in 0..MaxFaults /\ limit' \in 0..MaxLimit
    BY QueriesAssumption DEF Inv, TypeOK, Fail
  <2>3. QED
    BY <2>1, <2>2 DEF Inv, TypeOK, Fail, rowVars
<1>2. CursorInv' /\ WalkInv'
  BY DEF Inv, CursorInv, WalkInv, Fail, rowVars
<1>3. PageInv' /\ EachOnce'
  BY DEF Inv, PageInv, EachOnce, Fail
<1>4. QED
  BY <1>1, <1>2, <1>3 DEF Inv
\* The rows of a page that stay have not come.
LEMMA EntriesAreNew ==
  ASSUME Inv, stage = "selected", NEW i \in 1..Len(entries), entries[i].id \notin moved
  PROVE  entries[i].id \in Ids /\ returned[entries[i].id] = 0
<1> DEFINE id == entries[i].id
           sort == orderOf[query]
<1>1. InOrder /\ Actual /\ TypeOK /\ walking
  BY DEF Inv, PageInv, TypeOK
<1>2. id \in Ids
  BY <1>1, EntryIs
<1>3. returned[id] \in 0..2
  BY <1>1, <1>2 DEF TypeOK
<1>4. CASE cursor = None
  BY <1>1, <1>2, <1>4 DEF Inv, WalkInv
<1>5. CASE cursor # None
  <2>1. ToCome(cursor.keys, id, table[id], sort)
    BY <1>1, <1>5 DEF InOrder, Actual, ToCome
  <2>2. query \in Queries /\ fingerprint(query) = cursor.hash
    BY <1>1, <1>5 DEF TypeOK, InOrder
  <2>3. ~ (returned[id] > 0)
    BY <1>1, <1>2, <1>5, <2>1, <2>2 DEF Inv, WalkInv
  <2>4. QED
    BY <1>2, <1>3, <2>3
<1>6. QED
  BY <1>4, <1>5

\* When nothing goes on after a page, every row that stays has come or is in it.
LEMMA LastPage ==
  ASSUME Inv, stage = "selected", NEW n \in 0..Len(entries), Len(entries) > 0 => n > 0,
         ~ (GoesOn(n) /\ n > 0), NEW id \in Ids \ moved,
         Shown(query.filter, id, table[id], permissions)
  PROVE  returned[id] = 1 \/ (returned[id] = 0 /\ \E i \in 1..n : entries[i].id = id)
<1>1. TypeOK /\ walking /\ InOrder /\ Whole
  BY DEF Inv, PageInv, TypeOK
<1>2. returned[id] \in 0..1
  BY <1>1 DEF Inv, TypeOK, EachOnce
<1>3. CASE returned[id] = 0
  <2>1. cursor # None => ToCome(cursor.keys, id, table[id], orderOf[query])
    BY <1>1, <1>3 DEF Inv, WalkInv, TypeOK, InOrder
  <2>2. Len(entries) \in Nat
    BY <1>1 DEF InOrder
  <2>3. ~ more /\ n = Len(entries)
    BY <1>1, <2>2 DEF Whole, GoesOn
  <2>4. QED
    BY <1>1, <1>3, <2>1, <2>3 DEF Whole
<1>4. QED
  BY <1>2, <1>3

\* The cursor of a page keeps what has come behind it and the rest beyond it.
LEMMA NextCursor ==
  ASSUME Inv, stage = "selected", NEW n \in 1..Len(entries), NEW id \in Ids \ moved
  PROVE  /\ returned[id] > 0 \/ (\E i \in 1..n : entries[i].id = id) =>
              /\ table[id] # None
              /\ ~ ToCome(entries[n].keys, id, table[id], orderOf[query])
         /\ /\ returned[id] = 0 /\ Shown(query.filter, id, table[id], permissions)
            /\ ~ \E i \in 1..n : entries[i].id = id
            => ToCome(entries[n].keys, id, table[id], orderOf[query])
<1> DEFINE sort == orderOf[query]
           key == Keyed(id, table[id], sort)
<1>1. TypeOK /\ walking /\ InOrder /\ Actual /\ Whole /\ CursorInv
  BY DEF Inv, PageInv, TypeOK
<1>2. query \in Queries /\ sort \in Orders
  BY <1>1, OrderIs DEF TypeOK
<1>3. Len(entries) \in Nat /\ \A i \in 1..Len(entries) : entries[i].keys \in Tuples(sort)
  BY <1>1, EntryIs DEF InOrder
<1>4. table[id] # None => key \in Tuples(sort)
  BY <1>1, <1>2, KeyedType DEF TypeOK
<1>5. \A i, k \in 1..Len(entries) : i < k => Ahead(entries[i].keys, entries[k].keys, sort)
  BY <1>1 DEF InOrder
<1> HIDE DEF sort, key
<1>6. ASSUME NEW i \in 1..n, entries[i].id = id
      PROVE  table[id] # None /\ ~ Ahead(entries[n].keys, key, sort)
  <2>1. i \in 1..Len(entries) /\ (i = n \/ i < n) /\ n \in 1..Len(entries)
    BY <1>3
  <2>2. table[id] # None /\ entries[i].keys = key
    BY <1>1, <1>6, <2>1 DEF Actual, Shown, key, sort
  <2>3. ~ Ahead(entries[n].keys, entries[i].keys, sort)
    <3>1. SUFFICES ASSUME Ahead(entries[n].keys, entries[i].keys, sort) PROVE FALSE
      OBVIOUS
    <3>2. Ahead(entries[n].keys, entries[n].keys, sort)
      BY <1>2, <1>3, <1>5, <2>1, <3>1, AheadIsTransitive
    <3>3. QED
      BY <1>2, <1>3, <2>1, <3>2, AheadIsStrict
  <2>4. QED
    BY <2>2, <2>3
<1>7. ASSUME returned[id] > 0
      PROVE  table[id] # None /\ ~ Ahead(entries[n].keys, key, sort)
  <2>1. cursor # None /\ cursor.hash = fingerprint(query)
    <3>1. cursor # None
      BY <1>1, <1>7 DEF Inv, WalkInv
    <3>2. QED
      BY <1>1, <3>1 DEF InOrder
  <2>2. table[id] # None /\ ~ Ahead(cursor.keys, key, sort)
    BY <1>1, <1>2, <1>7, <2>1 DEF Inv, WalkInv, ToCome, key, sort
  <2>3. cursor.keys \in Tuples(sort)
    <3>1. PICK q \in Queries : cursor.hash = fingerprint(q) /\ cursor.keys \in Tuples(orderOf[q])
      BY <1>1, <2>1 DEF CursorInv
    <3>2. orderOf[q] = sort
      BY <2>1, <3>1 DEF fingerprint, sort
    <3>3. QED
      BY <3>1, <3>2
  <2>4. Ahead(cursor.keys, entries[n].keys, sort) /\ n \in 1..Len(entries)
    BY <1>1, <2>1 DEF InOrder, sort
  <2>5. ~ Ahead(entries[n].keys, key, sort)
    BY <1>2, <1>3, <1>4, <2>2, <2>3, <2>4, AheadIsTransitive
  <2>6. QED
    BY <2>2, <2>5
<1>8. ASSUME returned[id] = 0, Shown(query.filter, id, table[id], permissions),
             ~ \E i \in 1..n : entries[i].id = id
      PROVE  Ahead(entries[n].keys, key, sort)
  <2>1. cursor # None => ToCome(cursor.keys, id, table[id], sort)
    BY <1>1, <1>2, <1>8 DEF Inv, WalkInv, InOrder, sort
  <2>2. CASE \E i \in 1..Len(entries) : entries[i].id = id
    <3>1. PICK i \in 1..Len(entries) : entries[i].id = id
      BY <2>2
    <3>2. n < i /\ n \in 1..Len(entries)
      BY <1>3, <1>8, <3>1
    <3>3. entries[i].keys = key
      BY <1>1, <3>1 DEF Actual, key, sort
    <3>4. QED
      BY <1>5, <3>2, <3>3
  <2>3. CASE ~ \E i \in 1..Len(entries) : entries[i].id = id
    BY <1>1, <1>8, <2>1, <2>3 DEF Whole, ToCome, key, sort
  <2>4. QED
    BY <2>2, <2>3
<1>9. QED
  BY <1>6, <1>7, <1>8 DEF ToCome, key, sort

\* What a reply does, with as many items as fit.
LEMMA AnswerIs ==
  ASSUME Inv, NEW budget, Answer(budget)
  PROVE  \E n \in 0..Len(entries) :
           /\ Len(entries) > 0 => n > 0
           /\ returned' = [id \in Ids |->
                IF \E i \in 1..n : entries[i].id = id THEN Min({2, returned[id] + 1})
                ELSE returned[id]]
           /\ IF GoesOn(n) /\ n > 0
                THEN /\ cursor' = [keys |-> entries[n].keys, hash |-> fingerprint(query)]
                     /\ limit' = 0 /\ UNCHANGED walking
                ELSE Stop
<1>1. stage = "selected" /\ InOrder
  BY DEF Inv, PageInv, Answer
<1>2. Len(entries) \in Nat /\ DOMAIN entries = 1..Len(entries)
  BY <1>1 DEF InOrder
<1>3. PICK size \in [DOMAIN entries -> Sizes] :
        LET n == Fitting(size, budget)
            page == {entries[i].id : i \in 1..n}
        IN  /\ returned' = [id \in Ids |-> IF id \in page THEN Min({2, returned[id] + 1})
                                           ELSE returned[id]]
            /\ IF GoesOn(n) /\ n > 0
                 THEN /\ cursor' = [keys |-> entries[n].keys, hash |-> fingerprint(query)]
                      /\ limit' = 0 /\ UNCHANGED walking
                 ELSE Stop
  BY DEF Answer
<1> DEFINE n == Fitting(size, budget)
<1>4. size \in Seq(Sizes) /\ Len(size) = Len(entries)
  BY <1>2
<1>5. n \in 0..Len(entries) /\ (Len(entries) > 0 => n > 0)
  BY <1>4, FittingIs
<1>6. \A id : id \in {entries[i].id : i \in 1..n} <=> \E i \in 1..n : entries[i].id = id
  OBVIOUS
<1> HIDE DEF n
<1>7. QED
  BY <1>3, <1>5, <1>6 DEF n

\* The type of some keys, as a cursor has them.
LEMMA TuplesAreSequences ==
  ASSUME NEW sort \in Orders, NEW k \in Tuples(sort)
  PROVE  k \in Seq(RowKeys \union Ids)
<1>1. sort \in Seq(Token)
  BY DEF Orders
<1>2. Len(sort) \in Nat /\ DOMAIN sort = 1..Len(sort)
  BY <1>1
<1>3. \A i \in DOMAIN sort : k[i] \in RowKeys \union Ids
  BY DEF Tuples, Values, RowKeys
<1>4. k \in [1..Len(sort) -> RowKeys \union Ids]
  BY <1>2, <1>3 DEF Tuples
<1>5. QED
  BY <1>2, <1>4

LEMMA FingerprintIs ==
  ASSUME NEW q \in Queries, NEW r \in Queries
  PROVE  /\ fingerprint(q) \in Filters \X Seq(Token)
         /\ fingerprint(q) = fingerprint(r) => q.filter = r.filter /\ orderOf[q] = orderOf[r]
<1>1. q.filter \in Filters
  BY QueriesAssumption
<1>2. orderOf[q] \in Seq(Token)
  BY OrderIs DEF Orders
<1>3. QED
  BY <1>1, <1>2 DEF fingerprint

\* A request that is accepted.
LEMMA AskStep ==
  ASSUME Inv, NEW m \in PageLimits, Ask(m)
  PROVE  Inv'
<1> DEFINE sort == orderOf[query]
           rows == Selected(query, cursor, limit')
           L == limit'
<1>1. TypeOK /\ CursorInv /\ walking /\ stage = "idle"
  BY DEF Inv, Ask
<1>2. query \in Queries /\ sort \in Orders /\ Rows
  BY <1>1, OrderIs DEF TypeOK, Rows
<1>3. L \in 1..MaxLimit
  <2>1. limit' = pageLimit(m) /\ m \in Nat
    BY QueriesAssumption DEF Ask
  <2>2. MaxLimit \in Nat /\ DefaultLimit \in 1..MaxLimit
    BY QueriesAssumption
  <2>3. m # 0 => pageLimit(m) = IF m <= MaxLimit THEN m ELSE MaxLimit
    BY <2>1, <2>2, MinIs DEF pageLimit
  <2>4. m = 0 => pageLimit(m) = DefaultLimit
    BY DEF pageLimit
  <2>5. QED
    BY <2>1, <2>2, <2>3, <2>4
<1>4. cursor # None => cursor.hash = fingerprint(query) /\ cursor.keys \in Tuples(sort)
  <2>1. SUFFICES ASSUME cursor # None
                 PROVE  cursor.hash = fingerprint(query) /\ cursor.keys \in Tuples(sort)
    OBVIOUS
  <2>2. cursor.hash = fingerprint(query)
    BY <2>1 DEF Ask, Accepted
  <2>3. PICK q \in Queries : cursor.hash = fingerprint(q) /\ cursor.keys \in Tuples(orderOf[q])
    BY <1>1, <2>1 DEF CursorInv
  <2>4. orderOf[q] = sort
    BY <1>2, <2>2, <2>3, FingerprintIs
  <2>5. QED
    BY <2>2, <2>3, <2>4
<1>5. /\ rows \in Seq([id : Ids, keys : Tuples(sort)]) /\ Len(rows) <= L + 1
      /\ \A i \in 1..Len(rows) : /\ rows[i].id \in Beyond(query, cursor)
                                 /\ rows[i].keys = KeysOf(rows[i].id, sort)
      /\ \A i, k \in 1..Len(rows) : i < k => Ahead(rows[i].keys, rows[k].keys, sort)
      /\ \A x \in Beyond(query, cursor) :
           \/ \E i \in 1..Len(rows) : rows[i].id = x
           \/ /\ Len(rows) = L + 1
              /\ \A i \in 1..Len(rows) : Ahead(rows[i].keys, KeysOf(x, sort), sort)
  <2>1. L \in Nat
    BY <1>3, QueriesAssumption
  <2>2. QED
    BY <1>2, <2>1, SelectedIs
<1>6. \A x \in Ids : x \in Beyond(query, cursor) <=>
        /\ Shown(query.filter, x, table[x], permissions)
        /\ cursor # None => ToCome(cursor.keys, x, table[x], sort)
  <2>1. ASSUME NEW x \in Ids
        PROVE  Visible(query, x) <=> Shown(query.filter, x, table[x], permissions)
    BY DEF Visible, Shown
  <2>2. ASSUME NEW x \in Ids, table[x] # None, cursor # None
        PROVE  keysetSql(x, sort, cursor.keys) <=> ToCome(cursor.keys, x, table[x], sort)
    BY <1>2, <1>4, <2>2, KeysetIs, KeysOfIs DEF ToCome
  <2>3. \A x \in Ids : Visible(query, x) => table[x] # None
    BY DEF Visible
  <2>4. QED
    BY <2>1, <2>2, <2>3 DEF Beyond
<1>7. /\ Len(rows) > L => more' = TRUE
      /\ ~ (Len(rows) > L) => more' = FALSE
      /\ entries' = SubSeq(rows, 1, Min({L, Len(rows)}))
      /\ UNCHANGED <<table, permissions, query, cursor, walking, changes, faults, returned, moved>>
      /\ stage' = "selected" /\ more' \in BOOLEAN
  <2>1. /\ more' = (Len(rows) > L)
        /\ entries' = SubSeq(rows, 1, Min({L, Len(rows)}))
        /\ UNCHANGED <<table, permissions, query, cursor, walking, changes, faults, returned, moved>>
        /\ stage' = "selected"
    BY DEF Ask, rowVars
  <2> HIDE DEF rows, L
  <2>2. CASE Len(rows) > L
    <3>1. more' = TRUE
      BY <2>1, <2>2, Zenon
    <3>2. QED
      BY <2>1, <2>2, <3>1
  <2>3. CASE ~ (Len(rows) > L)
    <3>1. (Len(rows) > L) = FALSE
      BY <2>3
    <3>2. more' = FALSE
      BY <2>1, <3>1, Zenon
    <3>3. QED
      BY <2>1, <2>3, <3>2
  <2>4. QED
    BY <2>2, <2>3
<1> DEFINE E == Len(entries')
<1>8. /\ Len(rows) \in Nat /\ E \in Nat /\ E <= L /\ E <= Len(rows)
      /\ more' => E = L /\ Len(rows) = L + 1
      /\ ~ more' => E = Len(rows)
      /\ entries' \in Seq([id : Ids, keys : Tuples(sort)])
      /\ \A i \in 1..E : entries'[i] = rows[i]
  <2> HIDE DEF rows, L
  <2>1. Len(rows) \in Nat /\ L \in Nat
    BY <1>3, <1>5, QueriesAssumption
  <2>2. PICK e \in 0..Len(rows) : /\ e = Min({L, Len(rows)})
                                  /\ e = IF L <= Len(rows) THEN L ELSE Len(rows)
    BY <2>1, MinIs
  <2>3. entries' = SubSeq(rows, 1, e)
    BY <1>7, <2>2
  <2>4. /\ entries' \in Seq([id : Ids, keys : Tuples(sort)]) /\ E = e
        /\ \A i \in 1..E : entries'[i] = rows[i]
    BY <1>5, <2>3, PrefixIs
  <2> HIDE DEF E
  <2>5. E \in Nat /\ E <= L /\ E <= Len(rows)
    BY <2>1, <2>2, <2>4
  <2>6. (more' => E = L /\ Len(rows) = L + 1) /\ (~ more' => E = Len(rows))
    BY <1>5, <1>7, <2>1, <2>2, <2>4
  <2>7. QED
    BY <2>1, <2>4, <2>5, <2>6
<1> HIDE DEF rows, L, E, sort
<1>9. \A i \in 1..E : /\ i \in 1..Len(rows) /\ entries'[i].id \in Beyond(query, cursor)
                      /\ entries'[i].id \in Ids
                      /\ entries'[i].keys = Keyed(entries'[i].id, table[entries'[i].id], sort)
  <2>1. \A i \in 1..E : i \in 1..Len(rows)
    BY <1>8
  <2>2. \A i \in 1..E : rows[i].id \in Beyond(query, cursor)
                        /\ rows[i].keys = KeysOf(rows[i].id, sort)
    BY <1>5, <2>1
  <2>3. QED
    BY <1>8, <2>1, <2>2, KeysOfIs DEF Beyond
<1>10. InOrder'
  <2>1. \A i, k \in 1..E : i < k => Ahead(entries'[i].keys, entries'[k].keys, sort)
    BY <1>5, <1>8, <1>9
  <2>2. cursor # None => /\ cursor.hash = fingerprint(query)
                         /\ \A i \in 1..E : Ahead(cursor.keys, entries'[i].keys, sort)
    BY <1>4, <1>6, <1>9 DEF ToCome
  <2>3. QED
    BY <1>7, <1>8, <2>1, <2>2 DEF InOrder, E, sort
<1>11. Actual'
  BY <1>6, <1>7, <1>9 DEF Actual, E, sort
<1>12. Whole'
  <2>1. ASSUME NEW x \in Ids, Shown(query.filter, x, table[x], permissions),
               cursor # None => ToCome(cursor.keys, x, table[x], sort)
        PROVE  \/ \E i \in 1..E : entries'[i].id = x
               \/ more' /\ \A i \in 1..E : ToCome(entries'[i].keys, x, table[x], sort)
    <3>1. x \in Beyond(query, cursor)
      BY <1>6, <2>1
    <3>2. CASE \E i \in 1..Len(rows) : rows[i].id = x
      <4>1. PICK i \in 1..Len(rows) : rows[i].id = x
        BY <3>2
      <4>2. CASE i \in 1..E
        BY <1>8, <4>1, <4>2
      <4>3. CASE i \notin 1..E
        <5>1. more' /\ \A k \in 1..E : k < i /\ k \in 1..Len(rows)
          BY <1>7, <1>8, <4>3
        <5>2. rows[i].keys = Keyed(x, table[x], sort)
          BY <1>5, <4>1, KeysOfIs
        <5>3. QED
          BY <1>5, <1>8, <5>1, <5>2 DEF ToCome
      <4>4. QED
        BY <4>2, <4>3
    <3>3. CASE ~ \E i \in 1..Len(rows) : rows[i].id = x
      <4>1. Len(rows) = L + 1 /\ \A i \in 1..Len(rows) : Ahead(rows[i].keys, KeysOf(x, sort), sort)
        BY <1>5, <3>1, <3>3
      <4>2. more'
        <5>1. Len(rows) > L
          BY <1>3, <4>1
        <5>2. QED
          BY <1>7, <5>1
      <4>3. QED
        BY <1>8, <1>9, <4>1, <4>2, KeysOfIs DEF ToCome
    <3>4. QED
      BY <3>2, <3>3
  <2>2. more' => E > 0
    BY <1>3, <1>8
  <2>3. QED
    BY <1>7, <2>1, <2>2 DEF Whole, E, sort
<1>13. TypeOK'
  <2>1. ASSUME NEW e \in Range(entries')
        PROVE  e.id \in Ids /\ Range(e.keys) \subseteq RowKeys \union Ids
    <3>1. PICK i \in 1..E : e = entries'[i]
      BY <1>8 DEF Range, E
    <3>2. e \in [id : Ids, keys : Tuples(sort)]
      BY <1>8, <3>1, ElementIs DEF E
    <3>3. e.keys \in Seq(RowKeys \union Ids)
      BY <1>2, <3>2, TuplesAreSequences
    <3>4. QED
      BY <3>2, <3>3 DEF Range
  <2>2. more' \in BOOLEAN /\ limit' \in 0..MaxLimit /\ Len(entries') <= limit'
    BY <1>3, <1>7, <1>8, QueriesAssumption DEF L, E
  <2>3. QED
    BY <1>1, <1>7, <2>1, <2>2 DEF TypeOK
<1>14. CursorInv' /\ WalkInv' /\ EachOnce'
  BY <1>7 DEF Inv, CursorInv, WalkInv, EachOnce
<1>15. QED
  BY <1>7, <1>10, <1>11, <1>12, <1>13, <1>14 DEF Inv, PageInv

\* A reply.
LEMMA AnswerStep ==
  ASSUME Inv, NEW budget, Answer(budget)
  PROVE  Inv'
<1>1. /\ stage = "selected" /\ walking /\ TypeOK /\ InOrder /\ EachOnce
      /\ stage' = "idle" /\ entries' = <<>> /\ more' = FALSE
      /\ UNCHANGED <<table, permissions, query, changes, faults, moved>>
  BY DEF Inv, PageInv, TypeOK, Answer, rowVars
<1>2. PICK n \in 0..Len(entries) :
        /\ Len(entries) > 0 => n > 0
        /\ returned' = [id \in Ids |->
             IF \E i \in 1..n : entries[i].id = id THEN Min({2, returned[id] + 1})
             ELSE returned[id]]
        /\ IF GoesOn(n) /\ n > 0
             THEN /\ cursor' = [keys |-> entries[n].keys, hash |-> fingerprint(query)]
                  /\ limit' = 0 /\ UNCHANGED walking
             ELSE Stop
  BY AnswerIs
<1>3. Len(entries) \in Nat
  BY <1>1 DEF InOrder
<1>4. \A r \in 0..2 : Min({2, r + 1}) \in 1..2 /\ (r = 0 => Min({2, r + 1}) = 1)
  BY DEF Min
<1>5. ASSUME NEW id \in Ids
      PROVE  /\ returned'[id] \in 0..2 /\ returned[id] \in 0..2
             /\ returned'[id] > 0 <=> returned[id] > 0 \/ \E i \in 1..n : entries[i].id = id
  <2>1. returned[id] \in 0..2
    BY <1>1 DEF TypeOK
  <2>2. CASE \E i \in 1..n : entries[i].id = id
    <3>1. returned'[id] = Min({2, returned[id] + 1})
      BY <1>2, <2>2
    <3>2. returned'[id] \in 1..2
      BY <1>4, <2>1, <3>1
    <3>3. QED
      BY <2>1, <2>2, <3>2
  <2>3. CASE ~ \E i \in 1..n : entries[i].id = id
    <3>1. returned'[id] = returned[id]
      BY <1>2, <2>3
    <3>2. QED
      BY <2>1, <2>3, <3>1
  <2>4. QED
    BY <2>2, <2>3
<1>6. EachOnce'
  <2>1. ASSUME NEW id \in Ids, id \notin moved
        PROVE  returned'[id] <= 1
    <3>1. CASE \E i \in 1..n : entries[i].id = id
      <4>1. PICK i \in 1..n : entries[i].id = id
        BY <3>1
      <4>2. i \in 1..Len(entries)
        BY <1>3
      <4>3. returned[id] = 0
        BY <1>1, <2>1, <4>1, <4>2, EntriesAreNew
      <4>4. returned'[id] = Min({2, returned[id] + 1})
        BY <1>2, <3>1
      <4>5. returned'[id] = 1
        BY <1>4, <1>5, <4>3, <4>4
      <4>6. QED
        BY <4>5
    <3>2. CASE ~ \E i \in 1..n : entries[i].id = id
      BY <1>1, <1>2, <2>1, <3>2 DEF EachOnce
    <3>3. QED
      BY <3>1, <3>2
  <2>2. QED
    BY <1>1, <2>1 DEF EachOnce
<1>7. returned' \in [Ids -> 0..2]
  <2>1. DOMAIN returned' = Ids /\ returned' = [id \in Ids |-> returned'[id]]
    BY <1>2
  <2>2. QED
    BY <1>5, <2>1
<1>8. TypeOK' /\ CursorInv' /\ WalkInv'
  <2>1. (\A e \in Range(entries') : FALSE) /\ Len(entries') = 0
    BY <1>1 DEF Range
  <2>2. CASE GoesOn(n) /\ n > 0
    <3>1. /\ cursor' = [keys |-> entries[n].keys, hash |-> fingerprint(query)]
          /\ limit' = 0 /\ walking' = walking
      BY <1>2, <2>2
    <3>2. n \in 1..Len(entries)
      BY <1>3, <2>2
    <3>3. query \in Queries /\ orderOf[query] \in Orders
      BY <1>1, OrderIs DEF TypeOK
    <3>4. entries[n].keys \in Tuples(orderOf[query])
      BY <1>1, <3>2, EntryIs
    <3>5. cursor' \in Cursors
      BY <3>1, <3>3, <3>4, TuplesAreSequences, FingerprintIs DEF Cursors
    <3>6. cursor' # None /\ cursor'.keys = entries[n].keys /\ cursor'.hash = fingerprint(query)
      BY <3>1, <3>5, QueriesAssumption
    <3>7. TypeOK'
      <4>1. limit' \in 0..MaxLimit /\ Len(entries') <= limit'
        BY <2>1, <3>1, QueriesAssumption
      <4>2. QED
        BY <1>1, <1>7, <2>1, <3>1, <4>1 DEF TypeOK
    <3>8. CursorInv'
      BY <3>3, <3>4, <3>5, <3>6 DEF CursorInv
    <3>9. WalkInv'
      <4>1. ASSUME NEW q \in Queries, fingerprint(q) = cursor'.hash, NEW id \in Ids \ moved
            PROVE  /\ returned'[id] > 0 =>
                        /\ table[id] # None
                        /\ ~ ToCome(cursor'.keys, id, table[id], orderOf[q])
                   /\ returned'[id] = 0 /\ Shown(q.filter, id, table[id], permissions) =>
                        ToCome(cursor'.keys, id, table[id], orderOf[q])
        <5>1. q.filter = query.filter /\ orderOf[q] = orderOf[query]
          BY <3>3, <3>6, <4>1, FingerprintIs
        <5>2. returned'[id] = 0 => returned[id] = 0 /\ ~ \E i \in 1..n : entries[i].id = id
          BY <1>5
        <5>3. QED
          BY <1>1, <1>5, <3>2, <3>6, <5>1, <5>2, NextCursor
      <4>2. QED
        BY <1>1, <3>6, <4>1 DEF WalkInv
    <3>10. QED
      BY <3>7, <3>8, <3>9
  <2>3. CASE ~ (GoesOn(n) /\ n > 0)
    <3>1. walking' = FALSE /\ cursor' = None /\ limit' = 0
      BY <1>2, <2>3 DEF Stop
    <3>2. TypeOK'
      <4>1. limit' \in 0..MaxLimit /\ Len(entries') <= limit'
        BY <2>1, <3>1, QueriesAssumption
      <4>2. QED
        BY <1>1, <1>7, <2>1, <3>1, <4>1 DEF TypeOK
    <3>3. QED
      BY <3>1, <3>2 DEF CursorInv, WalkInv
  <2>4. QED
    BY <2>2, <2>3
<1>9. PageInv'
  BY <1>1 DEF PageInv
<1>10. QED
  BY <1>6, <1>8, <1>9 DEF Inv

LEMMA NextInv == Inv /\ [Next]_vars => Inv'
<1> SUFFICES ASSUME Inv, [Next]_vars PROVE Inv'
  OBVIOUS
<1>1. ASSUME NEW id \in Ids, NEW key \in RowKeys, Write(id, key)
      PROVE  Inv'
  <2>1. table' \in [Ids -> RowKeys] /\ permissions' \subseteq Projects /\ Change
    BY <1>1 DEF Inv, TypeOK, Write
  <2>2. QED
    BY <2>1, ChangeStep
<1>2. ASSUME NEW p \in Projects, Permit(p)
      PROVE  Inv'
  <2>1. table' \in [Ids -> RowKeys] /\ permissions' \subseteq Projects /\ Change
    BY <1>2 DEF Inv, TypeOK, Permit
  <2>2. QED
    BY <2>1, ChangeStep
<1>3. ASSUME NEW q \in Queries, Rephrase(q)
      PROVE  Inv'
  BY <1>3, RephraseStep
<1>4. ASSUME NEW n \in PageLimits, Ask(n)
      PROVE  Inv'
  BY <1>4, AskStep
<1>5. ASSUME NEW b \in Budgets, Answer(b)
      PROVE  Inv'
  BY <1>5, AnswerStep
<1>6. CASE Reject
  BY <1>6, RejectStep
<1>7. CASE Fail
  BY <1>7, FailStep
<1>8. CASE UNCHANGED vars
  <2>1. UNCHANGED <<table, permissions, stage, query, limit, entries, more, cursor, walking,
                    changes, faults, returned, moved>>
    BY <1>8 DEF vars, rowVars, walkVars
  <2>2. TypeOK' /\ CursorInv' /\ WalkInv' /\ EachOnce'
    BY <2>1 DEF Inv, TypeOK, CursorInv, WalkInv, EachOnce
  <2>3. PageInv'
    BY <2>1 DEF Inv, PageInv, InOrder, Actual, Whole
  <2>4. QED
    BY <2>2, <2>3 DEF Inv
<1>9. QED
  BY <1>1, <1>2, <1>3, <1>4, <1>5, <1>6, <1>7, <1>8 DEF Next

LEMMA InvHolds == Spec => []Inv
BY InitInv, NextInv, PTL DEF Spec

-----------------------------------------------------------------------------
(* The theorems.                                                           *)

\* Every variable of a walk keeps its type; in particular a page has no more entries than
\* the limit of its request, which is at most MaxLimit.
THEOREM PagesTypes == Spec => []TypeOK
<1>1. Inv => TypeOK
  BY DEF Inv
<1>2. QED
  BY <1>1, InvHolds, PTL

\* However rows and permissions change between the pages, and however pages are cut, a row
\* that stays where it is comes once at most.
THEOREM RowsComeOnce == Spec => []EachOnce
<1>1. Inv => EachOnce
  BY DEF Inv
<1>2. QED
  BY <1>1, InvHolds, PTL

\* When the last page has come, so has every row of the query that was there all along.
THEOREM WalksMissNothing == Spec => NoneMissing
<1>1. Inv /\ [Next]_vars =>
        [stage = "selected" /\ walking /\ ~ walking' =>
           \A id \in Ids : Visible(query, id) /\ id \notin moved => returned'[id] = 1]_vars
  <2>1. SUFFICES ASSUME Inv, Next, stage = "selected", walking, ~ walking',
                        NEW id \in Ids, Visible(query, id), id \notin moved
                 PROVE  returned'[id] = 1
    OBVIOUS
  <2>2. PICK budget : Answer(budget)
    <3>1. ASSUME Change PROVE FALSE
      BY <2>1, <3>1 DEF Change, walkVars
    <3>2. QED
      BY <2>1, <3>1 DEF Next, Write, Permit, Rephrase, Ask, Reject, Fail
  <2>3. PICK n \in 0..Len(entries) :
          /\ Len(entries) > 0 => n > 0
          /\ returned' = [x \in Ids |->
               IF \E i \in 1..n : entries[i].id = x THEN Min({2, returned[x] + 1})
               ELSE returned[x]]
          /\ IF GoesOn(n) /\ n > 0
               THEN /\ cursor' = [keys |-> entries[n].keys, hash |-> fingerprint(query)]
                    /\ limit' = 0 /\ UNCHANGED walking
               ELSE Stop
    BY <2>1, <2>2, AnswerIs
  <2>4. ~ (GoesOn(n) /\ n > 0)
    BY <2>1, <2>3
  <2>5. Shown(query.filter, id, table[id], permissions)
    BY <2>1 DEF Visible, Shown
  <2>6. returned[id] = 1 \/ (returned[id] = 0 /\ \E i \in 1..n : entries[i].id = id)
    BY <2>1, <2>3, <2>4, <2>5, LastPage
  <2>7. Len(entries) \in Nat
    BY <2>1 DEF Inv, PageInv, InOrder
  <2>8. CASE \E i \in 1..n : entries[i].id = id
    <3>1. PICK i \in 1..n : entries[i].id = id
      BY <2>8
    <3>2. i \in 1..Len(entries)
      BY <2>7
    <3>3. returned[id] = 0
      BY <2>1, <3>1, <3>2, EntriesAreNew
    <3>4. returned'[id] = Min({2, returned[id] + 1})
      BY <2>1, <2>3, <2>8
    <3>5. Min({2, 0 + 1}) = 1
      BY DEF Min
    <3>6. QED
      BY <3>3, <3>4, <3>5
  <2>9. CASE ~ \E i \in 1..n : entries[i].id = id
    BY <2>1, <2>3, <2>6, <2>9
  <2>10. QED
    BY <2>8, <2>9
<1>2. QED
  BY <1>1, InvHolds, PTL DEF Spec, NoneMissing

\* A new cursor is beyond the last one in the order of the query: no page with a cursor
\* is empty, and no walk goes round, whatever happens to the rows.
THEOREM CursorsAdvance ==
  Spec => [][cursor # None /\ cursor' \notin {None, cursor} =>
               Ahead(cursor.keys, cursor'.keys, orderOf[query])]_vars
<1>1. Inv /\ [Next]_vars =>
        [cursor # None /\ cursor' \notin {None, cursor} =>
           Ahead(cursor.keys, cursor'.keys, orderOf[query])]_vars
  <2>1. SUFFICES ASSUME Inv, Next, cursor # None, cursor' # None, cursor' # cursor
                 PROVE  Ahead(cursor.keys, cursor'.keys, orderOf[query])
    OBVIOUS
  <2>2. PICK budget : Answer(budget)
    <3>1. ASSUME Change PROVE FALSE
      BY <2>1, <3>1 DEF Change, walkVars
    <3>2. QED
      BY <2>1, <3>1 DEF Next, Write, Permit, Rephrase, Ask, Reject, Fail, Stop
  <2>3. PICK n \in 0..Len(entries) :
          IF GoesOn(n) /\ n > 0
            THEN /\ cursor' = [keys |-> entries[n].keys, hash |-> fingerprint(query)]
                 /\ limit' = 0 /\ UNCHANGED walking
            ELSE Stop
    BY <2>1, <2>2, AnswerIs
  <2>4. n > 0 /\ cursor'.keys = entries[n].keys
    BY <2>1, <2>3 DEF Stop
  <2>5. InOrder
    BY <2>1, <2>2 DEF Inv, PageInv, Answer
  <2>6. n \in 1..Len(entries)
    BY <2>4, <2>5 DEF InOrder
  <2>7. QED
    BY <2>1, <2>4, <2>5, <2>6 DEF InOrder
<1>2. QED
  BY <1>1, InvHolds, PTL DEF Spec
=============================================================================
