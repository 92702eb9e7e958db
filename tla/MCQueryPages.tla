----------------------------- MODULE MCQueryPages -----------------------------
(* Three rows of two projects, and orders with ties, nulls and both directions. *)
EXTENDS QueryPages

up == [field |-> "key", dir |-> "ASC"]
down == [field |-> "key", dir |-> "DESC"]
MCTables == {<<1, 1, Null>>, <<Null, 2, Null>>, <<1, 2, 1>>, <<2, None, Null>>}
MCProjectOf == <<1, 1, 2>>
MCDefaultSort == <<down>>
MCQueries ==
  {[sort |-> s, filter |-> None] :
     s \in {<<>>, <<down>>, <<up>>, <<up, [field |-> "id", dir |-> "DESC"]>>}}
  \union {[sort |-> <<>>, filter |-> {1}]}
=============================================================================
