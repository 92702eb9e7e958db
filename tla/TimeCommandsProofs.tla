------------------------- MODULE TimeCommandsProofs -------------------------
(***************************************************************************)
(* What the commands on times keep, for any number of transactions, cells  *)
(* and minutes: a week is one replacement, which needs neither the types   *)
(* nor the sums; then the types, with the sums that are numbers because    *)
(* the rows of a day are finitely many; then the limits; then what a       *)
(* success means.                                                          *)
(***************************************************************************)
EXTENDS TimeCommands, FiniteSetTheorems, TLAPS

Shape ==
  /\ pc \in [Txs -> {"idle", "begun", "half", "summed", "deleting", "written",
                     "done"}]
  /\ job \in [Txs -> Job]
  /\ DOMAIN seen = Txs /\ DOMAIN locked = Txs /\ DOMAIN before = Txs

IndInv == Shape /\ WeekIsOneReplacement /\ WeekInv

\* A transaction inserts its own rows, and those of a week are the only ones of
\* a replacement and of no other command.
LEMMA InsertedRows ==
  ASSUME job \in [Txs -> Job], NEW t \in Txs, NEW r \in Inserted(t)
  PROVE  r.by = t /\ (r.table = "week" <=> job[t].cmd = "replace")
<1>1. job[t] \in Job
  OBVIOUS
<1>2. CASE job[t].cmd = "work"
  BY <1>2 DEF Inserted, Is
<1>3. CASE job[t].cmd = "absence"
  BY <1>3 DEF Inserted, Is
<1>4. CASE job[t].cmd = "delete"
  BY <1>4 DEF Inserted, Is
<1>5. CASE job[t].cmd = "replace"
  BY <1>5 DEF Inserted, Is
<1>6. QED
  BY <1>1, <1>2, <1>3, <1>4, <1>5 DEF Job

LEMMA InitInv == Init => IndInv
<1>1. SUFFICES ASSUME Init PROVE IndInv
  OBVIOUS
<1>2. Shape
  BY <1>1 DEF Init, Shape
<1>3. WeekIsOneReplacement
  BY <1>1 DEF Init, WeekIsOneReplacement, In
<1>4. WeekInv
  BY <1>1 DEF Init, WeekInv, In, Ended
<1>5. QED
  BY <1>2, <1>3, <1>4 DEF IndInv

\* What a step that leaves the rows alone and holds no new lock has to show.
LEMMA RowsStay ==
  ASSUME IndInv, NEW t \in Txs, Shape',
         UNCHANGED <<rows, job>>,
         \A u \in Txs \ {t} : /\ pc'[u] = pc[u] /\ before'[u] = before[u]
                              /\ seen'[u] = seen[u] /\ locked'[u] = locked[u],
         pc[t] # "done", pc'[t] \in {"half", "summed"} => Is(t, {"work", "absence"}),
         before'[t] = before[t] \/ (pc[t] = "idle" /\ before'[t] \subseteq Ended),
         pc'[t] # "idle",
         \A r \in seen'[t] : r \in seen[t] \/ r \in rows,
         locked'[t] = {} \/ (pc'[t] = "written" /\ locked'[t] \subseteq rows
           /\ \A u \in Txs \ {t} : locked'[t] \intersect locked[u] = {}),
         pc'[t] \in {"deleting", "written"} =>
           \A r \in In("week") :
             /\ Is(t, {"replace"}) /\ r.by \in before'[t] => r \in Deleting(t)'
             /\ r \in Deleting(t)' => Inserted(r.by) \subseteq Deleting(t)'
  PROVE  IndInv'
<1> USE DEF IndInv
<1>1. /\ Ended \subseteq Ended' /\ t \notin Ended
      /\ In("week")' = In("week")
      /\ \A u \in Txs : Inserted(u)' = Inserted(u) /\ (Is(u, {"replace"})' <=> Is(u, {"replace"}))
      /\ \A u \in Txs : Is(u, {"work", "absence"})' <=> Is(u, {"work", "absence"})
  BY DEF Ended, In, Inserted, Is, Shape
<1>2. \A r \in rows : r.by \in Ended /\ r \in Inserted(r.by)
  BY DEF WeekInv
<1>3. \A r \in In("week") : r \in rows /\ r.by \in Txs /\ r.by # t /\ r.by \in Ended
  BY <1>1, <1>2 DEF In, Ended
<1>4. WeekIsOneReplacement'
  <2>1. ASSUME NEW r \in In("week") PROVE Inserted(r.by)' \subseteq rows'
    BY <1>1, <1>3, <2>1 DEF WeekIsOneReplacement
  <2>2. ASSUME NEW r \in In("week"), NEW q \in In("week"), r.by # q.by
        PROVE  Overlap(r.by, q.by)'
    <3>1. Overlap(r.by, q.by)
      BY <2>2 DEF WeekIsOneReplacement
    <3>2. QED
      BY <1>3, <3>1 DEF Overlap
  <2>3. QED
    BY <1>1, <2>1, <2>2 DEF WeekIsOneReplacement
<1>5. \A r \in rows' : r.by \in Ended' /\ r \in Inserted(r.by)'
  BY <1>1, <1>2 DEF Ended
<1>6. \A u \in Txs : /\ before'[u] \subseteq Ended' /\ (pc'[u] = "idle" => before'[u] = {})
                     /\ locked'[u] \subseteq rows'
                     /\ pc'[u] # "written" => locked'[u] = {}
                     /\ \A r \in seen'[u] : r.by \in Ended'
                     /\ pc'[u] \in {"half", "summed"} => Is(u, {"work", "absence"})'
  <2>1. ASSUME NEW u \in Txs \ {t}
        PROVE  /\ before'[u] \subseteq Ended' /\ (pc'[u] = "idle" => before'[u] = {})
               /\ locked'[u] \subseteq rows'
               /\ pc'[u] # "written" => locked'[u] = {}
               /\ \A r \in seen'[u] : r.by \in Ended'
               /\ pc'[u] \in {"half", "summed"} => Is(u, {"work", "absence"})'
    BY <1>1, <2>1 DEF WeekInv
  <2>2. /\ before'[t] \subseteq Ended' /\ (pc'[t] = "idle" => before'[t] = {})
        /\ locked'[t] \subseteq rows'
        /\ pc'[t] # "written" => locked'[t] = {}
        /\ \A r \in seen'[t] : r.by \in Ended'
        /\ pc'[t] \in {"half", "summed"} => Is(t, {"work", "absence"})'
    BY <1>1 DEF WeekInv
  <2>3. QED
    BY <2>1, <2>2
<1>7. \A u \in Txs : \A v \in Txs \ {u} : locked'[u] \intersect locked'[v] = {}
  BY DEF WeekInv
<1>8. ASSUME NEW u \in Txs, pc'[u] \in {"deleting", "written"}, NEW r \in In("week")
      PROVE  /\ Is(u, {"replace"})' /\ r.by \in before'[u] => r \in Deleting(u)'
             /\ r \in Deleting(u)' => Inserted(r.by)' \subseteq Deleting(u)'
  <2>1. CASE u = t
    BY <1>1, <1>3, <1>8, <2>1
  <2>2. CASE u # t
    <3>1. Deleting(u)' = Deleting(u)
      BY <2>2 DEF Deleting
    <3>2. QED
      BY <1>1, <1>3, <1>8, <2>2, <3>1 DEF WeekInv
  <2>3. QED
    BY <2>1, <2>2
<1>9. WeekInv'
  BY <1>1, <1>5, <1>6, <1>7, <1>8 DEF WeekInv
<1>10. QED
  BY <1>4, <1>9

-----------------------------------------------------------------------------
\* Whoever ends without a change leaves the others as they are.
LEMMA EndsInv ==
  ASSUME IndInv, NEW t \in Txs, NEW a, pc[t] # "done", Finish(t, a), UNCHANGED rows
  PROVE  IndInv'
<1>1. Shape'
  BY DEF Finish, IndInv, Shape
<1>2. /\ pc'[t] = "done" /\ locked'[t] = {} /\ UNCHANGED <<rows, job, seen, before>>
      /\ \A u \in Txs \ {t} : pc'[u] = pc[u] /\ locked'[u] = locked[u]
  BY DEF Finish, IndInv, Shape
<1>3. QED
  BY <1>1, <1>2, RowsStay

LEMMA BeginInv ==
  ASSUME IndInv, NEW t \in Txs, Begin(t)
  PROVE  IndInv'
<1>1. Shape'
  BY DEF Begin, Goes, IndInv, Shape
<1>2. /\ pc[t] = "idle" /\ pc'[t] = "begun" /\ UNCHANGED <<rows, job, seen, locked>>
      /\ before'[t] = Ended
      /\ \A u \in Txs \ {t} : pc'[u] = pc[u] /\ before'[u] = before[u]
  BY DEF Begin, Goes, IndInv, Shape, Ended
<1>3. locked'[t] = {}
  BY <1>2 DEF IndInv, WeekInv
<1>4. QED
  BY <1>1, <1>2, <1>3, RowsStay

\* The queries of the sums, and the decision on them.
LEMMA SumsInv ==
  ASSUME IndInv, NEW t \in Txs, SumWorked(t) \/ SumUnworked(t) \/ Create(t)
  PROVE  IndInv'
<1>1. /\ UNCHANGED <<rows, job, seen, locked, before>>
      /\ pc[t] \in {"begun", "half", "summed"} /\ pc'[t] \in {"half", "summed", "written"}
      /\ pc' = [pc EXCEPT ![t] = pc'[t]]
  BY DEF SumWorked, SumUnworked, Create, Goes, IndInv, Shape
<1>2. Is(t, {"work", "absence"})
  <2>1. CASE SumWorked(t)
    BY <2>1 DEF SumWorked, Is
  <2>2. CASE SumUnworked(t) \/ Create(t)
    <3>1. pc[t] \in {"half", "summed"}
      BY <2>2 DEF SumUnworked, Create, Goes
    <3>2. QED
      BY <3>1 DEF IndInv, WeekInv
  <2>3. QED
    BY <2>1, <2>2
<1>3. Shape' /\ \A u \in Txs \ {t} : pc'[u] = pc[u]
  BY <1>1 DEF IndInv, Shape
<1>4. locked'[t] = {}
  BY <1>1 DEF IndInv, WeekInv
<1>5. ~ Is(t, {"replace"}) /\ Deleting(t)' \subseteq locked'[t] \union seen'[t]
  BY <1>2 DEF Is, Deleting
<1>6. pc'[t] = "written" => Deleting(t)' = {}
  BY <1>4 DEF Deleting
<1>7. QED
  BY <1>1, <1>2, <1>3, <1>4, <1>5, <1>6, RowsStay

\* What a DELETE of a week finds is every row, and what the deletion of a
\* record finds is no row of the week.
LEMMA MatchInv ==
  ASSUME IndInv, NEW t \in Txs, Match(t)
  PROVE  IndInv'
<1>1. /\ UNCHANGED <<rows, job, locked, before>>
      /\ pc[t] = "begun" /\ pc'[t] = "deleting" /\ seen'[t] = Matched(t)
      /\ Is(t, {"delete", "replace"})
      /\ \A u \in Txs \ {t} : pc'[u] = pc[u] /\ seen'[u] = seen[u]
  BY DEF Match, Goes, IndInv, Shape
<1>2. Shape'
  BY DEF Match, Goes, IndInv, Shape
<1>3. locked'[t] = {}
  BY <1>1 DEF IndInv, WeekInv
<1>4. Matched(t) \subseteq rows /\ Deleting(t)' = Matched(t)
  BY <1>1 DEF Matched, Deleting, In
<1>5. ASSUME NEW r \in In("week")
      PROVE  /\ Is(t, {"replace"}) /\ r.by \in before'[t] => r \in Deleting(t)'
             /\ r \in Deleting(t)' => Inserted(r.by) \subseteq Deleting(t)'
  <2>1. CASE Is(t, {"delete"})
    <3>1. r \notin Matched(t)
      <4>1. job[t].table # "week"
        BY <2>1 DEF Is, IndInv, Shape, Job
      <4>2. QED
        BY <2>1, <4>1 DEF Matched, In
    <3>2. ~ Is(t, {"replace"})
      BY <2>1 DEF Is
    <3>3. QED
      BY <1>4, <3>1, <3>2
  <2>2. CASE ~ Is(t, {"delete"})
    <3>1. Matched(t) = In("week")
      BY <2>2 DEF Matched
    <3>2. r.by \in Txs /\ r \in Inserted(r.by) /\ r.table = "week"
      BY DEF IndInv, WeekInv, In, Ended
    <3>3. job[r.by].cmd = "replace"
      BY <3>2, InsertedRows DEF IndInv, Shape
    <3>4. \A q \in Inserted(r.by) : q.table = "week"
      BY <3>2, <3>3, InsertedRows DEF IndInv, Shape
    <3>5. Inserted(r.by) \subseteq In("week")
      BY <3>4 DEF IndInv, WeekIsOneReplacement, In
    <3>6. QED
      BY <1>4, <3>1, <3>5
  <2>3. QED
    BY <2>1, <2>2
<1>6. QED
  BY <1>1, <1>2, <1>3, <1>4, <1>5, RowsStay

LEMMA DestroyInv ==
  ASSUME IndInv, NEW t \in Txs, Destroy(t)
  PROVE  IndInv'
<1>1. /\ UNCHANGED <<rows, job, seen, before>>
      /\ pc[t] = "deleting" /\ pc'[t] = "written" /\ locked'[t] = seen[t] \intersect rows
      /\ \A u \in Txs \ {t} : /\ pc'[u] = pc[u] /\ locked'[u] = locked[u]
                              /\ locked[u] \intersect seen[t] = {}
  BY DEF Destroy, Goes, IndInv, Shape
<1>2. Shape'
  BY DEF Destroy, Goes, IndInv, Shape
<1>3. Deleting(t)' = Deleting(t)
  BY <1>1 DEF Deleting
<1>4. \A r \in In("week") :
        /\ Is(t, {"replace"}) /\ r.by \in before'[t] => r \in Deleting(t)'
        /\ r \in Deleting(t)' => Inserted(r.by) \subseteq Deleting(t)'
  BY <1>1, <1>3 DEF IndInv, WeekInv
<1>5. QED
  BY <1>1, <1>2, <1>4, RowsStay

-----------------------------------------------------------------------------
\* The only step that changes the rows.
LEMMA CommitInv ==
  ASSUME IndInv, NEW t \in Txs, Commit(t)
  PROVE  IndInv'
<1> USE DEF IndInv
<1>1. /\ pc[t] = "written" /\ pc'[t] = "done" /\ locked'[t] = {}
      /\ rows' = (rows \ locked[t]) \union Inserted(t)
      /\ UNCHANGED <<job, seen, before>>
      /\ \A u \in Txs \ {t} : pc'[u] = pc[u] /\ locked'[u] = locked[u]
  BY DEF Commit, Finish, Shape
<1>2. Shape'
  BY DEF Commit, Finish, Shape
<1>3. /\ Ended' = Ended \union {t} /\ t \notin Ended
      /\ \A u \in Txs : Inserted(u)' = Inserted(u)
      /\ \A u \in Txs : Is(u, {"replace"})' <=> Is(u, {"replace"})
      /\ \A u \in Txs : Is(u, {"work", "absence"})' <=> Is(u, {"work", "absence"})
  BY <1>1 DEF Ended, Inserted, Is, Shape
<1>4. \A r \in rows : r.by \in Ended /\ r.by \in Txs /\ r.by # t /\ r \in Inserted(r.by)
  BY <1>3 DEF WeekInv, Ended
<1>5. \A u \in Txs : \A r \in Inserted(u) : r.by = u
  BY InsertedRows DEF Shape
\* What is deleted of a replacement is all of it.
<1>6. ASSUME NEW r \in rows \ locked[t], r.table = "week"
      PROVE  Inserted(r.by) \subseteq rows \ locked[t]
  <2>1. r \in In("week")
    BY <1>6 DEF In
  <2>2. Inserted(r.by) \subseteq rows
    BY <2>1 DEF WeekIsOneReplacement
  <2>3. ASSUME NEW q \in Inserted(r.by), q \in locked[t] PROVE FALSE
    <3>1. q.by = r.by /\ q \in rows
      BY <1>4, <1>5, <2>2
    <3>2. q.table = "week"
      BY <1>4, <1>6, InsertedRows DEF Shape
    <3>3. q \in In("week") /\ q \in Deleting(t)
      BY <1>1, <2>3, <3>1, <3>2 DEF In, Deleting
    <3>4. Inserted(q.by) \subseteq Deleting(t)
      BY <1>1, <3>3 DEF WeekInv
    <3>5. r \in Deleting(t)
      BY <1>4, <3>1, <3>4
    <3>6. QED
      BY <1>1, <3>5 DEF Deleting
  <2>4. QED
    BY <2>2, <2>3
<1>7. WeekIsOneReplacement'
  <2>1. ASSUME NEW r \in In("week")' PROVE Inserted(r.by)' \subseteq rows'
    <3>1. CASE r \in Inserted(t)
      BY <1>1, <1>3, <1>5, <3>1
    <3>2. CASE r \notin Inserted(t)
      <4>1. r \in rows \ locked[t] /\ r.table = "week"
        BY <1>1, <3>2 DEF In
      <4>2. QED
        BY <1>1, <1>3, <1>4, <1>6, <4>1
    <3>3. QED
      BY <3>1, <3>2
  \* A row that is left was written by a replacement that overlapped this one.
  <2>2. ASSUME NEW r \in rows \ locked[t], NEW q \in Inserted(t),
               r.table = "week", q.table = "week"
        PROVE  Overlap(r.by, t)
    <3>1. Is(t, {"replace"})
      BY <2>2, InsertedRows DEF Shape, Is
    <3>2. r.by \notin before[t]
      <4>1. SUFFICES ASSUME r.by \in before[t] PROVE FALSE
        OBVIOUS
      <4>2. r \in Deleting(t)
        BY <1>1, <2>2, <3>1, <4>1 DEF WeekInv, In
      <4>3. QED
        BY <1>1, <4>2 DEF Deleting
    <3>3. t \notin before[r.by]
      BY <1>3, <1>4 DEF WeekInv
    <3>4. QED
      BY <3>2, <3>3 DEF Overlap
  <2>3. ASSUME NEW r \in In("week")', NEW q \in In("week")', r.by # q.by
        PROVE  Overlap(r.by, q.by)'
    <3>1. /\ r \in rows' /\ r.table = "week" /\ q \in rows' /\ q.table = "week"
      BY DEF In
    <3>2. Overlap(r.by, q.by)
      <4>1. CASE r \notin Inserted(t) /\ q \notin Inserted(t)
        BY <1>1, <2>3, <3>1, <4>1 DEF WeekIsOneReplacement, In
      <4>2. CASE r \notin Inserted(t) /\ q \in Inserted(t)
        BY <1>1, <1>5, <2>2, <3>1, <4>2
      <4>3. CASE r \in Inserted(t) /\ q \notin Inserted(t)
        <5>1. Overlap(q.by, t) /\ r.by = t
          BY <1>1, <1>5, <2>2, <3>1, <4>3
        <5>2. QED
          BY <5>1 DEF Overlap
      <4>4. CASE r \in Inserted(t) /\ q \in Inserted(t)
        BY <1>5, <2>3, <4>4
      <4>5. QED
        BY <4>1, <4>2, <4>3, <4>4
    <3>3. QED
      BY <1>1, <3>2 DEF Overlap
  <2>4. QED
    BY <2>1, <2>3 DEF WeekIsOneReplacement
<1>8. \A r \in rows' : r.by \in Ended' /\ r \in Inserted(r.by)'
  BY <1>1, <1>3, <1>4, <1>5
<1>9. ASSUME NEW u \in Txs
      PROVE  /\ before'[u] \subseteq Ended' /\ (pc'[u] = "idle" => before'[u] = {})
             /\ locked'[u] \subseteq rows'
             /\ pc'[u] # "written" => locked'[u] = {}
             /\ \A r \in seen'[u] : r.by \in Ended'
             /\ pc'[u] \in {"half", "summed"} => Is(u, {"work", "absence"})'
  <2>1. CASE u = t
    BY <1>1, <1>3, <2>1 DEF WeekInv
  <2>2. CASE u # t
    <3>1. locked[u] \intersect locked[t] = {} /\ locked[u] \subseteq rows
      BY <2>2 DEF WeekInv
    <3>2. locked'[u] \subseteq rows'
      BY <1>1, <2>2, <3>1
    <3>3. QED
      BY <1>1, <1>3, <2>2, <3>2 DEF WeekInv
  <2>3. QED
    BY <2>1, <2>2
<1>10. \A u \in Txs : \A v \in Txs \ {u} : locked'[u] \intersect locked'[v] = {}
  BY <1>1 DEF WeekInv
<1>11. ASSUME NEW u \in Txs, pc'[u] \in {"deleting", "written"}, NEW r \in In("week")'
       PROVE  /\ Is(u, {"replace"})' /\ r.by \in before'[u] => r \in Deleting(u)'
              /\ r \in Deleting(u)' => Inserted(r.by)' \subseteq Deleting(u)'
  <2>1. u # t /\ pc[u] \in {"deleting", "written"}
    BY <1>1, <1>11
  <2>2. \A q \in rows' : q \in Deleting(u)' <=> q \in rows /\ q \in Deleting(u)
    <3>1. \A q \in Inserted(t) : q \notin seen[u] /\ q \notin locked[u] /\ q \notin rows
      BY <1>3, <1>4, <1>5 DEF WeekInv
    <3>2. \A q \in rows' : q \in rows \/ q \in Inserted(t)
      BY <1>1
    <3>3. QED
      BY <1>1, <2>1, <3>1, <3>2 DEF Deleting
  <2>3. r \in rows' /\ r.table = "week"
    BY DEF In
  <2>4. CASE r \in Inserted(t)
    <3>1. r.by = t /\ r \notin rows
      BY <1>4, <1>5, <2>4
    <3>2. r.by \notin before'[u]
      BY <1>1, <1>3, <3>1 DEF WeekInv
    <3>3. QED
      BY <2>2, <2>3, <3>1, <3>2
  <2>5. CASE r \notin Inserted(t)
    <3>1. r \in rows \ locked[t] /\ r \in In("week") /\ r.by \in Txs
      BY <1>1, <1>4, <2>3, <2>5 DEF In
    <3>2. Inserted(r.by) \subseteq rows'
      BY <1>1, <1>6, <2>3, <3>1
    <3>3. r \in Deleting(u) => Inserted(r.by) \subseteq Deleting(u)
      BY <2>1, <3>1 DEF WeekInv
    <3>4. Is(u, {"replace"}) /\ r.by \in before[u] => r \in Deleting(u)
      BY <2>1, <3>1 DEF WeekInv
    <3>5. \A q \in Deleting(u) : q \in rows
      BY DEF Deleting
    <3>6. QED
      BY <1>1, <1>3, <2>2, <2>3, <3>1, <3>2, <3>3, <3>4, <3>5
  <2>6. QED
    BY <2>4, <2>5
<1>12. WeekInv'
  BY <1>8, <1>9, <1>10, <1>11 DEF WeekInv
<1>13. QED
  BY <1>2, <1>7, <1>12

-----------------------------------------------------------------------------
LEMMA NextInv == IndInv /\ [Next]_vars => IndInv'
<1>1. SUFFICES ASSUME IndInv, [Next]_vars PROVE IndInv'
  OBVIOUS
<1>2. CASE UNCHANGED vars
  <2>1. UNCHANGED <<rows, pc, job, seen, locked, before>>
    BY <1>2 DEF vars
  <2>2. /\ \A u : Inserted(u)' = Inserted(u) /\ Deleting(u)' = Deleting(u)
        /\ \A u, cmds : Is(u, cmds)' <=> Is(u, cmds)
        /\ \A u, v : Overlap(u, v)' <=> Overlap(u, v)
        /\ Ended' = Ended /\ In("week")' = In("week")
    BY <2>1 DEF Inserted, Deleting, Is, Overlap, Ended, In
  <2>3. Shape'
    BY <1>1, <2>1 DEF IndInv, Shape
  <2>4. WeekIsOneReplacement'
    BY <1>1, <2>1, <2>2 DEF IndInv, WeekIsOneReplacement
  <2>5. WeekInv'
    BY <1>1, <2>1, <2>2 DEF IndInv, WeekInv
  <2>6. QED
    BY <2>3, <2>4, <2>5 DEF IndInv
<1>3. ASSUME NEW t \in Txs, Begin(t) PROVE IndInv'
  BY <1>1, <1>3, BeginInv
<1>4. ASSUME NEW t \in Txs, Refuse(t) \/ RollBack(t) \/ NotFound(t) \/ DailyLimitExceeded(t)
      PROVE  IndInv'
  <2>1. pc[t] # "done" /\ UNCHANGED rows
    BY <1>4 DEF Refuse, RollBack, NotFound, DailyLimitExceeded
  <2>2. Finish(t, "refused") \/ Finish(t, "failed")
    BY <1>4 DEF Refuse, RollBack, NotFound, DailyLimitExceeded
  <2>3. QED
    BY <1>1, <2>1, <2>2, EndsInv
<1>5. ASSUME NEW t \in Txs, Commit(t) PROVE IndInv'
  BY <1>1, <1>5, CommitInv
<1>6. ASSUME NEW t \in Txs, SumWorked(t) \/ SumUnworked(t) \/ Create(t) PROVE IndInv'
  BY <1>1, <1>6, SumsInv
<1>7. ASSUME NEW t \in Txs, Match(t) PROVE IndInv'
  BY <1>1, <1>7, MatchInv
<1>8. ASSUME NEW t \in Txs, Destroy(t) PROVE IndInv'
  BY <1>1, <1>8, DestroyInv
<1>9. CASE Next
  BY <1>3, <1>4, <1>5, <1>6, <1>7, <1>8, <1>9 DEF Next
<1>10. QED
  BY <1>1, <1>2, <1>9

\* What the transactions of a week keep of each other, in every state.
THEOREM InductiveInvariant == Spec => []IndInv
BY InitInv, NextInv, PTL DEF Spec

\* A week holds whole replacements, and more than one only if they overlapped.
THEOREM WholeReplacements == Spec => []WeekIsOneReplacement
<1>1. IndInv => WeekIsOneReplacement
  BY DEF IndInv
<1>2. QED
  BY <1>1, InductiveInvariant, PTL

\* Two transactions never delete the same row, and a replacement deletes every
\* row of those that ended before it.
THEOREM WeekInvariantHolds == Spec => []WeekInv
<1>1. IndInv => WeekInv
  BY DEF IndInv
<1>2. QED
  BY <1>1, InductiveInvariant, PTL

-----------------------------------------------------------------------------
(* The minutes of a finite set of rows.                                    *)

\* The minutes of one row are as many as it says.
LEMMA MinutesOfOne ==
  ASSUME NEW r, r.minutes \in Nat
  PROVE  /\ IsFiniteSet({r} \X (1..r.minutes))
         /\ MinutesOf({r}) = r.minutes
<1>1. IsFiniteSet({r}) /\ Cardinality({r}) = 1
  BY FS_Singleton
<1>2. ASSUME NEW m \in Nat PROVE IsFiniteSet(1..m) /\ Cardinality(1..m) = m
  <2>1. IsFiniteSet(1..m) /\ Cardinality(1..m) = IF 1 > m THEN 0 ELSE m - 1 + 1
    BY FS_Interval
  <2>2. QED
    BY <2>1
<1>3. IsFiniteSet(1..r.minutes) /\ Cardinality(1..r.minutes) = r.minutes
  BY <1>2
<1>4. /\ IsFiniteSet({r} \X (1..r.minutes))
      /\ Cardinality({r} \X (1..r.minutes)) = Cardinality({r}) * Cardinality(1..r.minutes)
  BY <1>1, <1>3, FS_Product, Zenon
<1>5. Cardinality({r} \X (1..r.minutes)) = r.minutes
  BY <1>1, <1>3, <1>4
<1>6. Marks({r}) = {r} \X (1..r.minutes)
  BY DEF Marks
<1>7. QED
  BY <1>4, <1>5, <1>6 DEF MinutesOf

\* They are finitely many, so that their sum is a number.
LEMMA MinutesFinite ==
  ASSUME NEW S, IsFiniteSet(S), \A r \in S : r.minutes \in Nat
  PROVE  IsFiniteSet(Marks(S)) /\ MinutesOf(S) \in Nat
<1> DEFINE Of == [r \in S |-> {r} \X (1..r.minutes)]
           Sets == {{r} \X (1..r.minutes) : r \in S}
<1>1. Of \in Surjection(S, Sets)
  BY DEF Surjection
<1>2. IsFiniteSet(Sets)
  BY <1>1, FS_Surjection
<1>3. ASSUME NEW r \in S PROVE IsFiniteSet({r} \X (1..r.minutes))
  BY MinutesOfOne
<1>4. IsFiniteSet(UNION Sets)
  BY <1>2, <1>3, FS_UNION
<1>5. QED
  BY <1>4, FS_CardinalityType DEF Marks, MinutesOf

\* Fewer rows have no more minutes.
LEMMA MinutesMonotone ==
  ASSUME NEW S, IsFiniteSet(S), \A r \in S : r.minutes \in Nat, NEW T \in SUBSET S
  PROVE  MinutesOf(T) \in Nat /\ MinutesOf(T) <= MinutesOf(S)
<1>1. IsFiniteSet(T)
  BY FS_Subset
<1>2. Marks(T) \subseteq Marks(S)
  BY DEF Marks
<1>3. MinutesOf(T) \in Nat /\ IsFiniteSet(Marks(S))
  BY <1>1, MinutesFinite
<1>4. Cardinality(Marks(T)) <= Cardinality(Marks(S))
  BY <1>2, <1>3, FS_Subset
<1>5. QED
  BY <1>3, <1>4 DEF MinutesOf

\* Rows together have no more minutes than the two sums.
LEMMA MinutesUnion ==
  ASSUME NEW S, IsFiniteSet(S), \A r \in S : r.minutes \in Nat,
         NEW T, IsFiniteSet(T), \A r \in T : r.minutes \in Nat
  PROVE  MinutesOf(S \union T) <= MinutesOf(S) + MinutesOf(T)
<1>1. IsFiniteSet(Marks(S)) /\ IsFiniteSet(Marks(T))
  BY MinutesFinite
<1>2. Marks(S \union T) = Marks(S) \union Marks(T)
  BY DEF Marks
<1>3. Cardinality(Marks(S) \union Marks(T))
        = Cardinality(Marks(S)) + Cardinality(Marks(T))
          - Cardinality(Marks(S) \intersect Marks(T))
  BY <1>1, FS_Union
<1>4. IsFiniteSet(Marks(S) \intersect Marks(T))
  <2>1. Marks(S) \intersect Marks(T) \in SUBSET Marks(S)
    OBVIOUS
  <2>2. QED
    BY <1>1, <2>1, FS_Subset
<1>5. /\ Cardinality(Marks(S)) \in Nat /\ Cardinality(Marks(T)) \in Nat
      /\ Cardinality(Marks(S) \intersect Marks(T)) \in Nat
  BY <1>1, <1>4, FS_CardinalityType
<1>6. Cardinality(Marks(S) \union Marks(T))
        <= Cardinality(Marks(S)) + Cardinality(Marks(T))
  BY <1>3, <1>5
<1>7. QED
  BY <1>2, <1>6 DEF MinutesOf

-----------------------------------------------------------------------------
\* What a command inserts are rows of its table.
LEMMA InsertedTypes ==
  ASSUME job \in [Txs -> Job], NEW t \in Txs
  PROVE  Inserted(t) \subseteq DayRow \union WeekRow
<1>1. job[t] \in Job
  OBVIOUS
<1>2. CASE job[t] \in [cmd : {"work", "absence"}, minutes : Minutes]
  <2>1. job[t].cmd \in {"work", "absence"} /\ job[t].minutes \in Minutes
    BY <1>2
  <2>2. \A table \in {"worked", "unworked"} :
          [table |-> table, by |-> t, minutes |-> job[t].minutes] \in DayRow
    BY <2>1 DEF DayRow
  <2>3. CASE job[t].cmd = "work"
    BY <2>2, <2>3 DEF Inserted, Is
  <2>4. CASE job[t].cmd = "absence"
    BY <2>2, <2>4 DEF Inserted, Is
  <2>5. QED
    BY <2>1, <2>3, <2>4
<1>3. CASE job[t].cmd = "delete"
  BY <1>3 DEF Inserted, Is
<1>4. CASE job[t] \in [cmd : {"replace"}, grid : [Cells -> {0} \union Minutes]]
  <2>1. job[t].cmd = "replace" /\ job[t].grid \in [Cells -> {0} \union Minutes]
    BY <1>4
  <2>2. \A c \in Filled(job[t].grid) :
          [table |-> "week", by |-> t, cell |-> c, minutes |-> job[t].grid[c]] \in WeekRow
    BY <2>1 DEF Filled, WeekRow
  <2>3. QED
    BY <2>1, <2>2 DEF Inserted, Is
<1>5. QED
  BY <1>1, <1>2, <1>3, <1>4 DEF Job

\* The rows of a day are finitely many: each comes from a transaction, and a
\* transaction inserts one.
Finite == IsFiniteSet(In("worked")) /\ IsFiniteSet(In("unworked"))

LEMMA DayMinutes ==
  ASSUME TypeOK, Finite
  PROVE  /\ \A r \in In("worked") \union In("unworked") : r.minutes \in Nat
         /\ MinutesOf(In("worked")) \in Nat
         /\ MinutesOf(In("unworked")) \in Nat
<1>1. \A r \in In("worked") \union In("unworked") : r \in DayRow
  BY DEF In, TypeOK, WeekRow
<1>2. \A r \in In("worked") \union In("unworked") : r.minutes \in Nat
  BY <1>1, MinutesAssumption DEF DayRow
<1>3. QED
  BY <1>2, MinutesFinite DEF Finite

LEMMA NextFinite ==
  ASSUME TypeOK, Finite, [Next]_vars
  PROVE  Finite'
<1>1. CASE UNCHANGED rows
  BY <1>1 DEF Finite, In
<1>2. ASSUME NEW t \in Txs, Commit(t) PROVE Finite'
  <2>1. rows' = (rows \ locked[t]) \union Inserted(t)
    BY <1>2 DEF Commit
  <2>2. ASSUME NEW table \in {"worked", "unworked"}, IsFiniteSet(In(table))
        PROVE  IsFiniteSet(In(table)')
    <3>1. PICK r : \A q \in Inserted(t) : q.table = table => q = r
      <4>1. job[t].cmd \in {"work", "absence", "delete", "replace"}
        BY DEF TypeOK, Job
      <4>2. CASE job[t].cmd = "work"
        BY <4>2 DEF Inserted, Is
      <4>3. CASE job[t].cmd = "absence"
        BY <4>3 DEF Inserted, Is
      <4>4. CASE job[t].cmd = "delete"
        BY <4>4 DEF Inserted, Is
      <4>5. CASE job[t].cmd = "replace"
        BY <4>5 DEF Inserted, Is
      <4>6. QED
        BY <4>1, <4>2, <4>3, <4>4, <4>5
    <3>2. IsFiniteSet(In(table) \union {r})
      BY <2>2, FS_AddElement
    <3>3. In(table)' \in SUBSET (In(table) \union {r})
      BY <2>1, <3>1 DEF In
    <3>4. QED
      BY <3>2, <3>3, FS_Subset
  <2>3. QED
    BY <2>2 DEF Finite
<1>3. QED
  BY <1>1, <1>2
  DEF Next, vars, Begin, Refuse, RollBack, SumWorked, SumUnworked, Create,
      DailyLimitExceeded, Match, NotFound, Destroy

LEMMA NextTypes == TypeOK /\ Finite /\ [Next]_vars => TypeOK'
<1> SUFFICES ASSUME TypeOK, Finite, [Next]_vars PROVE TypeOK'
  OBVIOUS
<1> USE DEF TypeOK
<1>1. CASE UNCHANGED vars
  BY <1>1 DEF vars
<1>2. ASSUME NEW t \in Txs, Begin(t) PROVE TypeOK'
  BY <1>2 DEF Begin, Goes
<1>3. ASSUME NEW t \in Txs, NEW a \in {"refused", "failed"}, Finish(t, a), UNCHANGED rows
      PROVE  TypeOK'
  BY <1>3 DEF Finish
<1>4. ASSUME NEW t \in Txs,
             Refuse(t) \/ RollBack(t) \/ NotFound(t) \/ DailyLimitExceeded(t)
      PROVE  TypeOK'
  BY <1>3, <1>4 DEF Refuse, RollBack, NotFound, DailyLimitExceeded
<1>5. ASSUME NEW t \in Txs, Commit(t) PROVE TypeOK'
  <2>1. Inserted(t) \subseteq DayRow \union WeekRow
    BY InsertedTypes
  <2>2. rows' \subseteq DayRow \union WeekRow
    BY <1>5, <2>1 DEF Commit
  <2>3. QED
    BY <1>5, <2>2 DEF Commit, Finish
<1>6. ASSUME NEW t \in Txs, SumWorked(t) PROVE TypeOK'
  BY <1>6, DayMinutes DEF SumWorked, Goes
<1>7. ASSUME NEW t \in Txs, SumUnworked(t) PROVE TypeOK'
  <2>1. WithUnworked(t) \in Nat
    BY DayMinutes DEF WithUnworked
  <2>2. QED
    BY <1>7, <2>1 DEF SumUnworked, Goes
<1>8. ASSUME NEW t \in Txs, Create(t) PROVE TypeOK'
  BY <1>8 DEF Create, Goes
<1>9. ASSUME NEW t \in Txs, Match(t) PROVE TypeOK'
  <2>1. Matched(t) \subseteq rows
    BY DEF Matched, In
  <2>2. QED
    BY <1>9, <2>1 DEF Match, Goes
<1>10. ASSUME NEW t \in Txs, Destroy(t) PROVE TypeOK'
  BY <1>10 DEF Destroy, Goes
<1>11. CASE Next
  BY <1>2, <1>4, <1>5, <1>6, <1>7, <1>8, <1>9, <1>10, <1>11 DEF Next
<1>12. QED
  BY <1>1, <1>11

LEMMA TypesAndFinite == Spec => [](TypeOK /\ Finite)
<1>1. Init => TypeOK /\ Finite
  BY FS_EmptySet DEF Init, TypeOK, Finite, In
<1>2. TypeOK /\ Finite /\ [Next]_vars => TypeOK' /\ Finite'
  BY NextTypes, NextFinite
<1>3. QED
  BY <1>1, <1>2, PTL DEF Spec

\* Every variable keeps its type: the tables hold rows of their kind whatever
\* is inserted, found and deleted, and a sum is a number.
THEOREM TypesHold == Spec => []TypeOK
BY TypesAndFinite, PTL

-----------------------------------------------------------------------------
(* The limits.                                                             *)

\* The rows of these tables that had been committed when t began and still are.
Known(t, tables) == {r \in rows : r.table \in tables /\ r.by \in before[t]}

\* What makes the limits inductive: what a transaction has summed is at least
\* what it knows and is still there, since nobody inserts a row of a transaction
\* that has ended; and who has written had room for it.
SumInv ==
  /\ \A t \in Txs : pc[t] = "half" =>
       MinutesOf(Known(t, {"worked"})) <= sum[t] /\ Is(t, {"absence"})
  /\ \A t \in Txs : pc[t] \in {"summed", "written"} =>
       /\ Is(t, {"work"}) => MinutesOf(Known(t, {"worked"})) <= sum[t]
       /\ Is(t, {"absence"}) =>
            MinutesOf(Known(t, {"worked", "unworked"})) <= sum[t]
  /\ \A t \in Txs : pc[t] = "written" /\ Is(t, {"work", "absence"}) => Fits(t)
  /\ \A t \in Txs : pc[t] = "deleting" => ~ Is(t, {"work", "absence"})

Limits == SumInv /\ DayHasLimit /\ AbsenceHasLimit

Ground == IndInv /\ TypeOK /\ Finite

\* What is known is part of the day.
LEMMA KnownMinutes ==
  ASSUME Ground, NEW t \in Txs
  PROVE  /\ MinutesOf(Known(t, {"worked"})) \in Nat
         /\ MinutesOf(Known(t, {"worked"})) <= MinutesOf(In("worked"))
         /\ MinutesOf(Known(t, {"worked", "unworked"})) \in Nat
         /\ MinutesOf(Known(t, {"worked", "unworked"}))
              <= MinutesOf(Known(t, {"worked"})) + MinutesOf(In("unworked"))
<1> DEFINE Both == Known(t, {"worked"}) \union Known(t, {"unworked"})
<1>1. /\ IsFiniteSet(In("worked")) /\ IsFiniteSet(In("unworked"))
      /\ \A r \in In("worked") \union In("unworked") : r.minutes \in Nat
      /\ MinutesOf(In("unworked")) \in Nat
  BY DayMinutes DEF Ground, Finite
<1>2. /\ Known(t, {"worked"}) \in SUBSET In("worked")
      /\ Known(t, {"unworked"}) \in SUBSET In("unworked")
      /\ Known(t, {"worked", "unworked"}) = Both
  BY DEF Known, In
<1>3. /\ IsFiniteSet(Known(t, {"worked"})) /\ IsFiniteSet(Known(t, {"unworked"}))
      /\ \A r \in Known(t, {"worked"}) : r.minutes \in Nat
      /\ \A r \in Known(t, {"unworked"}) : r.minutes \in Nat
  BY <1>1, <1>2, FS_Subset
<1>4. /\ MinutesOf(Known(t, {"worked"})) \in Nat
      /\ MinutesOf(Known(t, {"worked"})) <= MinutesOf(In("worked"))
  BY <1>1, <1>2, MinutesMonotone
<1>5. /\ MinutesOf(Known(t, {"unworked"})) \in Nat
      /\ MinutesOf(Known(t, {"unworked"})) <= MinutesOf(In("unworked"))
  BY <1>1, <1>2, MinutesMonotone
<1>6. MinutesOf(Both) <= MinutesOf(Known(t, {"worked"})) + MinutesOf(Known(t, {"unworked"}))
  BY <1>3, MinutesUnion
<1>7. MinutesOf(Both) \in Nat
  <2>1. IsFiniteSet(Both) /\ \A r \in Both : r.minutes \in Nat
    BY <1>3, FS_Union
  <2>2. QED
    BY <2>1, MinutesFinite
<1> HIDE DEF Both
<1>8. MinutesOf(Both) <= MinutesOf(Known(t, {"worked"})) + MinutesOf(In("unworked"))
  BY <1>1, <1>4, <1>5, <1>6, <1>7
<1>9. QED
  BY <1>2, <1>4, <1>7, <1>8

\* Before a commit the rows stay: what one transaction does is its own affair.
LEMMA LimitsStay ==
  ASSUME Ground, Limits, NEW t \in Txs, t \notin Ended, UNCHANGED <<rows, job>>,
         \A u \in Txs \ {t} : /\ pc'[u] = pc[u] /\ sum'[u] = sum[u]
                              /\ before'[u] = before[u],
         pc'[t] = "half" =>
           Is(t, {"absence"}) /\ MinutesOf(Known(t, {"worked"})') <= sum'[t],
         pc'[t] \in {"summed", "written"} =>
           /\ Is(t, {"work"}) => MinutesOf(Known(t, {"worked"})') <= sum'[t]
           /\ Is(t, {"absence"}) =>
                MinutesOf(Known(t, {"worked", "unworked"})') <= sum'[t],
         pc'[t] = "written" /\ Is(t, {"work", "absence"}) => Fits(t)',
         pc'[t] = "deleting" => ~ Is(t, {"work", "absence"})
  PROVE  Limits'
<1>1. /\ \A u, cmds : Is(u, cmds)' <=> Is(u, cmds)
      /\ In("worked")' = In("worked") /\ In("unworked")' = In("unworked")
  BY DEF Is, In
<1>2. \A r \in rows : r.by \in Txs /\ r.by # t
  BY DEF Ground, IndInv, WeekInv, Ended
<1>3. \A u \in Txs \ {t} : \A tables : Known(u, tables)' = Known(u, tables)
  BY DEF Known
<1>4. \A u \in Txs \ {t} : Fits(u)' <=> Fits(u)
  BY DEF Fits
<1>5. SumInv'
  <2>1. ASSUME NEW u \in Txs, pc'[u] = "half"
        PROVE  MinutesOf(Known(u, {"worked"})') <= sum'[u] /\ Is(u, {"absence"})'
    BY <1>1, <1>3, <2>1 DEF Limits, SumInv
  <2>2. ASSUME NEW u \in Txs, pc'[u] \in {"summed", "written"}
        PROVE  /\ Is(u, {"work"})' => MinutesOf(Known(u, {"worked"})') <= sum'[u]
               /\ Is(u, {"absence"})' =>
                    MinutesOf(Known(u, {"worked", "unworked"})') <= sum'[u]
    BY <1>1, <1>3, <2>2 DEF Limits, SumInv
  <2>3. ASSUME NEW u \in Txs, pc'[u] = "written" /\ Is(u, {"work", "absence"})'
        PROVE  Fits(u)'
    BY <1>1, <1>4, <2>3 DEF Limits, SumInv
  <2>4. ASSUME NEW u \in Txs, pc'[u] = "deleting" PROVE ~ Is(u, {"work", "absence"})'
    BY <1>1, <2>4 DEF Limits, SumInv
  <2>5. QED
    BY <2>1, <2>2, <2>3, <2>4 DEF SumInv, MinutesOf, Marks
<1>6. DayHasLimit'
  <2>1. ASSUME NEW S \in SUBSET In("worked"), Sequential(S)' PROVE Sequential(S)
    BY <1>2, <2>1 DEF Sequential, Overlap, In
  <2>2. QED
    BY <1>1, <2>1 DEF Limits, DayHasLimit, MinutesOf, Marks
<1>7. AbsenceHasLimit'
  <2>1. \A a \in In("unworked") : before'[a.by] = before[a.by]
    BY <1>2 DEF In
  <2>2. QED
    BY <1>1, <2>1 DEF Limits, AbsenceHasLimit, MinutesOf, Marks
<1>8. QED
  BY <1>5, <1>6, <1>7 DEF Limits

LEMMA SumsAreKept ==
  ASSUME Ground, Limits, NEW t \in Txs,
         SumWorked(t) \/ SumUnworked(t) \/ Create(t) \/ Match(t) \/ Destroy(t)
  PROVE  Limits'
<1> USE DEF Ground
<1>1. /\ UNCHANGED <<rows, job, before>>
      /\ \A u \in Txs \ {t} : pc'[u] = pc[u] /\ sum'[u] = sum[u]
  BY DEF SumWorked, SumUnworked, Create, Match, Destroy, Goes, TypeOK
<1>2. /\ t \notin Ended
      /\ \A tables : Known(t, tables)' = Known(t, tables)
      /\ job[t].cmd \in {"work", "absence", "delete", "replace"}
      /\ sum[t] \in Nat /\ MinutesOf(In("worked")) \in Nat /\ MinutesOf(In("unworked")) \in Nat
  <2>1. t \notin Ended
    BY DEF SumWorked, SumUnworked, Create, Match, Destroy, Goes, Ended
  <2>2. job[t].cmd \in {"work", "absence", "delete", "replace"}
    BY DEF TypeOK, Job
  <2>3. QED
    BY <1>1, <2>1, <2>2, DayMinutes DEF Known, TypeOK
<1>3. CASE SumWorked(t)
  <2>1. /\ sum'[t] = MinutesOf(In("worked"))
        /\ pc'[t] = IF Is(t, {"work"}) THEN "summed" ELSE "half"
        /\ Is(t, {"work", "absence"})
    BY <1>3 DEF SumWorked, Goes, TypeOK
  <2>2. MinutesOf(Known(t, {"worked"})') <= sum'[t]
    BY <1>2, <2>1, KnownMinutes
  <2>3. /\ pc'[t] = "half" => Is(t, {"absence"})
        /\ pc'[t] \in {"summed", "written"} => Is(t, {"work"}) /\ ~ Is(t, {"absence"})
        /\ pc'[t] \notin {"written", "deleting"}
    BY <1>2, <2>1 DEF Is
  <2>4. QED
    BY <1>1, <1>2, <2>2, <2>3, LimitsStay
<1>4. CASE SumUnworked(t)
  <2>1. /\ sum'[t] = sum[t] + MinutesOf(In("unworked"))
        /\ pc[t] = "half" /\ pc'[t] = "summed"
    BY <1>4 DEF SumUnworked, Goes, TypeOK, WithUnworked
  <2>2. MinutesOf(Known(t, {"worked"})) <= sum[t] /\ Is(t, {"absence"})
    BY <2>1 DEF Limits, SumInv
  <2>3. MinutesOf(Known(t, {"worked", "unworked"})') <= sum'[t]
    BY <1>2, <2>1, <2>2, KnownMinutes
  <2>4. ~ Is(t, {"work"})
    BY <2>2 DEF Is
  <2>5. QED
    BY <1>1, <1>2, <2>1, <2>3, <2>4, LimitsStay
<1>5. CASE Create(t)
  <2>1. pc[t] = "summed" /\ pc'[t] = "written" /\ Fits(t) /\ sum' = sum
    BY <1>5 DEF Create, Goes, TypeOK
  <2>2. /\ Is(t, {"work"}) => MinutesOf(Known(t, {"worked"})) <= sum[t]
        /\ Is(t, {"absence"}) => MinutesOf(Known(t, {"worked", "unworked"})) <= sum[t]
    BY <2>1 DEF Limits, SumInv
  <2>3. Fits(t)'
    BY <1>1, <2>1 DEF Fits
  <2>4. QED
    BY <1>1, <1>2, <2>1, <2>2, <2>3, LimitsStay
<1>6. CASE Match(t) \/ Destroy(t)
  <2>1. pc'[t] \in {"deleting", "written"} /\ ~ Is(t, {"work", "absence"})
    <3>1. CASE Match(t)
      BY <3>1 DEF Match, Goes, TypeOK, Is
    <3>2. CASE Destroy(t)
      <4>1. pc[t] = "deleting" /\ pc'[t] = "written"
        BY <3>2 DEF Destroy, Goes, TypeOK
      <4>2. QED
        BY <4>1 DEF Limits, SumInv
    <3>3. QED
      BY <1>6, <3>1, <3>2
  <2>2. ~ Is(t, {"work"}) /\ ~ Is(t, {"absence"})
    BY <2>1 DEF Is
  <2>3. QED
    BY <1>1, <1>2, <2>1, <2>2, LimitsStay
<1>7. QED
  BY <1>3, <1>4, <1>5, <1>6

\* Whoever commits had room for what it inserts beside all it knew.
LEMMA CommitLimits ==
  ASSUME Ground, Ground', Limits, NEW t \in Txs, Commit(t)
  PROVE  Limits'
<1>1. /\ pc[t] = "written" /\ pc'[t] = "done" /\ UNCHANGED <<job, sum, before>>
      /\ rows' = (rows \ locked[t]) \union Inserted(t)
      /\ \A u \in Txs \ {t} : pc'[u] = pc[u]
  BY DEF Commit, Finish, Ground, TypeOK
<1>2. /\ \A u \in Txs : t \notin before[u]
      /\ \A r \in rows : r.by \in Txs /\ r.by # t
  BY <1>1 DEF Ground, IndInv, WeekInv, Ended
<1>3. \A r \in rows' : r \in rows \/ (r.by = t /\ r \in Inserted(t))
  BY <1>1, InsertedRows DEF Ground, TypeOK
<1>4. /\ IsFiniteSet(In("worked")) /\ IsFiniteSet(In("unworked"))
      /\ IsFiniteSet(In("worked") \union In("unworked"))
      /\ \A r \in In("worked") \union In("unworked") : r.minutes \in Nat
      /\ IsFiniteSet(In("worked")') /\ IsFiniteSet(In("unworked")')
      /\ \A r \in In("worked")' \union In("unworked")' : r.minutes \in Nat
  <2>1. /\ IsFiniteSet(In("worked")) /\ IsFiniteSet(In("unworked"))
        /\ IsFiniteSet(In("worked")') /\ IsFiniteSet(In("unworked")')
    BY DEF Ground, Finite
  <2>2. \A r \in In("worked") \union In("unworked") : r.minutes \in Nat
    BY DayMinutes DEF Ground
  <2>3. rows' \subseteq DayRow \union WeekRow
    BY DEF Ground, TypeOK
  <2>4. \A r \in In("worked")' \union In("unworked")' : r.minutes \in Nat
    BY <2>3, MinutesAssumption DEF In, DayRow, WeekRow
  <2>5. QED
    BY <2>1, <2>2, <2>4, FS_Union
<1>5. ASSUME NEW u \in Txs, NEW tables \in {{"worked"}, {"worked", "unworked"}}
      PROVE  /\ IsFiniteSet(Known(u, tables))
             /\ \A r \in Known(u, tables) : r.minutes \in Nat
             /\ MinutesOf(Known(u, tables)) \in Nat
  <2>1. Known(u, tables) \in SUBSET (In("worked") \union In("unworked"))
    BY DEF Known, In
  <2>2. QED
    BY <1>4, <2>1, FS_Subset, MinutesFinite
<1>6. \A u, cmds : Is(u, cmds)' <=> Is(u, cmds)
  BY <1>1 DEF Is
<1>7. SumInv'
  <2>1. ASSUME NEW u \in Txs, NEW tables \in {{"worked"}, {"worked", "unworked"}}
        PROVE  /\ MinutesOf(Known(u, tables)') \in Nat
               /\ MinutesOf(Known(u, tables)') <= MinutesOf(Known(u, tables))
    <3>1. Known(u, tables)' \in SUBSET Known(u, tables)
      BY <1>1, <1>2, <1>3 DEF Known
    <3>2. QED
      BY <1>5, <3>1, MinutesMonotone
  <2>2. ASSUME NEW u \in Txs \ {t}, pc'[u] = "half"
        PROVE  MinutesOf(Known(u, {"worked"})') <= sum'[u] /\ Is(u, {"absence"})'
    <3>1. MinutesOf(Known(u, {"worked"})) <= sum[u] /\ Is(u, {"absence"})
      BY <1>1, <2>2 DEF Limits, SumInv
    <3>2. QED
      BY <1>1, <1>5, <1>6, <2>1, <3>1 DEF Ground, TypeOK
  <2>3. ASSUME NEW u \in Txs \ {t}, pc'[u] \in {"summed", "written"}
        PROVE  /\ Is(u, {"work"})' => MinutesOf(Known(u, {"worked"})') <= sum'[u]
               /\ Is(u, {"absence"})' =>
                    MinutesOf(Known(u, {"worked", "unworked"})') <= sum'[u]
    <3>1. /\ Is(u, {"work"}) => MinutesOf(Known(u, {"worked"})) <= sum[u]
          /\ Is(u, {"absence"}) => MinutesOf(Known(u, {"worked", "unworked"})) <= sum[u]
      BY <1>1, <2>3 DEF Limits, SumInv
    <3>2. sum[u] \in Nat /\ sum'[u] = sum[u]
      BY <1>1 DEF Ground, TypeOK
    <3>3. Is(u, {"work"})' => MinutesOf(Known(u, {"worked"})') <= sum'[u]
      BY <1>5, <1>6, <2>1, <3>1, <3>2
    <3>4. Is(u, {"absence"})' => MinutesOf(Known(u, {"worked", "unworked"})') <= sum'[u]
      BY <1>5, <1>6, <2>1, <3>1, <3>2
    <3>5. QED
      BY <3>3, <3>4
  <2>4. ASSUME NEW u \in Txs \ {t}, pc'[u] = "written" /\ Is(u, {"work", "absence"})'
        PROVE  Fits(u)'
    BY <1>1, <1>6, <2>4 DEF Limits, SumInv, Fits
  <2>5. ASSUME NEW u \in Txs \ {t}, pc'[u] = "deleting"
        PROVE  ~ Is(u, {"work", "absence"})'
    BY <1>1, <1>6, <2>5 DEF Limits, SumInv
  <2>6. QED
    BY <1>1, <2>2, <2>3, <2>4, <2>5 DEF SumInv, MinutesOf, Marks
<1>8. ASSUME NEW r \in Inserted(t), r.table \in {"worked", "unworked"}
      PROVE  /\ Inserted(t) = {r} /\ r.minutes = job[t].minutes /\ r.minutes \in Nat
             /\ Is(t, {IF r.table = "worked" THEN "work" ELSE "absence"})
             /\ sum[t] + r.minutes <= Limit
  <2>1. /\ Inserted(t) = {r} /\ r.minutes = job[t].minutes
        /\ Is(t, {IF r.table = "worked" THEN "work" ELSE "absence"})
    <3>1. CASE job[t].cmd = "work"
      BY <1>8, <3>1 DEF Inserted, Is
    <3>2. CASE job[t].cmd = "absence"
      BY <1>8, <3>2 DEF Inserted, Is
    <3>3. CASE job[t].cmd = "delete"
      BY <1>8, <3>3 DEF Inserted, Is
    <3>4. CASE job[t].cmd = "replace"
      BY <1>8, <3>4 DEF Inserted, Is
    <3>5. job[t].cmd \in {"work", "absence", "delete", "replace"}
      BY DEF Ground, TypeOK, Job
    <3>6. QED
      BY <3>1, <3>2, <3>3, <3>4, <3>5
  <2>2. Is(t, {"work", "absence"})
    BY <2>1 DEF Is
  <2>3. Fits(t)
    BY <1>1, <2>2 DEF Limits, SumInv
  <2>4. r \in DayRow
    BY <1>8, InsertedTypes DEF Ground, TypeOK, WeekRow
  <2>5. r.minutes \in Nat
    BY <2>4, MinutesAssumption DEF DayRow
  <2>6. QED
    BY <2>1, <2>3, <2>5 DEF Fits
<1>9. DayHasLimit'
  <2>1. ASSUME NEW S \in SUBSET In("worked")', Sequential(S)'
        PROVE  MinutesOf(S) <= Limit
    <3>1. Sequential(S)
      BY <1>1, <2>1 DEF Sequential, Overlap
    <3>2. \A q \in S : q \in rows' /\ q.table = "worked"
      BY DEF In
    <3>3. CASE S \subseteq rows
      BY <3>1, <3>2, <3>3 DEF Limits, DayHasLimit, In
    <3>4. CASE ~ S \subseteq rows
      <4>1. PICK r \in S : r \notin rows
        BY <3>4
      <4>2. r \in Inserted(t) /\ r.by = t /\ r.table = "worked"
        BY <1>3, <3>2, <4>1
      <4>3. Inserted(t) = {r} /\ r.minutes \in Nat /\ sum[t] + r.minutes <= Limit
        BY <1>8, <4>2
      <4>4. Is(t, {"work"})
        BY <1>8, <4>2
      <4>5. S \ {r} \in SUBSET Known(t, {"worked"})
        <5>1. ASSUME NEW q \in S, q # r PROVE q \in Known(t, {"worked"})
          <6>1. q \in rows /\ q.by # t
            BY <1>2, <1>3, <3>2, <4>3, <5>1
          <6>2. ~ Overlap(q.by, t)
            BY <3>1, <4>2, <5>1, <6>1 DEF Sequential
          <6>3. q.by \in before[t]
            BY <1>2, <6>1, <6>2 DEF Overlap
          <6>4. QED
            BY <3>2, <6>1, <6>3 DEF Known
        <5>2. QED
          BY <5>1
      <4>6. /\ MinutesOf(S \ {r}) \in Nat
            /\ MinutesOf(S \ {r}) <= MinutesOf(Known(t, {"worked"}))
        BY <1>5, <4>5, MinutesMonotone
      <4>7. MinutesOf(Known(t, {"worked"})) <= sum[t]
        BY <1>1, <4>4 DEF Limits, SumInv
      <4>8. MinutesOf((S \ {r}) \union {r}) <= MinutesOf(S \ {r}) + MinutesOf({r})
        <5>1. IsFiniteSet(S \ {r}) /\ IsFiniteSet({r})
          BY <1>5, <4>5, FS_Subset, FS_Singleton
        <5>2. \A q \in S \ {r} : q.minutes \in Nat
          BY <1>5, <4>5
        <5>3. QED
          BY <4>3, <5>1, <5>2, MinutesUnion
      <4>9. MinutesOf({r}) = r.minutes
        BY <4>3, MinutesOfOne
      <4>10. (S \ {r}) \union {r} = S
        OBVIOUS
      <4>11. MinutesOf(S) \in Nat
        BY <1>4, MinutesMonotone
      <4>12. sum[t] \in Nat /\ MinutesOf(Known(t, {"worked"})) \in Nat /\ Limit \in Nat
        BY <1>5, MinutesAssumption DEF Ground, TypeOK
      <4>13. MinutesOf(S) <= MinutesOf(S \ {r}) + r.minutes
        BY <4>8, <4>9, <4>10, Zenon
      <4>14. \A all, rest, knew, summed, own \in Nat :
               /\ all <= rest + own /\ rest <= knew /\ knew <= summed
               /\ summed + own <= Limit
               => all <= Limit
        BY MinutesAssumption
      <4>15. QED
        BY <4>3, <4>6, <4>7, <4>11, <4>12, <4>13, <4>14, Zenon
    <3>5. QED
      BY <3>3, <3>4
  <2>2. QED
    BY <2>1 DEF DayHasLimit, MinutesOf, Marks
<1>10. AbsenceHasLimit'
  <2> DEFINE Earlier(a) == {r \in In("worked") \union In("unworked") : r.by \in before[a.by]}
             Earlier2(a) == {r \in In("worked")' \union In("unworked")' : r.by \in before[a.by]}
  <2>1. ASSUME NEW a \in In("unworked")'
        PROVE  MinutesOf(Earlier2(a)) + a.minutes <= Limit
    <3>1. a \in rows' /\ a.table = "unworked" /\ a.minutes \in Nat /\ Limit \in Nat
      BY <1>4, MinutesAssumption DEF In
    <3>2. Earlier2(a) \in SUBSET Earlier(a)
      <4>1. a.by \in Txs
        BY <1>2, <1>3, <3>1
      <4>2. ASSUME NEW r \in Earlier2(a) PROVE r \in Earlier(a)
        BY <1>2, <1>3, <4>1, <4>2 DEF In
      <4>3. QED
        BY <4>2
    <3>3. /\ IsFiniteSet(Earlier(a)) /\ \A r \in Earlier(a) : r.minutes \in Nat
          /\ MinutesOf(Earlier(a)) \in Nat
      <4>1. Earlier(a) \in SUBSET (In("worked") \union In("unworked"))
        OBVIOUS
      <4>2. QED
        BY <1>4, <4>1, FS_Subset, MinutesFinite
    <3>4. MinutesOf(Earlier2(a)) \in Nat /\ MinutesOf(Earlier2(a)) <= MinutesOf(Earlier(a))
      BY <3>2, <3>3, MinutesMonotone
    <3>5. MinutesOf(Earlier(a)) + a.minutes <= Limit
      <4>1. CASE a \in rows
        BY <3>1, <4>1 DEF Limits, AbsenceHasLimit, In
      <4>2. CASE a \notin rows
        <5>1. a \in Inserted(t) /\ a.by = t
          BY <1>3, <3>1, <4>2
        <5>2. Is(t, {"absence"}) /\ sum[t] + a.minutes <= Limit
          BY <1>8, <3>1, <5>1
        <5>3. Earlier(a) = Known(t, {"worked", "unworked"})
          BY <5>1 DEF Known, In
        <5>4. MinutesOf(Earlier(a)) <= sum[t]
          BY <1>1, <5>2, <5>3 DEF Limits, SumInv
        <5>5. sum[t] \in Nat
          BY DEF Ground, TypeOK
        <5>6. QED
          BY <3>1, <3>3, <5>2, <5>4, <5>5
      <4>3. QED
        BY <4>1, <4>2
    <3>6. QED
      BY <3>1, <3>3, <3>4, <3>5
  <2>2. QED
    BY <1>1, <2>1 DEF AbsenceHasLimit, MinutesOf, Marks
<1>11. QED
  BY <1>7, <1>9, <1>10 DEF Limits

LEMMA NextLimits == Ground /\ Ground' /\ Limits /\ [Next]_vars => Limits'
<1> SUFFICES ASSUME Ground, Ground', Limits, [Next]_vars PROVE Limits'
  OBVIOUS
<1>1. CASE UNCHANGED vars
  <2>1. UNCHANGED <<rows, pc, job, sum, before>>
    BY <1>1 DEF vars
  <2>2. SumInv'
    BY <2>1 DEF Limits, SumInv, Known, Is, Fits, MinutesOf, Marks
  <2>3. DayHasLimit'
    BY <2>1 DEF Limits, DayHasLimit, In, Sequential, Overlap, MinutesOf, Marks
  <2>4. AbsenceHasLimit'
    BY <2>1 DEF Limits, AbsenceHasLimit, In, MinutesOf, Marks
  <2>5. QED
    BY <2>2, <2>3, <2>4 DEF Limits
<1>2. ASSUME NEW t \in Txs,
             \/ Begin(t) \/ Refuse(t) \/ RollBack(t) \/ NotFound(t)
             \/ DailyLimitExceeded(t)
      PROVE  Limits'
  <2>1. /\ UNCHANGED <<rows, job, sum>> /\ pc[t] # "done"
        /\ \A u \in Txs \ {t} : pc'[u] = pc[u] /\ before'[u] = before[u]
        /\ pc'[t] \in {"begun", "done"}
    BY <1>2 DEF Begin, Goes, Refuse, RollBack, NotFound, DailyLimitExceeded, Finish,
                Ground, TypeOK
  <2>2. t \notin Ended
    BY <2>1 DEF Ended
  <2>3. QED
    BY <2>1, <2>2, LimitsStay
<1>3. ASSUME NEW t \in Txs,
             SumWorked(t) \/ SumUnworked(t) \/ Create(t) \/ Match(t) \/ Destroy(t)
      PROVE  Limits'
  BY <1>3, SumsAreKept
<1>4. ASSUME NEW t \in Txs, Commit(t) PROVE Limits'
  BY <1>4, CommitLimits
<1>5. QED
  BY <1>1, <1>2, <1>3, <1>4 DEF Next

LEMMA InitLimits == Init => Limits
<1>1. SUFFICES ASSUME Init PROVE Limits
  OBVIOUS
<1>2. SumInv
  BY <1>1 DEF Init, SumInv
<1>3. \A S \in SUBSET In("worked") : MinutesOf(S) = 0
  <2>1. \A S \in SUBSET In("worked") : Marks(S) = {}
    BY <1>1 DEF Init, In, Marks
  <2>2. QED
    BY <2>1, FS_EmptySet DEF MinutesOf
<1>4. DayHasLimit
  BY <1>3, MinutesAssumption DEF DayHasLimit
<1>5. AbsenceHasLimit
  BY <1>1 DEF Init, AbsenceHasLimit, In
<1>6. QED
  BY <1>2, <1>4, <1>5 DEF Limits

LEMMA GroundHolds == Spec => []Ground
<1>1. IndInv /\ TypeOK /\ Finite => Ground
  BY DEF Ground
<1>2. QED
  BY <1>1, InductiveInvariant, TypesAndFinite, PTL

LEMMA LimitsHold == Spec => []Limits
BY InitLimits, NextLimits, GroundHolds, PTL DEF Spec

\* A person's worked time of a day is within the limit, of records no two of
\* which were written by transactions that overlapped: whatever was deleted,
\* rolled back and summed in between.
THEOREM DayLimitHolds == Spec => []DayHasLimit
<1>1. Limits => DayHasLimit
  BY DEF Limits
<1>2. QED
  BY <1>1, LimitsHold, PTL

\* An absence and all that was there before it are within the limit together.
THEOREM AbsenceLimitHolds == Spec => []AbsenceHasLimit
<1>1. Limits => AbsenceHasLimit
  BY DEF Limits
<1>2. QED
  BY <1>1, LimitsHold, PTL

-----------------------------------------------------------------------------
(* What a success means afterwards.                                        *)

\* The rows a deletion is about.
Target(t) == {r \in In(job[t].table) : r.by = job[t].id}

\* Whether a command may find this row.
Meant(t, r) ==
  \/ Is(t, {"delete"}) /\ r.table = job[t].table /\ r.by = job[t].id
  \/ Is(t, {"replace"}) /\ r.table = "week"

\* What makes it inductive: what is found, and later locked, is what the command
\* is about; and a deletion that found something has found all of it, since
\* the transaction of those rows has ended and inserts no more.
LastInv ==
  \A t \in Txs :
    /\ answer[t] = "success" => t \in Ended
    /\ locked[t] \subseteq seen[t]
    /\ \A r \in seen[t] : Meant(t, r)
    /\ Is(t, {"delete"}) /\ (pc[t] \in {"deleting", "written"} \/ answer[t] = "success")
         => job[t].id \in Ended
    /\ Is(t, {"delete"}) /\ pc[t] \in {"deleting", "written"}
         => Target(t) \subseteq Deleting(t)

Lasts == LastInv /\ SuccessLasts

LEMMA LastsStay ==
  ASSUME Ground, Lasts, NEW t \in Txs, t \notin Ended, UNCHANGED <<rows, job>>,
         pc' = [pc EXCEPT ![t] = pc'[t]],
         \A u \in Txs \ {t} : /\ seen'[u] = seen[u] /\ locked'[u] = locked[u]
                              /\ answer'[u] = answer[u] /\ before'[u] = before[u],
         answer'[t] # "success",
         locked'[t] \subseteq seen'[t],
         \A r \in seen'[t] : Meant(t, r),
         Is(t, {"delete"}) /\ pc'[t] \in {"deleting", "written"} =>
           job[t].id \in Ended /\ Target(t) \subseteq Deleting(t)'
  PROVE  Lasts'
<1>1. /\ \A u, cmds : Is(u, cmds)' <=> Is(u, cmds)
      /\ \A u, r : Meant(u, r)' <=> Meant(u, r)
      /\ \A u : Inserted(u)' = Inserted(u) /\ Target(u)' = Target(u)
      /\ \A table : In(table)' = In(table)
  BY DEF Is, Meant, Inserted, Target, In
<1>2. /\ \A u \in Txs \ {t} : pc'[u] = pc[u]
      /\ Ended \subseteq Ended'
  BY DEF Ground, TypeOK, Ended
<1>3. \A u \in Txs \ {t} : Deleting(u)' = Deleting(u)
  BY <1>2 DEF Deleting
<1>4. ASSUME NEW u \in Txs
      PROVE  /\ answer'[u] = "success" => u \in Ended'
             /\ locked'[u] \subseteq seen'[u]
             /\ \A r \in seen'[u] : Meant(u, r)'
             /\ Is(u, {"delete"})' /\ (pc'[u] \in {"deleting", "written"} \/ answer'[u] = "success")
                  => job'[u].id \in Ended'
             /\ Is(u, {"delete"})' /\ pc'[u] \in {"deleting", "written"}
                  => Target(u)' \subseteq Deleting(u)'
  <2>1. CASE u = t
    BY <1>1, <1>2, <2>1
  <2>2. CASE u # t
    BY <1>1, <1>2, <1>3, <2>2 DEF Lasts, LastInv
  <2>3. QED
    BY <2>1, <2>2
<1>5. LastInv'
  BY <1>4 DEF LastInv
<1>6. \A u \in Txs : answer'[u] = "success" <=> answer[u] = "success"
  BY DEF Lasts, LastInv
<1>7. \A u \in Txs : answer[u] = "success" => u # t /\ before'[u] = before[u]
  BY <1>6
<1>8. SuccessLasts'
  <2>1. ASSUME NEW u \in Txs, answer[u] = "success", Is(u, {"work", "absence"})
        PROVE  \/ Inserted(u)' \subseteq rows'
               \/ \E v \in Txs : /\ answer'[v] = "success" /\ Is(v, {"delete"})'
                                 /\ job'[v].id = u
    BY <1>1, <1>6, <2>1 DEF Lasts, SuccessLasts
  <2>2. ASSUME NEW u \in Txs, answer[u] = "success", Is(u, {"delete"})
        PROVE  \A r \in In(job[u].table)' : r.by # job[u].id
    BY <1>1, <2>2 DEF Lasts, SuccessLasts
  <2>3. ASSUME NEW u \in Txs, answer[u] = "success", Is(u, {"replace"})
        PROVE  \/ Inserted(u)' \subseteq rows'
               \/ \E v \in Txs \ (before'[u] \union {u}) :
                    answer'[v] = "success" /\ Is(v, {"replace"})'
    <3>1. \/ Inserted(u) \subseteq rows
          \/ \E v \in Txs \ (before[u] \union {u}) :
               answer[v] = "success" /\ Is(v, {"replace"})
      BY <2>3 DEF Lasts, SuccessLasts
    <3>2. QED
      BY <1>1, <1>6, <1>7, <2>3, <3>1
  <2>4. QED
    BY <1>1, <1>6, <2>1, <2>2, <2>3 DEF SuccessLasts
<1>9. QED
  BY <1>5, <1>8 DEF Lasts

\* Every step before a commit.
LEMMA StepsLast ==
  ASSUME Ground, Lasts, NEW t \in Txs,
         \/ Begin(t) \/ Refuse(t) \/ RollBack(t) \/ NotFound(t)
         \/ DailyLimitExceeded(t) \/ SumWorked(t) \/ SumUnworked(t) \/ Create(t)
         \/ Match(t) \/ Destroy(t)
  PROVE  Lasts'
<1> USE DEF Ground
<1>1. CASE Begin(t)
  <2>1. /\ UNCHANGED <<rows, job, seen, locked, answer>>
        /\ pc[t] = "idle" /\ pc' = [pc EXCEPT ![t] = "begun"] /\ pc'[t] = "begun"
        /\ \A u \in Txs \ {t} : before'[u] = before[u]
    BY <1>1 DEF Begin, Goes, TypeOK
  <2>2. answer[t] # "success" /\ t \notin Ended
    BY <2>1 DEF Lasts, LastInv, Ended
  <2>3. locked[t] \subseteq seen[t] /\ \A r \in seen[t] : Meant(t, r)
    BY DEF Lasts, LastInv
  <2>4. QED
    BY <2>1, <2>2, <2>3, LastsStay
<1>2. CASE Refuse(t) \/ RollBack(t) \/ NotFound(t) \/ DailyLimitExceeded(t)
  <2>1. Finish(t, "refused") \/ Finish(t, "failed")
    BY <1>2 DEF Refuse, RollBack, NotFound, DailyLimitExceeded
  <2>2. /\ UNCHANGED <<rows, job, seen, before>>
        /\ pc[t] # "done" /\ pc' = [pc EXCEPT ![t] = "done"] /\ pc'[t] = "done"
        /\ locked'[t] = {} /\ answer'[t] # "success"
        /\ \A u \in Txs \ {t} : locked'[u] = locked[u] /\ answer'[u] = answer[u]
    BY <1>2, <2>1 DEF Refuse, RollBack, NotFound, DailyLimitExceeded, Finish, TypeOK
  <2>3. t \notin Ended /\ \A r \in seen[t] : Meant(t, r)
    BY <2>2 DEF Lasts, LastInv, Ended
  <2>4. QED
    BY <2>2, <2>3, LastsStay
<1>3. CASE SumWorked(t) \/ SumUnworked(t) \/ Create(t)
  <2>1. /\ UNCHANGED <<rows, job, seen, locked, answer, before>>
        /\ pc' = [pc EXCEPT ![t] = pc'[t]]
        /\ pc[t] \in {"begun", "half", "summed"}
    BY <1>3 DEF SumWorked, SumUnworked, Create, Goes, TypeOK
  <2>2. Is(t, {"work", "absence"})
    <3>1. CASE SumWorked(t)
      BY <3>1 DEF SumWorked
    <3>2. CASE SumUnworked(t) \/ Create(t)
      <4>1. pc[t] \in {"half", "summed"}
        BY <3>2 DEF SumUnworked, Create, Goes
      <4>2. QED
        BY <4>1 DEF IndInv, WeekInv
    <3>3. QED
      BY <1>3, <3>1, <3>2
  <2>3. ~ Is(t, {"delete"})
    BY <2>2 DEF Is
  <2>4. /\ answer[t] # "success" /\ t \notin Ended
        /\ locked[t] \subseteq seen[t] /\ \A r \in seen[t] : Meant(t, r)
    BY <2>1 DEF Lasts, LastInv, Ended
  <2>5. QED
    BY <2>1, <2>3, <2>4, LastsStay
<1>4. CASE Match(t)
  <2>1. /\ UNCHANGED <<rows, job, locked, answer, before>>
        /\ pc' = [pc EXCEPT ![t] = "deleting"]
        /\ pc[t] = "begun" /\ pc'[t] = "deleting" /\ seen'[t] = Matched(t)
        /\ Is(t, {"delete", "replace"})
        /\ Is(t, {"delete"}) => Matched(t) # {}
        /\ \A u \in Txs \ {t} : seen'[u] = seen[u]
    BY <1>4 DEF Match, Goes, TypeOK
  <2>2. /\ answer[t] # "success" /\ t \notin Ended /\ locked[t] = {}
    BY <2>1 DEF Lasts, LastInv, Ended, IndInv, WeekInv
  <2>3. \A r \in Matched(t) : Meant(t, r) /\ r \in rows /\ r.by \in Ended
    <3>1. ~ Is(t, {"delete"}) => Is(t, {"replace"})
      BY <2>1 DEF Is
    <3>2. \A r \in Matched(t) : Meant(t, r) /\ r \in rows
      BY <3>1 DEF Matched, Meant, In
    <3>3. QED
      BY <3>2 DEF IndInv, WeekInv
  <2>4. ASSUME Is(t, {"delete"})
        PROVE  job[t].id \in Ended /\ Target(t) \subseteq Deleting(t)'
    <3>1. Target(t) = Matched(t)
      BY <2>4 DEF Target, Matched
    <3>2. Deleting(t)' = Matched(t)
      BY <2>1, <2>3 DEF Deleting
    <3>3. PICK r \in Matched(t) : TRUE
      BY <2>1, <2>4
    <3>4. r.by = job[t].id
      BY <3>1, <3>3 DEF Target
    <3>5. QED
      BY <2>3, <3>1, <3>2, <3>3, <3>4
  <2>5. QED
    BY <2>1, <2>2, <2>3, <2>4, LastsStay
<1>5. CASE Destroy(t)
  <2>1. /\ UNCHANGED <<rows, job, seen, answer, before>>
        /\ pc' = [pc EXCEPT ![t] = "written"]
        /\ pc[t] = "deleting" /\ pc'[t] = "written"
        /\ locked'[t] = seen[t] \intersect rows
        /\ \A u \in Txs \ {t} : locked'[u] = locked[u]
    BY <1>5 DEF Destroy, Goes, TypeOK
  <2>2. /\ answer[t] # "success" /\ t \notin Ended
        /\ \A r \in seen[t] : Meant(t, r)
        /\ Is(t, {"delete"}) => job[t].id \in Ended /\ Target(t) \subseteq Deleting(t)
    BY <2>1 DEF Lasts, LastInv, Ended
  <2>3. Deleting(t)' = Deleting(t)
    BY <2>1 DEF Deleting
  <2>4. QED
    BY <2>1, <2>2, <2>3, LastsStay
<1>6. QED
  BY <1>1, <1>2, <1>3, <1>4, <1>5

\* A commit: its own rows are there, those it was about are not, and whoever
\* has lost rows by it has lost them to a deletion of them or to a replacement
\* that had not ended when theirs began.
LEMMA CommitLasts ==
  ASSUME Ground, Lasts, NEW t \in Txs, Commit(t)
  PROVE  Lasts'
<1> USE DEF Ground
<1>1. /\ pc[t] = "written" /\ pc'[t] = "done" /\ locked'[t] = {}
      /\ UNCHANGED <<job, seen, before>>
      /\ rows' = (rows \ locked[t]) \union Inserted(t)
      /\ answer'[t] = "success"
      /\ \A u \in Txs \ {t} : /\ pc'[u] = pc[u] /\ locked'[u] = locked[u]
                              /\ answer'[u] = answer[u]
  BY DEF Commit, Finish, TypeOK
<1>2. /\ Ended' = Ended \union {t} /\ t \notin Ended
      /\ \A u, cmds : Is(u, cmds)' <=> Is(u, cmds)
      /\ \A u, r : Meant(u, r)' <=> Meant(u, r)
      /\ \A u : Inserted(u)' = Inserted(u)
  BY <1>1 DEF Ended, Is, Meant, Inserted
<1>3. /\ \A r \in rows : r.by \in Ended /\ r.by # t
      /\ \A u \in Txs : \A r \in Inserted(u) : r.by = u
      /\ \A u \in Txs : before[u] \subseteq Ended
  BY <1>2, InsertedRows DEF IndInv, WeekInv, TypeOK
<1>4. ASSUME NEW u \in Txs, Is(u, {"delete"}), job[u].id \in Ended
      PROVE  Target(u)' = Target(u) \ locked[t]
  BY <1>1, <1>2, <1>3, <1>4 DEF Target, In
<1>5. LastInv'
  <2>1. ASSUME NEW u \in Txs
        PROVE  /\ answer'[u] = "success" => u \in Ended'
               /\ locked'[u] \subseteq seen'[u]
               /\ \A r \in seen'[u] : Meant(u, r)'
    BY <1>1, <1>2 DEF Lasts, LastInv
  <2>2. ASSUME NEW u \in Txs, Is(u, {"delete"}),
               pc'[u] \in {"deleting", "written"} \/ answer'[u] = "success"
        PROVE  job[u].id \in Ended'
    BY <1>1, <1>2, <2>2 DEF Lasts, LastInv
  <2>3. ASSUME NEW u \in Txs, Is(u, {"delete"}), pc'[u] \in {"deleting", "written"}
        PROVE  Target(u)' \subseteq Deleting(u)'
    <3>1. u # t /\ pc'[u] = pc[u] /\ locked'[u] = locked[u]
      BY <1>1, <2>3
    <3>2. job[u].id \in Ended /\ Target(u) \subseteq Deleting(u)
      BY <2>3, <3>1 DEF Lasts, LastInv
    <3>3. \A r \in Deleting(u) : r \notin locked[t] => r \in Deleting(u)'
      BY <1>1, <3>1 DEF Deleting
    <3>4. QED
      BY <1>4, <2>3, <3>2, <3>3
  <2>4. QED
    BY <1>1, <1>2, <2>1, <2>2, <2>3 DEF LastInv
\* The rows that t takes away.
<1>6. ASSUME NEW u \in Txs, ~ Inserted(u) \subseteq rows', Inserted(u) \subseteq rows
      PROVE  \/ Is(t, {"delete"}) /\ job[t].id = u /\ ~ Is(u, {"replace"})
             \/ Is(t, {"replace"}) /\ t # u /\ t \notin before[u] /\ Is(u, {"replace"})
  <2>1. PICK r \in Inserted(u) : r \in rows /\ r \in locked[t]
    BY <1>1, <1>6
  <2>2. r \in seen[t] /\ Meant(t, r)
    BY <1>1, <2>1 DEF Lasts, LastInv
  <2>3. r.by = u /\ (r.table = "week" <=> Is(u, {"replace"})) /\ u # t /\ t \notin before[u]
    BY <1>2, <1>3, <2>1, InsertedRows DEF TypeOK, Is
  <2>4. CASE Is(t, {"delete"}) /\ r.table = job[t].table /\ r.by = job[t].id
    <3>1. r.table # "week"
      BY <2>4 DEF Is, TypeOK, Job
    <3>2. QED
      BY <2>3, <2>4, <3>1
  <2>5. CASE Is(t, {"replace"}) /\ r.table = "week"
    BY <2>3, <2>5
  <2>6. QED
    BY <2>2, <2>4, <2>5 DEF Meant
<1>7. SuccessLasts'
  <2>1. ASSUME NEW u \in Txs, answer'[u] = "success", Is(u, {"work", "absence"})
        PROVE  \/ Inserted(u) \subseteq rows'
               \/ \E v \in Txs : /\ answer'[v] = "success" /\ Is(v, {"delete"})
                                 /\ job[v].id = u
    <3>1. CASE u = t
      BY <1>1, <3>1
    <3>2. CASE u # t
      <4>1. \/ Inserted(u) \subseteq rows
            \/ \E v \in Txs : /\ answer[v] = "success" /\ Is(v, {"delete"})
                              /\ job[v].id = u
        BY <1>1, <2>1, <3>2 DEF Lasts, SuccessLasts
      <4>2. ~ Is(u, {"replace"})
        BY <2>1 DEF Is
      <4>3. QED
        BY <1>1, <1>6, <4>1, <4>2
    <3>3. QED
      BY <3>1, <3>2
  <2>2. ASSUME NEW u \in Txs, answer'[u] = "success", Is(u, {"delete"})
        PROVE  Target(u)' = {}
    <3>1. CASE u = t
      <4>1. job[u].id \in Ended /\ Target(u) \subseteq locked[t]
        BY <1>1, <2>2, <3>1 DEF Lasts, LastInv, Deleting
      <4>2. QED
        BY <1>4, <2>2, <4>1
    <3>2. CASE u # t
      <4>1. answer[u] = "success"
        BY <1>1, <2>2, <3>2
      <4>2. job[u].id \in Ended /\ Target(u) = {}
        BY <2>2, <4>1 DEF Lasts, LastInv, SuccessLasts, Target
      <4>3. QED
        BY <1>4, <2>2, <4>2
    <3>3. QED
      BY <3>1, <3>2
  <2>3. ASSUME NEW u \in Txs, answer'[u] = "success", Is(u, {"replace"})
        PROVE  \/ Inserted(u) \subseteq rows'
               \/ \E v \in Txs \ (before[u] \union {u}) :
                    answer'[v] = "success" /\ Is(v, {"replace"})
    <3>1. CASE u = t
      BY <1>1, <3>1
    <3>2. CASE u # t
      <4>1. \/ Inserted(u) \subseteq rows
            \/ \E v \in Txs \ (before[u] \union {u}) :
                 answer[v] = "success" /\ Is(v, {"replace"})
        BY <1>1, <2>3, <3>2 DEF Lasts, SuccessLasts
      <4>2. CASE Inserted(u) \subseteq rows
        BY <1>1, <1>6, <2>3, <4>2
      <4>3. CASE \E v \in Txs \ (before[u] \union {u}) :
                   answer[v] = "success" /\ Is(v, {"replace"})
        BY <1>1, <4>3
      <4>4. QED
        BY <4>1, <4>2, <4>3
    <3>3. QED
      BY <3>1, <3>2
  <2>4. \A u \in Txs : Target(u)' = {} => \A r \in In(job[u].table)' : r.by # job[u].id
    BY <1>1 DEF Target
  <2>5. QED
    BY <1>1, <1>2, <2>1, <2>2, <2>3, <2>4 DEF SuccessLasts
<1>8. QED
  BY <1>5, <1>7 DEF Lasts

LEMMA NextLasts == Ground /\ Lasts /\ [Next]_vars => Lasts'
<1> SUFFICES ASSUME Ground, Lasts, [Next]_vars PROVE Lasts'
  OBVIOUS
<1>1. CASE UNCHANGED vars
  <2>1. UNCHANGED <<rows, pc, job, seen, locked, answer, before>>
    BY <1>1 DEF vars
  <2>2. LastInv'
    BY <2>1 DEF Lasts, LastInv, Ended, Is, Meant, Target, Deleting, In
  <2>3. SuccessLasts'
    BY <2>1 DEF Lasts, SuccessLasts, Is, Inserted, In
  <2>4. QED
    BY <2>2, <2>3 DEF Lasts
<1>2. ASSUME NEW t \in Txs, Commit(t) PROVE Lasts'
  BY <1>2, CommitLasts
<1>3. QED
  BY <1>1, <1>2, StepsLast DEF Next

\* What was inserted is there unless a deletion of it, or a replacement that
\* had not ended before, succeeded too; what was deleted is not there.
THEOREM SuccessesLast == Spec => []SuccessLasts
<1>1. Init => Lasts
  BY DEF Init, Lasts, LastInv, SuccessLasts
<1>2. Lasts => SuccessLasts
  BY DEF Lasts
<1>3. QED
  BY <1>1, <1>2, NextLasts, GroundHolds, PTL DEF Spec
=============================================================================
