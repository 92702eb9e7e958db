-------------------------- MODULE FileLinksProofs --------------------------
(***************************************************************************)
(* Proofs about FileLinks, for any number of transactions and files: how   *)
(* many links a file has, then whose bytes are stored, then the log of a   *)
(* card, and last what a successful edit leaves.                           *)
(***************************************************************************)
EXTENDS FileLinks, WellFoundedInduction, TLAPS

LEMMA PlacesAreNumbers ==
  ASSUME NEW list \in Lists
  PROVE  DOMAIN list \subseteq 1..MaxFiles /\ \A i \in DOMAIN list : list[i] \in Files
BY FilesAssumption DEF Lists

LEMMA InitType == Init => TypeOK
BY FilesAssumption DEF Init, TypeOK, Entities

LEMMA InsertedType ==
  ASSUME TypeOK, NEW t \in Txs, job[t] # NoJob
  PROVE  Inserted(t) \subseteq Link
<1>1. CASE Is(t, {"unlink"})
  BY <1>1 DEF Inserted
<1>2. CASE ~ Is(t, {"unlink"})
  <2>1. job[t] \in Save
    BY <1>2 DEF TypeOK, Job, Is
  <2>2. job[t].files \in Lists /\ job[t].entity \in Entities
    BY <2>1 DEF Save
  <2>3. QED
    BY <1>2, <2>2, PlacesAreNumbers DEF Inserted, Link, FirstPlaces
<1>3. QED
  BY <1>1, <1>2

LEMMA SaveOfWriter ==
  ASSUME TypeOK, NEW t \in Txs, Is(t, {"edit"})
  PROVE  /\ job[t] \in Save /\ job[t].entity \in Entities
         /\ job[t].field \in Values \union {None}
BY DEF TypeOK, Job, Is, Save, NoJob

-----------------------------------------------------------------------------
(* The type of every variable.                                             *)

LEMMA TypeOfBegin ==
  ASSUME TypeOK, NEW t \in Txs,
         \/ \E j \in Save : BeginSave(t, j)
         \/ \E r \in rows : BeginUnlink(t, r)
  PROVE  TypeOK'
<1>1. ASSUME NEW j \in Save, BeginSave(t, j) PROVE TypeOK'
  <2>1. j \in Job /\ {u \in Txs : pc[u] = "done"} \in SUBSET Txs
    BY DEF Job
  <2>2. (IF j.entity \in Cards THEN value[j.entity] ELSE None) \in Values \union {None}
    BY DEF TypeOK
  <2>3. QED
    BY <1>1, <2>1, <2>2 DEF TypeOK, BeginSave, Goes, fileVars, dbVars
<1>2. ASSUME NEW r \in rows, BeginUnlink(t, r) PROVE TypeOK'
  <2>1. r \in Link /\ [cmd |-> "unlink", link |-> r] \in Job
    BY DEF Job, TypeOK
  <2>2. QED
    BY <1>2, <2>1 DEF TypeOK, BeginUnlink, Goes, fileVars, dbVars
<1>3. QED
  BY <1>1, <1>2

LEMMA TypeOfStep ==
  ASSUME TypeOK, NEW t \in Txs,
         \/ UpdateRow(t) \/ NothingToUpdate(t) \/ ReadLinks(t) \/ RemoveLinks(t)
  PROVE  TypeOK'
<1>1. CASE UpdateRow(t) \/ NothingToUpdate(t)
  BY <1>1 DEF TypeOK, UpdateRow, NothingToUpdate, Goes, fileVars, dbVars
<1>2. CASE ReadLinks(t)
  BY <1>2 DEF TypeOK, ReadLinks, Goes, fileVars, dbVars
<1>3. CASE RemoveLinks(t)
  BY <1>3 DEF TypeOK, RemoveLinks, Goes, fileVars, dbVars
<1>4. QED
  BY <1>1, <1>2, <1>3

LEMMA TypeOfFail ==
  ASSUME TypeOK, NEW t \in Txs, Fail(t)
  PROVE  TypeOK'
BY DEF TypeOK, Fail, fileVars, dbVars

LEMMA TypeOfCommit ==
  ASSUME TypeOK, OnlyDoneBefore, NEW t \in Txs, Commit(t)
  PROVE  TypeOK'
<1>1. job[t] # NoJob
  BY DEF OnlyDoneBefore, Commit, Goes, Open
<1>2. Inserted(t) \subseteq Link
  BY <1>1, InsertedType
<1>3. rows' \subseteq Link /\ deleted' \in [Txs -> SUBSET Link]
      /\ seen' \in [Txs -> SUBSET Link]
  BY <1>2 DEF TypeOK, Commit
<1>4. value' \in [Cards -> Values]
  <2>1. ASSUME Is(t, {"edit"}), job[t].entity \in Cards PROVE NewValue(t) \in Values
    BY <2>1, SaveOfWriter DEF NewValue, ChangesField, Writes, TypeOK
  <2>2. QED
    BY <2>1 DEF Commit, TypeOK
<1>5. log' \in [Cards -> Seq([by : Txs, from : Values, to : Values])]
  <2>1. CASE ~ Logged(t)
    BY <2>1 DEF Commit, TypeOK
  <2>2. CASE Logged(t)
    <3>1. Is(t, {"edit"}) /\ job[t].entity \in Cards /\ job[t].field \in Values
      BY <2>2, SaveOfWriter DEF Logged, ChangesField, Writes
    <3>2. was[t] \in Values
      BY <3>1 DEF OnlyDoneBefore
    <3>3. Entry(t) \in [by : Txs, from : Values, to : Values]
      BY <3>1, <3>2 DEF Entry
    <3>4. log[job[t].entity] \in Seq([by : Txs, from : Values, to : Values])
      BY <3>1 DEF TypeOK
    <3>5. Append(log[job[t].entity], Entry(t)) \in Seq([by : Txs, from : Values, to : Values])
      BY <3>3, <3>4
    <3>6. log' = [log EXCEPT ![job[t].entity] = Append(log[job[t].entity], Entry(t))]
      BY <2>2 DEF Commit
    <3>7. QED
      BY <3>5, <3>6 DEF TypeOK
  <2>3. QED
    BY <2>1, <2>2
<1>6. exists' \subseteq Entities
  <2>1. CASE Is(t, {"new"})
    <3>1. job[t] \in Save
      BY <2>1 DEF TypeOK, Job, Is, NoJob
    <3>2. QED
      BY <3>1 DEF Commit, TypeOK, Save
  <2>2. CASE ~ Is(t, {"new"})
    BY <2>2 DEF Commit, TypeOK
  <2>3. QED
    BY <2>1, <2>2
<1>7. QED
  BY <1>3, <1>4, <1>5, <1>6 DEF TypeOK, Commit, Goes

-----------------------------------------------------------------------------
(* The inductive invariant, action by action.                              *)

IInv == TypeOK /\ LinkInv /\ OneLinkPerFile

LEMMA InitInv == Init => LinkInv /\ OneLinkPerFile
BY DEF Init, LinkInv, RowsOfDone, OnlyDoneBefore, OneCreator, OneHolder,
       NothingUnseen, OneLinkPerFile, Open, Is, Holds, Reading, NoJob

\* An upload touches none of this.
LEMMA UploadKeeps ==
  ASSUME LinkInv, OneLinkPerFile,
         UNCHANGED <<exists, rows, pc, job, was, seen, deleted, before>>
  PROVE  LinkInv' /\ OneLinkPerFile'
BY DEF LinkInv, RowsOfDone, OnlyDoneBefore, OneCreator, OneHolder, NothingUnseen,
       OneLinkPerFile, Open, Is, Holds, Reading, Writes, Overlap

\* What the command t does says nothing of the others, if it writes nothing.
LEMMA OthersStay ==
  ASSUME TypeOK, NEW t \in Txs, NEW u \in Txs \ {t}, NEW p, NEW j, NEW w, NEW b,
         pc' = [pc EXCEPT ![t] = p], job' = [job EXCEPT ![t] = j],
         was' = [was EXCEPT ![t] = w], before' = [before EXCEPT ![t] = b]
  PROVE  /\ pc'[u] = pc[u] /\ job'[u] = job[u] /\ before'[u] = before[u]
         /\ Writes(u)' = Writes(u) /\ Holds(u)' = Holds(u) /\ Open(u)' = Open(u)
         /\ Reading(u)' = Reading(u)
BY DEF TypeOK, Writes, Holds, Open, Reading, Is

LEMMA BeginSaveKeeps ==
  ASSUME IInv, NEW t \in Txs, NEW j \in Save, BeginSave(t, j)
  PROVE  LinkInv' /\ OneLinkPerFile'
<1> USE DEF IInv, LinkInv
<1>1. /\ pc[t] = "idle" /\ pc' = [pc EXCEPT ![t] = "begun"]
      /\ job' = [job EXCEPT ![t] = j] /\ seen' = seen
      /\ was' = [was EXCEPT ![t] = IF j.entity \in Cards THEN value[j.entity] ELSE None]
      /\ before' = [before EXCEPT ![t] = {u \in Txs : pc[u] = "done"}]
      /\ rows' = rows /\ exists' = exists
  BY DEF BeginSave, Goes, dbVars
<1>2. /\ pc'[t] = "begun" /\ job'[t] = j
      /\ before'[t] = {u \in Txs : pc[u] = "done"}
      /\ j.entity \in Cards => was'[t] \in Values
  BY <1>1 DEF TypeOK
<1>3. /\ ~ Holds(t)' /\ Open(t)' /\ ~ Reading(t)'
      /\ j.cmd \in {"new", "edit"}
  BY <1>2 DEF Holds, Open, Reading, Is, Save
<1>4. \A u \in Txs \ {t} :
        /\ pc'[u] = pc[u] /\ job'[u] = job[u] /\ before'[u] = before[u]
        /\ was'[u] = was[u]
        /\ Writes(u)' = Writes(u) /\ Holds(u)' = Holds(u) /\ Open(u)' = Open(u)
        /\ Reading(u)' = Reading(u)
  BY <1>1, OthersStay DEF TypeOK
<1>5. \A r \in rows : r.by \in Txs \ {t}
  BY <1>1 DEF RowsOfDone, TypeOK, Link
<1>6. RowsOfDone'
  BY <1>1, <1>4, <1>5 DEF RowsOfDone, Is
<1>7. OnlyDoneBefore'
  BY <1>1, <1>2, <1>3, <1>4 DEF OnlyDoneBefore, TypeOK, Save, NoJob, Is
<1>8. OneCreator'
  <2>1. j.cmd = "new" => /\ j.entity \notin exists
                         /\ \A u \in Txs : Is(u, {"new"}) => job[u].entity # j.entity
    BY DEF BeginSave, Fresh
  <2>2. j.cmd = "edit" => j.entity \in exists
    BY DEF BeginSave, Save
  <2>3. \A u \in Txs : Is(u, {"new"}) /\ ~ Open(u) => pc[u] = "done"
    BY DEF OnlyDoneBefore, Is, NoJob
  <2>4. \A u \in Txs : (Open(u) /\ Is(u, {"new"}))' =>
                          job'[u].entity \notin exists'
    BY <1>1, <1>2, <1>3, <1>4, <2>1 DEF OneCreator, Is
  <2>5. \A u \in Txs : Is(u, {"edit"})' => job'[u].entity \in exists'
    BY <1>1, <1>2, <1>3, <1>4, <2>2 DEF OneCreator, Is
  <2>6. \A u, x \in Txs : u # x /\ Is(u, {"new"})' /\ Is(x, {"new"})'
          => job'[u].entity # job'[x].entity
    BY <1>2, <1>3, <1>4, <2>1 DEF OneCreator, Is
  <2>7. \A u, x \in Txs : Is(u, {"edit"})' /\ Is(x, {"new"})'
                           /\ job'[u].entity = job'[x].entity => x \in before'[u]
    <3>1. SUFFICES ASSUME NEW u \in Txs, NEW x \in Txs, Is(u, {"edit"})',
                          Is(x, {"new"})', job'[u].entity = job'[x].entity
                   PROVE  x \in before'[u]
      OBVIOUS
    <3>2. CASE u = t /\ x # t
      BY <3>1, <3>2, <1>2, <1>3, <1>4, <2>2, <2>3 DEF OneCreator, Is
    <3>3. CASE x = t /\ u # t
      BY <3>1, <3>3, <1>2, <1>3, <1>4, <2>1 DEF OneCreator, Is
    <3>4. CASE u # t /\ x # t
      BY <3>1, <3>4, <1>4 DEF OneCreator, Is
    <3>5. CASE u = t /\ x = t
      BY <3>1, <3>5 DEF Is
    <3>6. QED
      BY <3>2, <3>3, <3>4, <3>5
  <2>8. QED
    BY <2>4, <2>5, <2>6, <2>7 DEF OneCreator, Is
<1>9. OneHolder'
  BY <1>3, <1>4 DEF OneHolder
<1>10. NothingUnseen'
  BY <1>1, <1>3, <1>4, <1>5 DEF NothingUnseen, Overlap
<1>11. OneLinkPerFile'
  BY <1>1, <1>4, <1>5 DEF OneLinkPerFile, Overlap
<1>12. QED
  BY <1>6, <1>7, <1>8, <1>9, <1>10, <1>11

LEMMA BeginUnlinkKeeps ==
  ASSUME IInv, NEW t \in Txs, NEW r \in rows, BeginUnlink(t, r)
  PROVE  LinkInv' /\ OneLinkPerFile'
<1> USE DEF IInv, LinkInv
<1>1. /\ pc[t] = "idle" /\ pc' = [pc EXCEPT ![t] = "read"]
      /\ job' = [job EXCEPT ![t] = [cmd |-> "unlink", link |-> r]]
      /\ seen' = [seen EXCEPT ![t] = {r}] /\ was' = [was EXCEPT ![t] = was[t]]
      /\ before' = [before EXCEPT ![t] = {u \in Txs : pc[u] = "done"}]
      /\ rows' = rows /\ exists' = exists
  BY DEF BeginUnlink, Goes, dbVars, TypeOK
<1>2. /\ pc'[t] = "read" /\ job'[t].cmd = "unlink" /\ job'[t] # NoJob
      /\ before'[t] = {u \in Txs : pc[u] = "done"}
  BY <1>1 DEF TypeOK, NoJob
<1>3. ~ Holds(t)' /\ Open(t)' /\ ~ Reading(t)'
  BY <1>2 DEF Holds, Open, Reading, Is, Writes
<1>4. \A u \in Txs \ {t} :
        /\ pc'[u] = pc[u] /\ job'[u] = job[u] /\ before'[u] = before[u]
        /\ was'[u] = was[u] /\ seen'[u] = seen[u]
        /\ Writes(u)' = Writes(u) /\ Holds(u)' = Holds(u) /\ Open(u)' = Open(u)
        /\ Reading(u)' = Reading(u)
  BY <1>1, OthersStay DEF TypeOK
<1>5. \A q \in rows : q.by \in Txs \ {t}
  BY <1>1 DEF RowsOfDone, TypeOK, Link
<1>6. RowsOfDone'
  BY <1>1, <1>4, <1>5 DEF RowsOfDone, Is
<1>7. OnlyDoneBefore'
  BY <1>1, <1>2, <1>3, <1>4 DEF OnlyDoneBefore, Is
<1>8. OneCreator'
  BY <1>1, <1>2, <1>4 DEF OneCreator, Is
<1>9. OneHolder'
  BY <1>3, <1>4 DEF OneHolder
<1>10. NothingUnseen'
  BY <1>1, <1>3, <1>4, <1>5 DEF NothingUnseen, Overlap
<1>11. OneLinkPerFile'
  BY <1>1, <1>4, <1>5 DEF OneLinkPerFile, Overlap
<1>12. QED
  BY <1>6, <1>7, <1>8, <1>9, <1>10, <1>11

\* A command goes on: what it is and what is committed stay.
LEMMA GoesOn ==
  ASSUME IInv, NEW t \in Txs, NEW from, NEW to, Goes(t, from, to),
         from \in {"begun", "updated", "read"}, to \in {"updated", "read", "written"},
         UNCHANGED <<rows, exists, job, was, before>>,
         to = "updated" => from = "begun"
  PROVE  RowsOfDone' /\ OnlyDoneBefore' /\ OneCreator' /\ OneLinkPerFile'
<1> USE DEF IInv, LinkInv
<1>1. /\ pc'[t] = to /\ pc[t] = from /\ \A u \in Txs \ {t} : pc'[u] = pc[u]
  BY DEF Goes, TypeOK
<1>2. \A u \in Txs : /\ Open(u)' = Open(u) /\ (pc'[u] = "done") = (pc[u] = "done")
                      /\ Writes(u)' = Writes(u)
  BY <1>1 DEF Open, Writes, Is
<1>3. RowsOfDone'
  <2>1. \A r \in rows : r.by \in Txs
    BY DEF TypeOK, Link
  <2>2. QED
    BY <1>2, <2>1 DEF RowsOfDone, Is
<1>4. OnlyDoneBefore'
  BY <1>1, <1>2 DEF OnlyDoneBefore, Is, TypeOK
<1>5. OneCreator'
  BY <1>2 DEF OneCreator, Is
<1>6. OneLinkPerFile'
  <2>1. \A r \in rows : r.by \in Txs
    BY DEF TypeOK, Link
  <2>2. QED
    BY <1>2, <2>1 DEF OneLinkPerFile, Overlap
<1>7. QED
  BY <1>3, <1>4, <1>5, <1>6

LEMMA UpdateKeeps ==
  ASSUME IInv, NEW t \in Txs, UpdateRow(t) \/ NothingToUpdate(t)
  PROVE  LinkInv' /\ OneLinkPerFile'
<1>1. /\ Goes(t, "begun", "updated")
      /\ UNCHANGED <<rows, exists, job, was, before>> /\ seen' = seen
  BY DEF UpdateRow, NothingToUpdate, dbVars
<1>2. RowsOfDone' /\ OnlyDoneBefore' /\ OneCreator' /\ OneLinkPerFile'
  BY <1>1, GoesOn
<1>3. \A u \in Txs \ {t} : Holds(u)' = Holds(u) /\ Reading(u)' = Reading(u)
  BY <1>1 DEF IInv, TypeOK, Goes, Holds, Reading, Writes, Is
<1>4. ~ Reading(t)'
  BY <1>1 DEF IInv, TypeOK, Goes, Reading
<1>5. Holds(t)' => RowIsFree(t)
  BY <1>1 DEF Holds, Writes, Is, UpdateRow, NothingToUpdate
<1>6. OneHolder'
  BY <1>1, <1>3, <1>5 DEF OneHolder, RowIsFree, IInv, LinkInv
<1>7. NothingUnseen'
  BY <1>1, <1>3, <1>4 DEF NothingUnseen, Overlap, Writes, Is, IInv, LinkInv
<1>8. QED
  BY <1>2, <1>6, <1>7 DEF LinkInv

LEMMA ReadLinksKeeps ==
  ASSUME IInv, NEW t \in Txs, ReadLinks(t)
  PROVE  LinkInv' /\ OneLinkPerFile'
<1>1. /\ Goes(t, "updated", "read") /\ ~ Is(t, {"unlink"})
      /\ UNCHANGED <<rows, exists, job, was, before>>
  BY DEF ReadLinks, dbVars, IInv, LinkInv, OnlyDoneBefore, Goes
<1>2. RowsOfDone' /\ OnlyDoneBefore' /\ OneCreator' /\ OneLinkPerFile'
  BY <1>1, GoesOn
<1>3. /\ \A u \in Txs : Holds(u)' = Holds(u)
      /\ \A u \in Txs \ {t} : Reading(u)' = Reading(u) /\ seen'[u] = seen[u]
  BY <1>1 DEF IInv, TypeOK, Goes, Holds, Reading, Writes, Is, ReadLinks
<1>4. Reading(t)' => \A r \in rows : r.entity = job[t].entity => r \in seen'[t]
  BY <1>1 DEF Reading, Is, ReadLinks, IInv, TypeOK
<1>5. OneHolder'
  BY <1>1, <1>3 DEF OneHolder, IInv, LinkInv
<1>6. NothingUnseen'
  BY <1>1, <1>3, <1>4 DEF NothingUnseen, Overlap, Writes, Is, IInv, LinkInv
<1>7. QED
  BY <1>2, <1>5, <1>6 DEF LinkInv

LEMMA RemoveLinksKeeps ==
  ASSUME IInv, NEW t \in Txs, RemoveLinks(t)
  PROVE  LinkInv' /\ OneLinkPerFile'
<1>1. /\ Goes(t, "read", "written") /\ seen' = seen
      /\ UNCHANGED <<rows, exists, job, was, before>>
  BY DEF RemoveLinks, dbVars
<1>2. RowsOfDone' /\ OnlyDoneBefore' /\ OneCreator' /\ OneLinkPerFile'
  BY <1>1, GoesOn
<1>3. \A u \in Txs : Holds(u)' = Holds(u) /\ Reading(u)' = Reading(u)
  BY <1>1 DEF IInv, TypeOK, Goes, Holds, Reading, Writes, Is
<1>4. OneHolder'
  BY <1>1, <1>3 DEF OneHolder, IInv, LinkInv
<1>5. NothingUnseen'
  BY <1>1, <1>3 DEF NothingUnseen, Overlap, Writes, Is, IInv, LinkInv
<1>6. QED
  BY <1>2, <1>4, <1>5 DEF LinkInv

LEMMA FailKeeps ==
  ASSUME IInv, NEW t \in Txs, Fail(t), Open(t)
  PROVE  LinkInv' /\ OneLinkPerFile'
<1> USE DEF IInv, LinkInv
<1>1. /\ pc' = [pc EXCEPT ![t] = "failed"] /\ job' = [job EXCEPT ![t] = NoJob]
      /\ was' = [was EXCEPT ![t] = None] /\ before' = [before EXCEPT ![t] = {}]
      /\ seen' = [seen EXCEPT ![t] = {}] /\ rows' = rows /\ exists' = exists
  BY DEF Fail, dbVars
<1>2. /\ pc'[t] = "failed" /\ job'[t] = NoJob /\ before'[t] = {} /\ pc[t] # "done"
      /\ job'[t].cmd = "none"
  BY <1>1 DEF TypeOK, Open, NoJob
<1>3. ~ Holds(t)' /\ ~ Open(t)' /\ ~ Reading(t)'
  BY <1>2 DEF Holds, Open, Reading
<1>4. \A u \in Txs \ {t} :
        /\ pc'[u] = pc[u] /\ job'[u] = job[u] /\ before'[u] = before[u]
        /\ was'[u] = was[u] /\ seen'[u] = seen[u]
        /\ Writes(u)' = Writes(u) /\ Holds(u)' = Holds(u) /\ Open(u)' = Open(u)
        /\ Reading(u)' = Reading(u)
  BY <1>1, OthersStay DEF TypeOK
<1>5. \A q \in rows : q.by \in Txs \ {t}
  BY <1>2 DEF RowsOfDone, TypeOK, Link
<1>6. RowsOfDone'
  BY <1>1, <1>4, <1>5 DEF RowsOfDone, Is
<1>7. OnlyDoneBefore'
  BY <1>1, <1>2, <1>3, <1>4 DEF OnlyDoneBefore, Is
<1>8. OneCreator'
  BY <1>1, <1>2, <1>4 DEF OneCreator, Is
<1>9. OneHolder'
  BY <1>3, <1>4 DEF OneHolder
<1>10. NothingUnseen'
  BY <1>1, <1>3, <1>4, <1>5 DEF NothingUnseen, Overlap
<1>11. OneLinkPerFile'
  BY <1>1, <1>4, <1>5 DEF OneLinkPerFile, Overlap
<1>12. QED
  BY <1>6, <1>7, <1>8, <1>9, <1>10, <1>11

\* What a command inserts is a link of its entity, for a file it has not seen
\* linked, once.
LEMMA InsertedLinks ==
  ASSUME IInv, NEW t \in Txs, pc[t] = "written"
  PROVE  /\ \A r \in Inserted(t) :
              /\ r.by = t /\ r.entity = job[t].entity /\ Is(t, {"new", "edit"})
              /\ r.pos \in FirstPlaces(job[t].files) /\ r.file = job[t].files[r.pos]
              /\ \A q \in seen[t] : q.file # r.file
         /\ \A r, q \in Inserted(t) : r.file = q.file => r = q
<1>1. CASE Is(t, {"unlink"})
  BY <1>1 DEF Inserted
<1>2. CASE ~ Is(t, {"unlink"})
  <2>1. job[t] \in Save
    BY <1>2 DEF IInv, LinkInv, OnlyDoneBefore, Open, TypeOK, Job, Is
  <2>2. Is(t, {"new", "edit"}) /\ job[t].files \in Lists
    BY <2>1 DEF Save, Is
  <2>3. \A i \in FirstPlaces(job[t].files) : i \in Nat
    BY <2>2 DEF Lists, FirstPlaces
  <2>4. \A i, k \in FirstPlaces(job[t].files) :
          job[t].files[i] = job[t].files[k] => i = k
    <3>1. SUFFICES ASSUME NEW i \in FirstPlaces(job[t].files),
                          NEW k \in FirstPlaces(job[t].files),
                          job[t].files[i] = job[t].files[k], i < k
                   PROVE  FALSE
      BY <2>3
    <3>2. i \in 1..(k - 1)
      BY <3>1, <2>2, <2>3 DEF FirstPlaces, Lists
    <3>3. QED
      BY <3>1, <3>2 DEF FirstPlaces
  <2>5. \A r \in Inserted(t) :
          /\ r.by = t /\ r.entity = job[t].entity
          /\ r.pos \in FirstPlaces(job[t].files) /\ r.file = job[t].files[r.pos]
          /\ r.file \in ToAdd(t)
    BY <1>2 DEF Inserted
  <2>6. \A r, q \in Inserted(t) : r.pos = q.pos => r = q
    BY <1>2 DEF Inserted
  <2>7. QED
    BY <1>2, <2>2, <2>4, <2>5, <2>6 DEF ToAdd, FilesOf
<1>3. QED
  BY <1>1, <1>2

LEMMA CommitKeeps ==
  ASSUME IInv, NEW t \in Txs, Commit(t)
  PROVE  LinkInv' /\ OneLinkPerFile'
<1> USE DEF IInv, LinkInv
<1>1. /\ pc[t] = "written" /\ pc' = [pc EXCEPT ![t] = "done"]
      /\ job' = job /\ was' = was /\ before' = before
      /\ seen' = [seen EXCEPT ![t] = {}]
      /\ exists' = IF Is(t, {"new"}) THEN exists \union {job[t].entity} ELSE exists
      /\ rows' \subseteq rows \union Inserted(t)
  BY DEF Commit, Goes
<1>2. /\ pc'[t] = "done" /\ Open(t) /\ ~ Open(t)' /\ ~ Holds(t)' /\ ~ Reading(t)'
      /\ \A u \in Txs \ {t} :
           /\ pc'[u] = pc[u] /\ seen'[u] = seen[u] /\ Open(u)' = Open(u)
           /\ Holds(u)' = Holds(u) /\ Reading(u)' = Reading(u)
  BY <1>1 DEF TypeOK, Open, Holds, Reading, Writes, Is
<1>3. \A u \in Txs : Writes(u)' = Writes(u)
  BY <1>1 DEF Writes, Is
<1>4. /\ \A r \in Inserted(t) :
           /\ r.by = t /\ r.entity = job[t].entity /\ Is(t, {"new", "edit"})
           /\ r.pos \in FirstPlaces(job[t].files) /\ r.file = job[t].files[r.pos]
           /\ \A q \in seen[t] : q.file # r.file
      /\ \A r, q \in Inserted(t) : r.file = q.file => r = q
  BY <1>1, InsertedLinks
<1>5. \A r \in rows : r.by \in Txs \ {t} /\ pc[r.by] = "done"
  BY <1>1 DEF RowsOfDone, TypeOK, Link
<1>6. RowsOfDone'
  <2>1. \A r \in Inserted(t) : r.entity \in exists'
    BY <1>1, <1>4 DEF OneCreator, Is
  <2>2. exists \subseteq exists'
    BY <1>1
  <2>3. QED
    BY <1>1, <1>2, <1>4, <1>5, <2>1, <2>2 DEF RowsOfDone, Is
<1>7. OnlyDoneBefore'
  BY <1>1, <1>2 DEF OnlyDoneBefore, Is, TypeOK
<1>8. OneCreator'
  BY <1>1, <1>2 DEF OneCreator, Is
<1>9. OneHolder'
  BY <1>1, <1>2 DEF OneHolder
<1>10. NothingUnseen'
  <2>1. SUFFICES ASSUME NEW u \in Txs, Reading(u)', NEW r \in rows',
                        r.entity = job[u].entity, r \notin seen'[u]
                 PROVE  Overlap(r.by, u) /\ ~ (Writes(r.by) /\ Writes(u))
    BY <1>1, <1>3, <1>4, <1>5 DEF NothingUnseen, Overlap
  <2>2. u # t /\ Reading(u)
    BY <2>1, <1>2
  <2>3. CASE r \in rows
    BY <2>1, <2>2, <2>3, <1>2 DEF NothingUnseen
  <2>4. CASE r \in Inserted(t)
    <3>1. r.by = t /\ job[t].entity = job[u].entity
      BY <2>1, <2>4, <1>4
    <3>2. pc[u] # "done" /\ pc[t] # "done"
      BY <2>2, <1>1 DEF Reading
    <3>3. Overlap(t, u)
      BY <3>2 DEF Overlap, OnlyDoneBefore
    <3>4. Writes(t) => Holds(t)
      BY <1>1 DEF Holds
    <3>5. Writes(u) => Holds(u)
      BY <2>2 DEF Holds, Reading
    <3>6. QED
      BY <2>2, <3>1, <3>3, <3>4, <3>5 DEF OneHolder
  <2>5. QED
    BY <2>1, <2>3, <2>4, <1>1
<1>11. OneLinkPerFile'
  <2>1. ASSUME NEW r \in rows, NEW q \in Inserted(t), r.entity = q.entity,
               r.file = q.file
        PROVE  /\ Overlap(r.by, t) /\ ~ (Writes(r.by) /\ Writes(t))
               /\ r.entity \in Cards
    <3>1. r.entity = job[t].entity /\ r \notin seen[t]
      BY <2>1, <1>4
    <3>2. Is(t, {"edit"})
      BY <2>1, <3>1, <1>2, <1>4 DEF OneCreator, RowsOfDone, Is
    <3>3. Reading(t)
      BY <3>2, <1>1 DEF Reading
    <3>4. Overlap(r.by, t) /\ ~ (Writes(r.by) /\ Writes(t))
      BY <3>1, <3>3 DEF NothingUnseen
    <3>5. Is(r.by, {"edit"}) /\ job[r.by].entity = job[t].entity
      <4>1. Is(r.by, {"new", "edit"}) /\ job[r.by].entity = job[t].entity
        BY <3>1 DEF RowsOfDone
      <4>2. ~ Is(r.by, {"new"})
        BY <4>1, <3>2, <3>4, <1>5 DEF OneCreator, Overlap
      <4>3. QED
        BY <4>1, <4>2 DEF Is
    <3>6. r.entity \in Cards
      BY <3>1, <3>2, <3>4, <3>5 DEF Writes
    <3>7. QED
      BY <3>4, <3>6
  <2>2. SUFFICES ASSUME NEW r \in rows', NEW q \in rows', r # q,
                        r.entity = q.entity, r.file = q.file
                 PROVE  /\ Overlap(r.by, q.by) /\ ~ (Writes(r.by) /\ Writes(q.by))
                        /\ r.entity \in Cards
    BY <1>1, <1>3, <1>4, <1>5 DEF OneLinkPerFile, Overlap
  <2>3. CASE r \in rows /\ q \in rows
    BY <2>2, <2>3 DEF OneLinkPerFile
  <2>4. CASE r \in rows /\ q \in Inserted(t)
    BY <2>1, <2>2, <2>4, <1>4
  <2>5. CASE r \in Inserted(t) /\ q \in rows
    BY <2>1, <2>2, <2>5, <1>4 DEF Overlap
  <2>6. CASE r \in Inserted(t) /\ q \in Inserted(t)
    BY <2>2, <2>6, <1>4
  <2>7. QED
    BY <2>2, <2>3, <2>4, <2>5, <2>6, <1>1
<1>12. QED
  BY <1>6, <1>7, <1>8, <1>9, <1>10, <1>11

-----------------------------------------------------------------------------
\* The invariant holds from the start and every step keeps it.
THEOREM InductiveInvariant == Spec => []IInv
<1>1. Init => IInv
  BY InitType, InitInv DEF IInv
<1>2. IInv /\ [Next]_vars => IInv'
  <2> SUFFICES ASSUME IInv, [Next]_vars PROVE IInv'
    OBVIOUS
  <2>1. ASSUME NEW f \in Files, NEW p \in People, RequestUpload(f, p) PROVE IInv'
    <3>1. TypeOK'
      BY <2>1 DEF IInv, TypeOK, RequestUpload, dbVars
    <3>2. QED
      BY <2>1, <3>1, UploadKeeps DEF IInv, RequestUpload, dbVars
  <2>2. ASSUME NEW f \in Files, Put(f) PROVE IInv'
    <3>1. TypeOK'
      BY <2>2 DEF IInv, TypeOK, Put, dbVars
    <3>2. QED
      BY <2>2, <3>1, UploadKeeps DEF IInv, Put, dbVars
  <2>3. ASSUME NEW t \in Txs, NEW j \in Save, BeginSave(t, j) PROVE IInv'
    BY <2>3, TypeOfBegin, BeginSaveKeeps DEF IInv
  <2>4. ASSUME NEW t \in Txs, NEW r \in rows, BeginUnlink(t, r) PROVE IInv'
    BY <2>4, TypeOfBegin, BeginUnlinkKeeps DEF IInv
  <2>5. ASSUME NEW t \in Txs, UpdateRow(t) \/ NothingToUpdate(t) PROVE IInv'
    BY <2>5, TypeOfStep, UpdateKeeps DEF IInv
  <2>6. ASSUME NEW t \in Txs, ReadLinks(t) PROVE IInv'
    BY <2>6, TypeOfStep, ReadLinksKeeps DEF IInv
  <2>7. ASSUME NEW t \in Txs, RemoveLinks(t) PROVE IInv'
    BY <2>7, TypeOfStep, RemoveLinksKeeps DEF IInv
  <2>8. ASSUME NEW t \in Txs, Commit(t) PROVE IInv'
    BY <2>8, TypeOfCommit, CommitKeeps DEF IInv, LinkInv
  <2>9. ASSUME NEW t \in Txs, Invalid(t) \/ NotFound(t) \/ RollBack(t) PROVE IInv'
    <3>1. Fail(t) /\ Open(t)
      BY <2>9 DEF Invalid, NotFound, RollBack, Open
    <3>2. QED
      BY <3>1, TypeOfFail, FailKeeps DEF IInv
  <2>10. CASE UNCHANGED vars
    <3>1. TypeOK'
      BY <2>10 DEF vars, fileVars, dbVars, IInv, TypeOK
    <3>2. QED
      BY <2>10, <3>1, UploadKeeps DEF vars, fileVars, dbVars, IInv
  <2>11. QED
    BY <2>1, <2>2, <2>3, <2>4, <2>5, <2>6, <2>7, <2>8, <2>9, <2>10 DEF Next
<1>3. QED
  BY <1>1, <1>2, PTL DEF Spec

\* Every variable keeps its type.
THEOREM TypeCorrect == Spec => []TypeOK
BY InductiveInvariant, PTL DEF IInv

\* The parts of the invariant, as the run checks them.
THEOREM LinkInvariantHolds == Spec => []LinkInv
BY InductiveInvariant, PTL DEF IInv

\* An entity has two links of one file only after two edits that overlapped, of
\* which one changed nothing in the row (link-files.ts, syncFileLinks).
THEOREM LinksAreUnique == Spec => []OneLinkPerFile
BY InductiveInvariant, PTL DEF IInv

-----------------------------------------------------------------------------
(* The bytes of linked files.                                              *)

\* What makes LinkedIsStored inductive: the files of a careful client have an
\* uploader, for good, and their bytes if it is that client; and what is about to
\* be linked was uploaded by who links it.
StoreInv ==
  \A t \in Txs :
    /\ pc[t] = "written" => Valid(t)
    /\ Is(t, {"new", "edit"}) /\ job[t].who \in Careful =>
         \A f \in Asked(t) :
           owner[f] # None /\ (owner[f] = job[t].who => f \in stored)

\* The list of a command has files, in its places.
LEMMA AskedFiles ==
  ASSUME TypeOK, NEW t \in Txs, Is(t, {"new", "edit"})
  PROVE  /\ job[t] \in Save /\ Asked(t) \subseteq Files
         /\ Asked(t) = {job[t].files[i] : i \in DOMAIN job[t].files}
<1>1. job[t] \in Save
  BY DEF TypeOK, Job, Is, NoJob
<1>2. job[t].files \in Lists
  BY <1>1 DEF Save
<1>3. Asked(t) = {job[t].files[i] : i \in DOMAIN job[t].files}
  BY DEF Asked, ToSet
<1>4. QED
  BY <1>1, <1>2, <1>3, PlacesAreNumbers

\* A file that has an uploader keeps it, and bytes that are stored stay.
LEMMA StoreKeeps ==
  ASSUME IInv, StoreInv,
         \A f \in Files : owner[f] # None => owner'[f] = owner[f],
         stored \subseteq stored', UNCHANGED <<pc, job, seen>>
  PROVE  StoreInv'
<1>1. ASSUME NEW t \in Txs, pc[t] = "written" PROVE Valid(t)'
  <2>1. \A f \in ToAdd(t) : owner[f] = job[t].who
    BY <1>1 DEF StoreInv, Valid
  <2>2. CASE Is(t, {"unlink"})
    BY <2>2 DEF Valid, ToAdd, Is
  <2>3. CASE ~ Is(t, {"unlink"})
    <3>1. Is(t, {"new", "edit"})
      BY <1>1, <2>3 DEF IInv, LinkInv, OnlyDoneBefore, Open, TypeOK, Job, Save, Is
    <3>2. job[t].who # None
      BY <3>1, AskedFiles, FilesAssumption DEF IInv, Save
    <3>3. ToAdd(t) \subseteq Files
      BY <2>3, <3>1, AskedFiles DEF ToAdd, IInv
    <3>4. ToAdd(t)' = ToAdd(t)
      BY DEF ToAdd, Is, Asked, FilesOf
    <3>5. QED
      BY <2>1, <3>2, <3>3, <3>4 DEF Valid
  <2>4. QED
    BY <2>2, <2>3
<1>2. ASSUME NEW t \in Txs, Is(t, {"new", "edit"}), job[t].who \in Careful, NEW f \in Asked(t)
      PROVE  owner'[f] # None /\ (owner'[f] = job[t].who => f \in stored')
  <2>1. f \in Files
    BY <1>2, AskedFiles DEF IInv
  <2>2. QED
    BY <1>2, <2>1 DEF StoreInv
<1>3. QED
  BY <1>1, <1>2 DEF StoreInv, Is, Asked

\* A command that does not reach its end says nothing about files.
LEMMA StoreStep ==
  ASSUME StoreInv, NEW t \in Txs, UNCHANGED <<owner, stored>>,
         \A u \in Txs \ {t} : pc'[u] = pc[u] /\ job'[u] = job[u] /\ seen'[u] = seen[u],
         pc'[t] = "written" => Valid(t)',
         \/ job'[t] = job[t]
         \/ Is(t, {"new", "edit"})' /\ job'[t].who \in Careful =>
              \A f \in Asked(t)' :
                owner[f] # None /\ (owner[f] = job'[t].who => f \in stored)
  PROVE  StoreInv'
<1>1. \A u \in Txs \ {t} : /\ Is(u, {"new", "edit"})' <=> Is(u, {"new", "edit"})
                           /\ Asked(u)' = Asked(u)
                           /\ Valid(u)' <=> Valid(u)
  BY DEF Is, Asked, Valid, ToAdd, FilesOf
<1>2. ASSUME NEW u \in Txs PROVE pc'[u] = "written" => Valid(u)'
  BY <1>1 DEF StoreInv
<1>3. ASSUME NEW u \in Txs, Is(u, {"new", "edit"})', job'[u].who \in Careful,
             NEW f \in Asked(u)'
      PROVE  owner'[f] # None /\ (owner'[f] = job'[u].who => f \in stored')
  <2>1. CASE job'[u] = job[u]
    BY <1>3, <2>1 DEF StoreInv, Is, Asked
  <2>2. CASE job'[u] # job[u]
    BY <1>3, <2>2
  <2>3. QED
    BY <2>1, <2>2
<1>4. QED
  BY <1>2, <1>3 DEF StoreInv

LEMMA StoreNext ==
  ASSUME IInv, StoreInv, [Next]_vars
  PROVE  StoreInv'
<1> USE DEF IInv
<1>1. ASSUME NEW f \in Files, NEW p \in People, RequestUpload(f, p) PROVE StoreInv'
  BY <1>1, StoreKeeps DEF RequestUpload, TypeOK
<1>2. ASSUME NEW f \in Files, Put(f) PROVE StoreInv'
  BY <1>2, StoreKeeps DEF Put
<1>3. ASSUME NEW t \in Txs, NEW j \in Save, BeginSave(t, j) PROVE StoreInv'
  <2>1. /\ pc'[t] = "begun" /\ job'[t] = j /\ UNCHANGED <<owner, stored, seen>>
        /\ \A u \in Txs \ {t} : pc'[u] = pc[u] /\ job'[u] = job[u]
    BY <1>3 DEF BeginSave, Goes, TypeOK, fileVars
  <2>2. j.who \in Careful => \A f \in Asked(t)' :
          owner[f] # None /\ (owner[f] = j.who => f \in stored)
    <3>1. Asked(t)' = {j.files[i] : i \in DOMAIN j.files}
      BY <2>1 DEF Asked, ToSet
    <3>2. QED
      BY <1>3, <3>1 DEF BeginSave, Uploaded
  <2>3. QED
    BY <2>1, <2>2, StoreStep
<1>4. ASSUME NEW t \in Txs, NEW r \in rows, BeginUnlink(t, r) PROVE StoreInv'
  <2>1. /\ pc'[t] = "read" /\ ~ Is(t, {"new", "edit"})' /\ UNCHANGED <<owner, stored>>
        /\ \A u \in Txs \ {t} : pc'[u] = pc[u] /\ job'[u] = job[u] /\ seen'[u] = seen[u]
    BY <1>4 DEF BeginUnlink, Goes, TypeOK, fileVars, Is
  <2>2. QED
    BY <2>1, StoreStep
<1>5. ASSUME NEW t \in Txs, UpdateRow(t) \/ NothingToUpdate(t) \/ ReadLinks(t)
      PROVE  StoreInv'
  <2>1. /\ pc'[t] # "written" /\ UNCHANGED <<owner, stored, job>>
        /\ \A u \in Txs \ {t} : pc'[u] = pc[u] /\ seen'[u] = seen[u]
    BY <1>5 DEF UpdateRow, NothingToUpdate, ReadLinks, Goes, TypeOK, fileVars
  <2>2. QED
    BY <2>1, StoreStep
<1>6. ASSUME NEW t \in Txs, RemoveLinks(t) PROVE StoreInv'
  <2>1. /\ Valid(t) /\ UNCHANGED <<owner, stored, job, seen>>
        /\ \A u \in Txs \ {t} : pc'[u] = pc[u]
    BY <1>6 DEF RemoveLinks, Goes, TypeOK, fileVars
  <2>2. Valid(t)'
    BY <2>1 DEF Valid, ToAdd, Is, Asked, FilesOf
  <2>3. QED
    BY <2>1, <2>2, StoreStep
<1>7. ASSUME NEW t \in Txs, Commit(t) PROVE StoreInv'
  <2>1. /\ pc'[t] # "written" /\ UNCHANGED <<owner, stored, job>>
        /\ \A u \in Txs \ {t} : pc'[u] = pc[u] /\ seen'[u] = seen[u]
    BY <1>7 DEF Commit, Goes, TypeOK
  <2>2. QED
    BY <2>1, StoreStep
<1>8. ASSUME NEW t \in Txs, Fail(t) PROVE StoreInv'
  <2>1. /\ pc'[t] # "written" /\ ~ Is(t, {"new", "edit"})' /\ UNCHANGED <<owner, stored>>
        /\ \A u \in Txs \ {t} : pc'[u] = pc[u] /\ job'[u] = job[u] /\ seen'[u] = seen[u]
    BY <1>8 DEF Fail, TypeOK, fileVars, Is, NoJob
  <2>2. QED
    BY <2>1, StoreStep
<1>9. CASE UNCHANGED vars
  BY <1>9, StoreKeeps DEF vars, fileVars, dbVars
<1>10. QED
  BY <1>1, <1>2, <1>3, <1>4, <1>5, <1>6, <1>7, <1>8, <1>9
  DEF Next, Invalid, NotFound, RollBack

\* A linked file has an uploader.
Linked == LinkedIsStored /\ \A r \in rows : owner[r.file] # None

\* A link that is made is of a file of who makes it.
LEMMA LinkedNext ==
  ASSUME IInv, StoreInv, Linked, [Next]_vars
  PROVE  Linked'
<1> USE DEF IInv
<1>1. /\ \A f \in Files : owner[f] # None => owner'[f] = owner[f]
      /\ stored \subseteq stored'
  BY DEF Next, RequestUpload, Put, BeginSave, BeginUnlink, UpdateRow, NothingToUpdate,
         ReadLinks, Invalid, RemoveLinks, NotFound, Commit, RollBack, Fail, vars,
         fileVars, dbVars, TypeOK
<1>2. \A r \in rows : r.file \in Files
  BY DEF TypeOK, Link
<1>3. \A r \in rows : /\ owner'[r.file] # None
                      /\ owner'[r.file] \in Careful => r.file \in stored'
  BY <1>1, <1>2 DEF Linked, LinkedIsStored
<1>4. ASSUME NEW r \in rows' \ rows
      PROVE  owner'[r.file] # None /\ (owner'[r.file] \in Careful => r.file \in stored')
  <2>1. PICK t \in Txs : Commit(t) /\ r \in Inserted(t)
    BY <1>4 DEF Next, RequestUpload, Put, BeginSave, BeginUnlink, UpdateRow,
         NothingToUpdate, ReadLinks, Invalid, RemoveLinks, NotFound, Commit, RollBack,
         Fail, vars, dbVars
  <2>2. pc[t] = "written" /\ UNCHANGED <<owner, stored>>
    BY <2>1 DEF Commit, Goes
  <2>3. Is(t, {"new", "edit"}) /\ Valid(t)
    BY <2>1, <2>2, InsertedLinks DEF StoreInv
  <2>4. r.file \in ToAdd(t) /\ r.file \in Asked(t)
    <3>1. ~ Is(t, {"unlink"})
      BY <2>3 DEF Is
    <3>2. QED
      BY <2>1, <3>1 DEF Inserted, ToAdd
  <2>5. owner[r.file] = job[t].who /\ job[t].who \in People
    BY <2>3, <2>4, AskedFiles DEF Valid, Save
  <2>6. QED
    BY <2>2, <2>3, <2>4, <2>5, FilesAssumption DEF StoreInv
<1>5. QED
  BY <1>3, <1>4 DEF Linked, LinkedIsStored

\* Whoever lists a file and whoever keeps its link, its bytes are in the store if
\* the client of its uploader waits for them.
THEOREM LinkedFilesAreStored == Spec => []LinkedIsStored
<1>1. Init => StoreInv /\ Linked
  BY DEF Init, StoreInv, Linked, LinkedIsStored, Is, NoJob
<1>2. IInv /\ StoreInv /\ Linked /\ [Next]_vars => StoreInv' /\ Linked'
  BY StoreNext, LinkedNext
<1>3. Linked => LinkedIsStored
  BY DEF Linked
<1>4. QED
  BY <1>1, <1>2, <1>3, InductiveInvariant, PTL DEF Spec

-----------------------------------------------------------------------------
(* The log of a card.                                                      *)

\* What makes LogIsHistory inductive: entries are of transactions that have
\* succeeded, and a value that an edit has read is the last of the log, unless
\* somebody has logged another since or had emptied the text before.
LogInv ==
  /\ \A c \in Cards : \A i \in DOMAIN log[c] : pc[log[c][i].by] = "done"
  /\ \A t \in Txs : \A c \in Cards : Open(t) /\ Is(t, {"edit"}) /\ job[t].entity = c =>
       \/ was[t] = LastLogged(c)
       \/ log[c] # <<>> /\ Last(log[c]).by \notin before[t]
       \/ was[t] \in Empty /\ \E u \in before[t] : Clears(u, c)

Logs == LogInv /\ LogIsHistory

\* The entries of the logs and who wrote them.
LEMMA LogTypes ==
  ASSUME TypeOK, NEW c \in Cards
  PROVE  /\ Len(log[c]) \in Nat /\ DOMAIN log[c] = 1..Len(log[c])
         /\ \A i \in DOMAIN log[c] : log[c][i].by \in Txs
         /\ log[c] # <<>> => Len(log[c]) \in DOMAIN log[c]
         /\ log[c] = <<>> => Len(log[c]) = 0
         /\ Last(log[c]) = log[c][Len(log[c])]
<1> DEFINE E == [by : Txs, from : Values, to : Values]
<1>1. log[c] \in Seq(E)
  BY DEF TypeOK
<1>2. /\ Len(log[c]) \in Nat /\ DOMAIN log[c] = 1..Len(log[c])
      /\ \A i \in DOMAIN log[c] : log[c][i] \in E
      /\ log[c] # <<>> => Len(log[c]) # 0
      /\ log[c] = <<>> => Len(log[c]) = 0
  <2> HIDE DEF E
  <2>1. QED
    BY <1>1
<1>3. QED
  BY <1>2 DEF Last

\* A step that logs nothing: it leaves the fields as they are or empties one.
LEMMA LogsStay ==
  ASSUME TypeOK, OnlyDoneBefore, Logs, NEW t \in Txs, pc[t] # "done", UNCHANGED log,
         \A c \in Cards : \/ value'[c] = value[c]
                         \/ /\ value'[c] \in Empty /\ pc'[t] = "done"
                            /\ Is(t, {"edit"})' /\ job'[t].entity = c
                            /\ job'[t].field \in Empty,
         \A u \in Txs \ {t} : /\ pc'[u] = pc[u] /\ job'[u] = job[u] /\ was'[u] = was[u]
                              /\ before'[u] = before[u],
         Open(t)' /\ Is(t, {"edit"})' /\ job'[t].entity \in Cards =>
           \/ /\ was'[t] = value[job'[t].entity]
              /\ before'[t] = {u \in Txs : pc[u] = "done"}
           \/ Open(t) /\ UNCHANGED <<job, was, before>>
  PROVE  Logs'
<1>1. \A c \in Cards : \A i \in DOMAIN log[c] :
        log[c][i].by \in Txs \ {t} /\ pc[log[c][i].by] = "done"
  BY LogTypes DEF Logs, LogInv
<1>2. \A c \in Cards : \A i \in DOMAIN log[c] : pc'[log[c][i].by] = "done"
  BY <1>1
<1>3. \A u \in Txs : before[u] \subseteq {v \in Txs \ {t} : pc[v] = "done"}
  BY DEF OnlyDoneBefore, TypeOK
<1>4. \A u \in Txs \ {t} : \A c \in Cards : Clears(u, c) <=> Clears(u, c)'
  BY DEF Clears, Is
<1>5. \A c \in Cards : LastLogged(c)' = LastLogged(c)
  BY DEF LastLogged
<1>6. ASSUME NEW u \in Txs, NEW c \in Cards,
             Open(u)', Is(u, {"edit"})', job'[u].entity = c
      PROVE  \/ was'[u] = LastLogged(c)'
             \/ log'[c] # <<>> /\ Last(log'[c]).by \notin before'[u]
             \/ was'[u] \in Empty /\ \E v \in before'[u] : Clears(v, c)'
  <2>1. CASE was'[u] = value[c] /\ before'[u] = {v \in Txs : pc[v] = "done"} /\ u = t
    <3>1. CASE value[c] = LastLogged(c)
      BY <1>5, <2>1, <3>1
    <3>2. CASE value[c] # LastLogged(c)
      <4>1. PICK v \in Txs : value[c] \in Empty /\ pc[v] = "done" /\ Clears(v, c)
        BY <3>2 DEF Logs, LogIsHistory
      <4>2. v \in before'[u] /\ Clears(v, c)'
        BY <1>4, <2>1, <4>1
      <4>3. QED
        BY <2>1, <4>1, <4>2
    <3>3. QED
      BY <3>1, <3>2
  <2>2. CASE /\ Open(u) /\ Is(u, {"edit"}) /\ job[u].entity = c
             /\ was'[u] = was[u] /\ before'[u] = before[u]
    <3>1. \/ was[u] = LastLogged(c)
          \/ log[c] # <<>> /\ Last(log[c]).by \notin before[u]
          \/ was[u] \in Empty /\ \E v \in before[u] : Clears(v, c)
      BY <2>2 DEF Logs, LogInv
    <3>2. ASSUME NEW v \in before[u], Clears(v, c) PROVE Clears(v, c)'
      BY <1>3, <1>4, <3>2
    <3>3. QED
      BY <1>5, <2>2, <3>1, <3>2
  <2>3. QED
    BY <1>6, <2>1, <2>2 DEF Open, Is
<1>7. LogInv'
  BY <1>2, <1>6 DEF LogInv
<1>8. LogIsHistory'
  <2>1. ASSUME NEW c \in Cards, NEW i \in 2..Len(log[c])
        PROVE  \/ log[c][i].from = log[c][i - 1].to
               \/ Overlap(log[c][i].by, log[c][i - 1].by)'
               \/ /\ log[c][i].from \in Empty
                  /\ \E u \in before'[log[c][i].by] : Clears(u, c)'
    <3>1. i \in DOMAIN log[c] /\ i - 1 \in DOMAIN log[c]
      BY LogTypes
    <3>2. \/ log[c][i].from = log[c][i - 1].to
          \/ Overlap(log[c][i].by, log[c][i - 1].by)
          \/ /\ log[c][i].from \in Empty
             /\ \E u \in before[log[c][i].by] : Clears(u, c)
      BY DEF Logs, LogIsHistory
    <3>3. Overlap(log[c][i].by, log[c][i - 1].by)
            => Overlap(log[c][i].by, log[c][i - 1].by)'
      BY <1>1, <3>1 DEF Overlap
    <3>4. before'[log[c][i].by] = before[log[c][i].by] /\ log[c][i].by \in Txs
      BY <1>1, <3>1
    <3>5. ASSUME NEW u \in before[log[c][i].by], Clears(u, c) PROVE Clears(u, c)'
      BY <1>3, <1>4, <3>4, <3>5
    <3>6. QED
      BY <3>2, <3>3, <3>4, <3>5
  <2>2. ASSUME NEW c \in Cards
        PROVE  \/ value'[c] = LastLogged(c)'
               \/ value'[c] \in Empty /\ \E u \in Txs : pc'[u] = "done" /\ Clears(u, c)'
    <3>1. CASE value'[c] = value[c]
      <4>1. CASE value[c] = LastLogged(c)
        BY <1>5, <3>1, <4>1
      <4>2. CASE value[c] # LastLogged(c)
        <5>1. PICK u \in Txs : value[c] \in Empty /\ pc[u] = "done" /\ Clears(u, c)
          BY <4>2 DEF Logs, LogIsHistory
        <5>2. pc'[u] = "done" /\ Clears(u, c)'
          BY <1>4, <5>1
        <5>3. QED
          BY <3>1, <5>1, <5>2
      <4>3. QED
        BY <4>1, <4>2
    <3>2. CASE value'[c] # value[c]
      BY <3>2 DEF Clears, Is
    <3>3. QED
      BY <3>1, <3>2
  <2>3. QED
    BY <2>1, <2>2 DEF LogIsHistory
<1>9. QED
  BY <1>7, <1>8 DEF Logs

\* An edit that writes the field leaves an entry that starts where it had read.
LEMMA CommitLogs ==
  ASSUME IInv, Logs, NEW t \in Txs, Commit(t), Logged(t)
  PROVE  Logs'
<1> DEFINE e == job[t].entity
           n == Len(log[e])
<1> USE DEF IInv, LinkInv
<1>1. /\ pc[t] = "written" /\ pc'[t] = "done" /\ UNCHANGED <<job, was, before>>
      /\ \A u \in Txs \ {t} : pc'[u] = pc[u]
  BY DEF Commit, Goes, TypeOK
<1>2. Is(t, {"edit"}) /\ e \in Cards /\ Open(t)
  BY <1>1 DEF Logged, ChangesField, Writes, Open
<1>3. /\ value' = [value EXCEPT ![e] = job[t].field]
      /\ log' = [log EXCEPT ![e] = Append(log[e], Entry(t))]
  BY <1>2 DEF Commit, NewValue, Logged
<1>4. /\ n \in Nat /\ DOMAIN log[e] = 1..n
      /\ \A i \in DOMAIN log[e] : log[e][i].by \in Txs
      /\ n # 0 => n \in DOMAIN log[e] /\ Last(log[e]) = log[e][n] /\ log[e] # <<>>
      /\ log[e] # <<>> => n # 0
  <2>1. /\ Len(log[e]) \in Nat /\ DOMAIN log[e] = 1..Len(log[e])
        /\ \A i \in DOMAIN log[e] : log[e][i].by \in Txs
        /\ log[e] # <<>> => Len(log[e]) \in DOMAIN log[e]
        /\ log[e] = <<>> => Len(log[e]) = 0
        /\ Last(log[e]) = log[e][Len(log[e])]
    <3> HIDE DEF e
    <3>1. QED
      BY <1>2, LogTypes
  <2> HIDE DEF e
  <2>2. QED
    BY <2>1
<1>5. /\ DOMAIN log'[e] = 1..(n + 1) /\ Len(log'[e]) = n + 1
      /\ log'[e][n + 1] = Entry(t) /\ \A i \in 1..n : log'[e][i] = log[e][i]
      /\ log'[e] # <<>> /\ Last(log'[e]) = Entry(t)
      /\ \A c \in Cards \ {e} : log'[c] = log[c] /\ value'[c] = value[c]
      /\ value'[e] = job[t].field
  <2>1. log[e] \in Seq([by : Txs, from : Values, to : Values])
    BY <1>2 DEF TypeOK
  <2>2. log'[e] = Append(log[e], Entry(t))
    BY <1>2, <1>3 DEF TypeOK
  <2>3. /\ DOMAIN log'[e] = 1..(n + 1) /\ Len(log'[e]) = n + 1
        /\ log'[e][n + 1] = Entry(t) /\ \A i \in 1..n : log'[e][i] = log[e][i]
        /\ log'[e] # <<>>
    BY <2>1, <2>2
  <2>4. Last(log'[e]) = Entry(t)
    BY <2>3 DEF Last
  <2>5. QED
    BY <1>2, <1>3, <2>3, <2>4 DEF TypeOK
<1>6. Entry(t).by = t /\ Entry(t).from = was[t] /\ Entry(t).to = job[t].field
  BY DEF Entry
<1> HIDE DEF n, e
<1>7. LogInv'
  <2>1. ASSUME NEW c \in Cards, NEW i \in DOMAIN log'[c] PROVE pc'[log'[c][i].by] = "done"
    <3>1. CASE c = e /\ i = n + 1
      BY <1>1, <1>5, <1>6, <3>1
    <3>2. CASE c = e /\ i # n + 1
      <4>1. i \in 1..n
        BY <1>4, <1>5, <3>2, <2>1
      <4>2. log'[c][i] = log[c][i] /\ i \in DOMAIN log[c] /\ log[c][i].by \in Txs
        BY <1>4, <1>5, <3>2, <4>1
      <4>3. QED
        BY <1>1, <4>2 DEF Logs, LogInv
    <3>3. CASE c # e
      <4>1. log'[c] = log[c] /\ log[c][i].by \in Txs
        BY <1>5, <2>1, <3>3, LogTypes
      <4>2. QED
        BY <1>1, <2>1, <4>1 DEF Logs, LogInv
    <3>4. QED
      BY <3>1, <3>2, <3>3
  <2>2. ASSUME NEW u \in Txs, NEW c \in Cards,
               Open(u)', Is(u, {"edit"})', job'[u].entity = c
        PROVE  \/ was'[u] = LastLogged(c)'
               \/ log'[c] # <<>> /\ Last(log'[c]).by \notin before'[u]
               \/ was'[u] \in Empty /\ \E v \in before'[u] : Clears(v, c)'
    <3>1. u # t /\ Open(u) /\ Is(u, {"edit"}) /\ job[u].entity = c
      BY <1>1, <2>2 DEF Open, Is
    <3>2. t \notin before[u]
      BY <1>1 DEF OnlyDoneBefore
    <3>3. CASE c = e
      BY <1>1, <1>5, <1>6, <3>2, <3>3
    <3>4. CASE c # e
      <4>1. \/ was[u] = LastLogged(c)
            \/ log[c] # <<>> /\ Last(log[c]).by \notin before[u]
            \/ was[u] \in Empty /\ \E v \in before[u] : Clears(v, c)
        BY <3>1 DEF Logs, LogInv
      <4>2. LastLogged(c)' = LastLogged(c) /\ log'[c] = log[c]
        BY <1>5, <3>4 DEF LastLogged
      <4>3. \A v \in before[u] : Clears(v, c) => Clears(v, c)'
        BY <1>1 DEF Clears, Is
      <4>4. QED
        BY <1>1, <4>1, <4>2, <4>3
    <3>5. QED
      BY <3>3, <3>4
  <2>3. QED
    BY <2>1, <2>2 DEF LogInv
<1>8. LogIsHistory'
  <2>1. ASSUME NEW c \in Cards
        PROVE  \/ value'[c] = LastLogged(c)'
               \/ value'[c] \in Empty /\ \E u \in Txs : pc'[u] = "done" /\ Clears(u, c)'
    <3>1. CASE c = e
      BY <1>5, <1>6, <3>1 DEF LastLogged
    <3>2. CASE c # e
      <4>1. value'[c] = value[c] /\ LastLogged(c)' = LastLogged(c)
        BY <1>5, <3>2 DEF LastLogged
      <4>2. \A u \in Txs : pc[u] = "done" /\ Clears(u, c) => pc'[u] = "done" /\ Clears(u, c)'
        BY <1>1 DEF Clears, Is
      <4>3. \/ value[c] = LastLogged(c)
            \/ value[c] \in Empty /\ \E u \in Txs : pc[u] = "done" /\ Clears(u, c)
        BY DEF Logs, LogIsHistory
      <4>4. QED
        BY <4>1, <4>2, <4>3
    <3>3. QED
      BY <3>1, <3>2
  <2>2. ASSUME NEW c \in Cards, NEW i \in 2..Len(log'[c])
        PROVE  \/ log'[c][i].from = log'[c][i - 1].to
               \/ Overlap(log[c][i].by, log[c][i - 1].by)'
               \/ /\ log'[c][i].from \in Empty
                  /\ \E u \in before'[log'[c][i].by] : Clears(u, c)'
    <3>0. \A u \in Txs : Clears(u, c)' <=> Clears(u, c)
      BY <1>1 DEF Clears, Is
    <3>1. CASE c # e \/ i # n + 1
      <4>1. /\ i \in 2..Len(log[c])
            /\ log'[c][i] = log[c][i] /\ log'[c][i - 1] = log[c][i - 1]
        <5>1. CASE c # e
          BY <1>5, <2>2, <5>1
        <5>2. CASE c = e /\ i # n + 1
          <6>1. i \in 2..n /\ i \in 1..n /\ i - 1 \in 1..n
            BY <1>4, <1>5, <2>2, <5>2
          <6>2. i \in 2..Len(log[c])
            BY <5>2, <6>1 DEF n
          <6>3. QED
            BY <1>5, <5>2, <6>1, <6>2
        <5>3. QED
          BY <3>1, <5>1, <5>2
      <4>2. \/ log[c][i].from = log[c][i - 1].to
            \/ Overlap(log[c][i].by, log[c][i - 1].by)
            \/ /\ log[c][i].from \in Empty
               /\ \E u \in before[log[c][i].by] : Clears(u, c)
        BY <4>1 DEF Logs, LogIsHistory
      <4>3. log[c][i].by \in Txs
        BY <4>1, LogTypes
      <4>4. before[log[c][i].by] \subseteq Txs
        BY <4>3 DEF TypeOK
      <4>5. QED
        BY <1>1, <3>0, <4>1, <4>2, <4>4 DEF Overlap
    <3>3. CASE c = e /\ i = n + 1
      <4>1. n # 0 /\ n \in 1..n /\ i - 1 = n
        BY <1>4, <1>5, <2>2, <3>3
      <4>2. log'[c][i - 1] = Last(log[e]) /\ log'[c][i] = Entry(t) /\ log[e] # <<>>
        BY <1>4, <1>5, <3>3, <4>1
      <4>3. \/ was[t] = LastLogged(e)
            \/ log[e] # <<>> /\ Last(log[e]).by \notin before[t]
            \/ was[t] \in Empty /\ \E u \in before[t] : Clears(u, e)
        BY <1>2 DEF Logs, LogInv, e
      <4>4. CASE was[t] = LastLogged(e)
        BY <1>6, <4>2, <4>4 DEF LastLogged
      <4>5. CASE Last(log[e]).by \notin before[t]
        <5>2. Last(log[e]).by \in Txs
          BY <1>4, <4>1
        <5>3. t \notin before[Last(log[e]).by]
          BY <1>1, <5>2 DEF OnlyDoneBefore
        <5>4. QED
          BY <1>1, <1>6, <4>2, <4>5, <5>3 DEF Overlap
      <4>6. CASE was[t] \in Empty /\ \E u \in before[t] : Clears(u, e)
        <5>1. PICK u \in before[t] : Clears(u, e)
          BY <4>6
        <5>2. u \in before'[t] /\ Clears(u, c)'
          BY <1>1, <3>0, <3>3, <5>1 DEF TypeOK
        <5>3. QED
          BY <1>6, <4>2, <4>6, <5>2
      <4>7. QED
        BY <4>3, <4>4, <4>5, <4>6
    <3>4. QED
      BY <3>1, <3>3
  <2>3. QED
    BY <2>1, <2>2 DEF LogIsHistory
<1>9. QED
  BY <1>7, <1>8 DEF Logs

LEMMA LogsNext ==
  ASSUME IInv, Logs, [Next]_vars
  PROVE  Logs'
<1> USE DEF IInv
<1> USE DEF LinkInv
<1>1. ASSUME UNCHANGED <<dbVars, pc, job, was, before>> PROVE Logs'
  BY <1>1 DEF dbVars, Logs, LogInv, LogIsHistory, LastLogged, Clears, Open, Is, Overlap
<1>2. ASSUME NEW f \in Files, Put(f) \/ \E p \in People : RequestUpload(f, p) PROVE Logs'
  BY <1>1, <1>2 DEF Put, RequestUpload
<1>3. ASSUME NEW t \in Txs, NEW j \in Save, BeginSave(t, j) PROVE Logs'
  <2>1. /\ pc[t] # "done" /\ UNCHANGED <<value, log>> /\ job'[t] = j
        /\ j.entity \in Cards => was'[t] = value[j.entity]
        /\ before'[t] = {u \in Txs : pc[u] = "done"}
        /\ \A u \in Txs \ {t} : /\ pc'[u] = pc[u] /\ job'[u] = job[u]
                               /\ was'[u] = was[u] /\ before'[u] = before[u]
    BY <1>3 DEF BeginSave, Goes, TypeOK, dbVars
  <2>2. QED
    BY <2>1, LogsStay
<1>4. ASSUME NEW t \in Txs, NEW r \in rows, BeginUnlink(t, r) PROVE Logs'
  <2>1. /\ pc[t] # "done" /\ UNCHANGED <<value, log>> /\ ~ Is(t, {"edit"})'
        /\ \A u \in Txs \ {t} : /\ pc'[u] = pc[u] /\ job'[u] = job[u]
                               /\ was'[u] = was[u] /\ before'[u] = before[u]
    BY <1>4 DEF BeginUnlink, Goes, TypeOK, dbVars, Is
  <2>2. QED
    BY <2>1, LogsStay
<1>5. ASSUME NEW t \in Txs,
             \/ UpdateRow(t) \/ NothingToUpdate(t) \/ ReadLinks(t) \/ RemoveLinks(t)
             \/ Commit(t) /\ ~ Logged(t)
      PROVE  Logs'
  <2>1. /\ Open(t) /\ pc[t] # "done" /\ UNCHANGED <<job, was, before>>
        /\ \A u \in Txs \ {t} : pc'[u] = pc[u]
    BY <1>5 DEF UpdateRow, NothingToUpdate, ReadLinks, RemoveLinks, Commit, Goes, Open,
                TypeOK, dbVars
  <2>2. /\ UNCHANGED log
        /\ \A c \in Cards :
             \/ value'[c] = value[c]
             \/ /\ value'[c] \in Empty /\ pc'[t] = "done"
                /\ Is(t, {"edit"})' /\ job'[t].entity = c /\ job'[t].field \in Empty
    <3>1. CASE Commit(t) /\ ~ Logged(t) /\ ~ ChangesField(t)
      BY <3>1 DEF Commit, NewValue, TypeOK
    <3>2. CASE Commit(t) /\ ~ Logged(t) /\ ChangesField(t)
      <4>1. /\ Is(t, {"edit"}) /\ job[t].entity \in Cards /\ job[t].field \in Empty
            /\ job' = job /\ pc'[t] = "done" /\ log' = log
        BY <3>2, SaveOfWriter DEF Commit, Goes, TypeOK, Logged, ChangesField, Writes
      <4>2. value' = [value EXCEPT ![job[t].entity] = job[t].field]
        BY <3>2, <4>1 DEF Commit, NewValue
      <4>3. QED
        BY <4>1, <4>2 DEF TypeOK, Is
    <3>3. CASE UpdateRow(t) \/ NothingToUpdate(t) \/ ReadLinks(t) \/ RemoveLinks(t)
      BY <3>3 DEF UpdateRow, NothingToUpdate, ReadLinks, RemoveLinks, dbVars
    <3>4. QED
      BY <1>5, <3>1, <3>2, <3>3
  <2>3. QED
    BY <2>1, <2>2, LogsStay
<1>6. ASSUME NEW t \in Txs, Commit(t), Logged(t) PROVE Logs'
  BY <1>6, CommitLogs
<1>7. ASSUME NEW t \in Txs, Invalid(t) \/ NotFound(t) \/ RollBack(t) PROVE Logs'
  <2>1. Fail(t) /\ pc[t] # "done"
    BY <1>7 DEF Invalid, NotFound, RollBack
  <2>2. /\ UNCHANGED <<value, log>> /\ ~ Open(t)'
        /\ \A u \in Txs \ {t} : /\ pc'[u] = pc[u] /\ job'[u] = job[u]
                               /\ was'[u] = was[u] /\ before'[u] = before[u]
    BY <2>1 DEF Fail, TypeOK, dbVars, Open
  <2>3. QED
    BY <2>1, <2>2, LogsStay
<1>8. CASE UNCHANGED vars
  BY <1>1, <1>8 DEF vars
<1>9. QED
  BY <1>2, <1>3, <1>4, <1>5, <1>6, <1>7, <1>8 DEF Next

\* The log of a card ends in its value unless an edit has emptied the text, and
\* an entry starts elsewhere than where the one before ended only if the two
\* edits overlapped or the text had been emptied before.
THEOREM LogsAreHistory == Spec => []LogIsHistory
<1>1. Init => Logs
  BY DEF Init, Logs, LogInv, LogIsHistory, LastLogged, Open
<1>2. Logs => LogIsHistory
  BY DEF Logs
<1>3. IInv /\ Logs /\ [Next]_vars => Logs'
  BY LogsNext
<1>4. QED
  BY <1>1, <1>2, <1>3, InductiveInvariant, PTL DEF Spec

-----------------------------------------------------------------------------
(* What a successful edit leaves.                                          *)

\* The command u takes the file f off the entity e.
Removes(u, e, f) ==
  \/ Is(u, {"unlink"}) /\ job[u].link.entity = e /\ job[u].link.file = f
  \/ Is(u, {"edit"}) /\ job[u].entity = e /\ f \notin Asked(u)

\* Those that have succeeded, but not before t began.
Others(t) == {u \in Txs \ (before[t] \union {t}) : pc[u] = "done"}

\* What makes EditLasts inductive: what a command has seen is what it is about,
\* comes from commands that succeeded and, in an edit, is still linked unless
\* somebody has removed it since the edit began; and what it is going to delete is
\* what it has to, of what is there.
SeenInv ==
  \A t \in Txs :
    /\ ~ Open(t) => seen[t] = {}
    /\ pc[t] # "written" => deleted[t] = {}
    /\ deleted[t] \subseteq ToRemove(t)
    /\ pc[t] = "written" => ToRemove(t) \intersect rows \subseteq deleted[t]
    /\ \A r \in seen[t] :
         /\ pc[r.by] = "done"
         /\ \/ Is(t, {"edit"}) /\ r.entity = job[t].entity
            \/ Is(t, {"unlink"}) /\ r = job[t].link
         /\ Is(t, {"edit"}) /\ r \notin rows =>
              \E u \in Others(t) : Removes(u, r.entity, r.file)

Lasts == SeenInv /\ EditLasts

\* A list has a first place for each of its files.
LEMMA FirstPlaceOf ==
  ASSUME NEW list \in Lists, NEW i \in DOMAIN list
  PROVE  \E k \in FirstPlaces(list) : list[k] = list[i]
<1> DEFINE Places == {k \in DOMAIN list : list[k] = list[i]}
           Less == {p \in Nat \X Nat : p[1] < p[2]}
<1>1. DOMAIN list \subseteq Nat /\ \A k \in DOMAIN list : 1..(k - 1) \subseteq DOMAIN list
  <2>1. PICK n \in 0..MaxFiles : list \in [1..n -> Files]
    BY DEF Lists
  <2>2. QED
    BY <2>1
<1>2. Places \subseteq Nat /\ Places # {}
  BY <1>1
<1>3. IsWellFoundedOn(Less, Nat)
  BY NatLessThanWellFounded DEF OpToRel
<1>4. PICK k \in Places : \A m \in Places : <<m, k>> \notin Less
  <2> HIDE DEF Places, Less
  <2>1. QED
    BY <1>2, <1>3, WFMin, Zenon
<1>5. \A m \in 1..(k - 1) : list[m] # list[k]
  <2>1. SUFFICES ASSUME NEW m \in 1..(k - 1), list[m] = list[k] PROVE FALSE
    OBVIOUS
  <2>2. m \in Places /\ k \in Nat
    BY <1>1, <2>1
  <2>3. m \in Nat /\ m < k
    BY <1>1, <2>1, <2>2
  <2>4. QED
    BY <1>4, <2>2, <2>3
<1>6. QED
  BY <1>5 DEF FirstPlaces

\* A step of t that ends nothing and changes no link: the other commands keep what
\* they have, and so does the success of the edits.
LEMMA OthersLast ==
  ASSUME IInv, Lasts, NEW t \in Txs, pc[t] # "done", pc'[t] # "done", rows' = rows,
         \A u \in Txs \ {t} :
           /\ pc'[u] = pc[u] /\ job'[u] = job[u] /\ before'[u] = before[u]
           /\ seen'[u] = seen[u] /\ deleted'[u] = deleted[u],
         /\ ~ Open(t)' => seen'[t] = {}
         /\ pc'[t] # "written" => deleted'[t] = {}
         /\ deleted'[t] \subseteq ToRemove(t)'
         /\ pc'[t] = "written" => ToRemove(t)' \intersect rows \subseteq deleted'[t]
         /\ \A r \in seen'[t] :
              /\ pc[r.by] = "done" /\ r.by \in Txs
              /\ \/ Is(t, {"edit"})' /\ r.entity = job'[t].entity
                 \/ Is(t, {"unlink"})' /\ r = job'[t].link
              /\ Is(t, {"edit"})' /\ r \notin rows =>
                   /\ before'[t] = before[t]
                   /\ \E u \in Others(t) : Removes(u, r.entity, r.file)
  PROVE  Lasts'
<1> USE DEF IInv
<1>1. \A u \in Txs \ {t} :
        /\ Open(u)' <=> Open(u) /\ ToRemove(u)' = ToRemove(u) /\ Asked(u)' = Asked(u)
        /\ \A e, f : Removes(u, e, f)' <=> Removes(u, e, f)
  BY DEF Open, ToRemove, Is, Asked, Removes
<1>2. \A u \in Txs \ {t} : Others(u)' = Others(u) /\ t \notin Others(u)
  BY DEF Others
<1>3. before'[t] = before[t] => Others(t)' = Others(t) /\ t \notin Others(t)
  BY DEF Others
<1>4. \A u \in Txs : Others(u) \subseteq Txs
  BY DEF Others
<1>5. ASSUME NEW u \in Txs, NEW r \in seen'[u]
      PROVE  /\ pc'[r.by] = "done"
             /\ \/ Is(u, {"edit"})' /\ r.entity = job'[u].entity
                \/ Is(u, {"unlink"})' /\ r = job'[u].link
             /\ Is(u, {"edit"})' /\ r \notin rows =>
                  \E x \in Others(u)' : x # t /\ Removes(x, r.entity, r.file)
  <2>1. CASE u = t
    <3>1. pc'[r.by] = "done"
      BY <1>5, <2>1
    <3>2. Is(t, {"edit"})' /\ r \notin rows =>
            \E x \in Others(t)' : x # t /\ Removes(x, r.entity, r.file)
      BY <1>3, <1>5, <2>1
    <3>3. QED
      BY <1>5, <2>1, <3>1, <3>2
  <2>2. CASE u # t
    <3>1. r \in seen[u] /\ r.by \in Txs
      BY <1>5, <2>2 DEF TypeOK, Link
    <3>2. pc'[r.by] = "done"
      BY <3>1 DEF Lasts, SeenInv
    <3>3. Is(u, {"edit"})' /\ r \notin rows =>
            \E x \in Others(u)' : x # t /\ Removes(x, r.entity, r.file)
      BY <1>2, <2>2, <3>1 DEF Lasts, SeenInv, Is
    <3>4. QED
      BY <2>2, <3>1, <3>2, <3>3 DEF Lasts, SeenInv, Is
  <2>3. QED
    BY <2>1, <2>2
<1>6. SeenInv'
  <2>1. ASSUME NEW u \in Txs \ {t}
        PROVE  /\ ~ Open(u) => seen[u] = {}
               /\ pc[u] # "written" => deleted[u] = {}
               /\ deleted[u] \subseteq ToRemove(u)
               /\ pc[u] = "written" => ToRemove(u) \intersect rows \subseteq deleted[u]
    BY DEF Lasts, SeenInv
  <2>2. ASSUME NEW u \in Txs
        PROVE  /\ ~ Open(u)' => seen'[u] = {}
               /\ pc'[u] # "written" => deleted'[u] = {}
               /\ deleted'[u] \subseteq ToRemove(u)'
               /\ pc'[u] = "written" =>
                    ToRemove(u)' \intersect rows' \subseteq deleted'[u]
    <3>1. CASE u = t
      BY <3>1 DEF Open, ToRemove, Is, Asked
    <3>2. CASE u # t
      BY <2>1, <3>2 DEF Open, ToRemove, Is, Asked
    <3>3. QED
      BY <3>1, <3>2
  <2>3. \A u \in Txs : \A x \in Others(u)' : x \in Txs
    BY DEF Others
  <2>4. QED
    BY <1>1, <1>5, <2>2, <2>3 DEF SeenInv
<1>7. ASSUME NEW u \in Txs, pc[u] = "done", Is(u, {"edit"})
      PROVE  /\ \A f \in Asked(u) :
                  \/ \E r \in rows : r.entity = job[u].entity /\ r.file = f
                  \/ \E x \in Others(u) : Removes(x, job[u].entity, f)
             /\ \A r \in rows : r.entity = job[u].entity /\ r.file \notin Asked(u)
                  => r.by \in Others(u)
  BY <1>7 DEF Lasts, EditLasts, Others, Removes
<1>8. ASSUME NEW u \in Txs, pc'[u] = "done", Is(u, {"edit"})'
      PROVE  /\ u \in Txs \ {t} /\ pc[u] = "done" /\ job'[u] = job[u]
             /\ Is(u, {"edit"}) /\ Asked(u)' = Asked(u)
             /\ Others(u)' = Others(u) /\ Others(u) \subseteq Txs \ {t}
  BY <1>8 DEF Is, Asked, Others
<1>9. EditLasts'
  <2>1. ASSUME NEW u \in Txs, pc'[u] = "done", Is(u, {"edit"})', NEW f \in Asked(u)',
               \A r \in rows' : r.entity = job'[u].entity => r.file # f
        PROVE  \E x \in Others(u)' : Removes(x, job[u].entity, f)'
    <3>1. f \in Asked(u) /\ \A r \in rows : r.entity = job[u].entity => r.file # f
      BY <1>8, <2>1
    <3>2. PICK x \in Others(u) : Removes(x, job[u].entity, f)
      BY <1>7, <1>8, <2>1, <3>1
    <3>3. x \in Others(u)' /\ x \in Txs \ {t} /\ job'[x] = job[x] /\ job'[u] = job[u]
      BY <1>8, <2>1
    <3>4. Removes(x, job[u].entity, f)'
      BY <3>2, <3>3 DEF Removes, Is, Asked
    <3>5. QED
      BY <3>3, <3>4
  <2>2. ASSUME NEW u \in Txs, pc'[u] = "done", Is(u, {"edit"})', NEW r \in rows',
               r.entity = job'[u].entity, r.file \notin Asked(u)'
        PROVE  r.by \in Others(u)'
    BY <1>7, <1>8, <2>2
  <2>3. QED
    BY <2>1, <2>2 DEF EditLasts, Others, Removes
<1>10. QED
  BY <1>6, <1>9 DEF Lasts

\* The commit of a command removes what it must, which is a reason for whoever has
\* not begun after it, and leaves what it says.
LEMMA CommitLasts ==
  ASSUME IInv, Lasts, NEW t \in Txs, Commit(t)
  PROVE  Lasts'
<1> USE DEF IInv
<1>1. /\ pc[t] = "written" /\ pc'[t] = "done" /\ UNCHANGED <<job, before>>
      /\ seen'[t] = {} /\ deleted'[t] = {}
      /\ \A u \in Txs \ {t} :
           pc'[u] = pc[u] /\ seen'[u] = seen[u] /\ deleted'[u] = deleted[u]
      /\ rows' = (rows \ deleted[t]) \union Inserted(t)
  BY DEF Commit, Goes, TypeOK
<1>2. /\ \A u : Asked(u)' = Asked(u) /\ (Is(u, {"edit"})' <=> Is(u, {"edit"}))
                /\ (Is(u, {"unlink"})' <=> Is(u, {"unlink"}))
      /\ \A u, e, f : Removes(u, e, f)' <=> Removes(u, e, f)
      /\ \A u \in Txs \ {t} : /\ ToRemove(u)' = ToRemove(u)
                              /\ Open(u)' <=> Open(u)
  BY <1>1 DEF Asked, Is, Removes, ToRemove, Open
<1>3. /\ \A u \in Txs : Others(u) \subseteq Others(u)'
      /\ \A u \in Txs \ {t} : t \in Others(u)'
  <2>1. \A u \in Txs : t \notin before[u]
    BY <1>1 DEF LinkInv, OnlyDoneBefore
  <2>2. QED
    BY <1>1, <2>1 DEF Others
<1>4. \A r \in rows : r \in Link /\ r.by \in Txs \ {t} /\ pc[r.by] = "done"
  BY <1>1 DEF LinkInv, RowsOfDone, TypeOK, Link
<1>5. ASSUME NEW r \in rows, r \notin rows' PROVE Removes(t, r.entity, r.file)
  <2>1. r \in deleted[t] /\ r \in ToRemove(t) /\ r \in seen[t]
    BY <1>1, <1>5 DEF Lasts, SeenInv, ToRemove
  <2>2. \/ Is(t, {"edit"}) /\ r.entity = job[t].entity
        \/ Is(t, {"unlink"}) /\ r = job[t].link
    BY <2>1 DEF Lasts, SeenInv
  <2>3. Is(t, {"edit"}) => r.file \notin Asked(t)
    BY <2>1 DEF ToRemove, Is
  <2>4. QED
    BY <2>2, <2>3 DEF Removes
<1>6. \A r \in Inserted(t) : r.by = t /\ r.file \in ToAdd(t) /\ r.file \in Asked(t)
  BY DEF Inserted, ToAdd
<1>7. ASSUME NEW u \in Txs \ {t}, NEW r \in seen[u]
      PROVE  /\ pc'[r.by] = "done"
             /\ \/ Is(u, {"edit"}) /\ r.entity = job[u].entity
                \/ Is(u, {"unlink"}) /\ r = job[u].link
             /\ Is(u, {"edit"}) /\ r \notin rows' =>
                  \E x \in Others(u)' : Removes(x, r.entity, r.file)
  <2>1. pc[r.by] = "done" /\ r.by \in Txs
    BY <1>7 DEF Lasts, SeenInv, TypeOK, Link
  <2>2. pc'[r.by] = "done"
    BY <1>1, <2>1
  <2>3. ASSUME Is(u, {"edit"}), r \notin rows'
        PROVE  \E x \in Others(u)' : Removes(x, r.entity, r.file)
    <3>1. CASE r \in rows
      BY <1>3, <1>5, <2>3, <3>1
    <3>2. CASE r \notin rows
      <4>1. \E x \in Others(u) : Removes(x, r.entity, r.file)
        BY <1>7, <2>3, <3>2 DEF Lasts, SeenInv
      <4>2. QED
        BY <1>3, <4>1
    <3>3. QED
      BY <3>1, <3>2
  <2>4. QED
    BY <1>7, <2>2, <2>3 DEF Lasts, SeenInv
<1>8. ASSUME NEW u \in Txs \ {t}, pc[u] = "written"
      PROVE  ToRemove(u) \intersect rows' \subseteq deleted[u]
  <2>1. \A r \in ToRemove(u) : pc[r.by] = "done"
    BY DEF Lasts, SeenInv, ToRemove
  <2>2. ToRemove(u) \intersect rows' \subseteq ToRemove(u) \intersect rows
    BY <1>1, <1>6, <2>1
  <2>3. QED
    BY <1>8, <2>2 DEF Lasts, SeenInv
<1>9. SeenInv'
  <2>1. \A u \in Txs \ {t} :
          /\ ~ Open(u) => seen[u] = {}
          /\ pc[u] # "written" => deleted[u] = {}
          /\ deleted[u] \subseteq ToRemove(u)
    BY DEF Lasts, SeenInv
  <2>2. QED
    BY <1>1, <1>2, <1>7, <1>8, <2>1 DEF SeenInv
<1>10. ASSUME NEW u \in Txs, pc'[u] = "done", Is(u, {"edit"}), NEW f \in Asked(u)
       PROVE  \/ \E r \in rows' : r.entity = job[u].entity /\ r.file = f
              \/ \E x \in Others(u)' : Removes(x, job[u].entity, f)
  <2>1. CASE u # t
    <3>1. \/ \E r \in rows : r.entity = job[u].entity /\ r.file = f
          \/ \E x \in Others(u) : Removes(x, job[u].entity, f)
      BY <1>1, <1>10, <2>1 DEF Lasts, EditLasts, Others, Removes
    <3>2. QED
      BY <1>3, <1>5, <2>1, <3>1
  <2>2. CASE u = t /\ f \in FilesOf(seen[t])
    <3>1. PICK r \in seen[t] : r.file = f
      BY <2>2 DEF FilesOf
    <3>2. r.entity = job[t].entity /\ r \notin ToRemove(t) /\ r \notin deleted[t]
      BY <1>10, <2>2, <3>1 DEF Lasts, SeenInv, ToRemove, Is
    <3>3. CASE r \in rows
      BY <1>1, <2>2, <3>1, <3>2, <3>3
    <3>4. CASE r \notin rows
      <4>1. \E x \in Others(t) : Removes(x, r.entity, r.file)
        BY <1>10, <2>2, <3>4 DEF Lasts, SeenInv
      <4>2. QED
        BY <1>3, <2>2, <3>1, <3>2, <4>1
    <3>5. QED
      BY <3>3, <3>4
  <2>3. CASE u = t /\ f \notin FilesOf(seen[t])
    <3>1. ~ Is(t, {"unlink"}) /\ f \in ToAdd(t)
      BY <1>10, <2>3 DEF ToAdd, Is
    <3>2. job[t] \in Save /\ f \in {job[t].files[i] : i \in DOMAIN job[t].files}
      BY <1>10, <2>3, AskedFiles DEF Is
    <3>3. PICK i \in DOMAIN job[t].files : job[t].files[i] = f
      BY <3>2
    <3>4. PICK k \in FirstPlaces(job[t].files) : job[t].files[k] = f
      BY <3>2, <3>3, FirstPlaceOf DEF Save
    <3>5. \E r \in Inserted(t) : r.entity = job[t].entity /\ r.file = f
      <4> DEFINE new == [by |-> t, pos |-> k, file |-> job[t].files[k],
                         entity |-> job[t].entity]
      <4>1. new \in Inserted(t)
        BY <3>1, <3>4 DEF Inserted
      <4>2. QED
        BY <3>4, <4>1
    <3>6. QED
      BY <1>1, <2>3, <3>5
  <2>4. QED
    BY <2>1, <2>2, <2>3
<1>11. ASSUME NEW u \in Txs, pc'[u] = "done", Is(u, {"edit"}), NEW r \in rows',
              r.entity = job[u].entity, r.file \notin Asked(u)
       PROVE  r.by \in Others(u)'
  <2>1. CASE u # t /\ r \in rows
    <3>1. r.by \in Others(u)
      BY <1>1, <1>11, <2>1 DEF Lasts, EditLasts, Others
    <3>2. QED
      BY <1>3, <3>1
  <2>2. CASE u # t /\ r \in Inserted(t)
    BY <1>3, <1>6, <2>2
  <2>3. CASE u = t /\ r \in rows
    <3>1. r \notin seen[t]
      <4>1. SUFFICES ASSUME r \in seen[t] PROVE FALSE
        OBVIOUS
      <4>2. r \in ToRemove(t) \intersect rows
        BY <1>11, <2>3, <4>1 DEF ToRemove, Is
      <4>3. r \in deleted[t] /\ r \notin Inserted(t)
        BY <1>1, <1>4, <1>6, <2>3, <4>2 DEF Lasts, SeenInv
      <4>4. QED
        BY <1>1, <4>3
    <3>2. Overlap(r.by, t)
      BY <1>1, <1>11, <2>3, <3>1 DEF LinkInv, NothingUnseen, Reading
    <3>3. r.by \in Others(t)
      BY <1>4, <2>3, <3>2 DEF Overlap, Others
    <3>4. QED
      BY <1>3, <2>3, <3>3
  <2>4. CASE u = t /\ r \in Inserted(t)
    BY <1>6, <1>11, <2>4
  <2>5. QED
    BY <1>1, <2>1, <2>2, <2>3, <2>4
<1>12. EditLasts'
  BY <1>1, <1>2, <1>10, <1>11 DEF EditLasts, Others, Removes
<1>13. QED
  BY <1>9, <1>12 DEF Lasts

LEMMA LastsNext ==
  ASSUME IInv, Lasts, [Next]_vars
  PROVE  Lasts'
<1> USE DEF IInv
<1>1. ASSUME UNCHANGED <<rows, pc, job, seen, deleted, before>> PROVE Lasts'
  BY <1>1 DEF Lasts, SeenInv, EditLasts, Open, ToRemove, Is, Asked, Others, Removes
<1>2. ASSUME NEW f \in Files, Put(f) \/ \E p \in People : RequestUpload(f, p) PROVE Lasts'
  BY <1>1, <1>2 DEF Put, RequestUpload, dbVars
<1>3. ASSUME NEW t \in Txs, NEW j \in Save, BeginSave(t, j) PROVE Lasts'
  <2>1. /\ pc[t] = "idle" /\ pc'[t] = "begun" /\ UNCHANGED <<rows, seen, deleted>>
        /\ \A u \in Txs \ {t} : /\ pc'[u] = pc[u] /\ job'[u] = job[u]
                               /\ before'[u] = before[u]
    BY <1>3 DEF BeginSave, Goes, TypeOK, dbVars
  <2>2. seen[t] = {} /\ deleted[t] = {}
    BY <2>1 DEF Lasts, SeenInv, Open
  <2>3. QED
    BY <2>1, <2>2, OthersLast
<1>4. ASSUME NEW t \in Txs, NEW r \in rows, BeginUnlink(t, r) PROVE Lasts'
  <2>1. /\ pc[t] = "idle" /\ pc'[t] = "read" /\ UNCHANGED <<rows, deleted>>
        /\ seen'[t] = {r} /\ job'[t].cmd = "unlink" /\ job'[t].link = r
        /\ \A u \in Txs \ {t} : /\ pc'[u] = pc[u] /\ job'[u] = job[u]
                               /\ before'[u] = before[u] /\ seen'[u] = seen[u]
    BY <1>4 DEF BeginUnlink, Goes, TypeOK, dbVars
  <2>2. /\ deleted[t] = {} /\ Open(t)' /\ pc[r.by] = "done" /\ r.by \in Txs
        /\ Is(t, {"unlink"})' /\ ~ Is(t, {"edit"})'
    BY <2>1 DEF Lasts, SeenInv, Open, Is, LinkInv, RowsOfDone, TypeOK, Link
  <2>3. QED
    BY <2>1, <2>2, OthersLast
<1>5. ASSUME NEW t \in Txs, UpdateRow(t) \/ NothingToUpdate(t) PROVE Lasts'
  <2>1. /\ pc[t] = "begun" /\ pc'[t] = "updated"
        /\ UNCHANGED <<rows, job, seen, deleted, before>>
        /\ \A u \in Txs \ {t} : pc'[u] = pc[u]
    BY <1>5 DEF UpdateRow, NothingToUpdate, Goes, TypeOK, dbVars
  <2>2. deleted[t] = {}
    BY <2>1 DEF Lasts, SeenInv
  <2>3. /\ Open(t)' /\ (Is(t, {"edit"})' <=> Is(t, {"edit"}))
        /\ (Is(t, {"unlink"})' <=> Is(t, {"unlink"}))
    BY <2>1 DEF Open, Is
  <2>4. \A r \in seen[t] :
          /\ pc[r.by] = "done" /\ r.by \in Txs
          /\ \/ Is(t, {"edit"}) /\ r.entity = job[t].entity
             \/ Is(t, {"unlink"}) /\ r = job[t].link
          /\ Is(t, {"edit"}) /\ r \notin rows =>
               \E u \in Others(t) : Removes(u, r.entity, r.file)
    BY DEF Lasts, SeenInv, TypeOK, Link
  <2>5. QED
    BY <2>1, <2>2, <2>3, <2>4, OthersLast
<1>6. ASSUME NEW t \in Txs, ReadLinks(t) PROVE Lasts'
  <2>1. /\ pc[t] = "updated" /\ pc'[t] = "read" /\ UNCHANGED <<rows, job, deleted, before>>
        /\ \A u \in Txs \ {t} : pc'[u] = pc[u] /\ seen'[u] = seen[u]
        /\ \A r \in seen'[t] : r \in rows /\ Is(t, {"edit"}) /\ r.entity = job[t].entity
    BY <1>6 DEF ReadLinks, Goes, TypeOK, dbVars
  <2>2. deleted[t] = {}
    BY <2>1 DEF Lasts, SeenInv
  <2>3. Open(t)' /\ (Is(t, {"edit"})' <=> Is(t, {"edit"}))
    BY <2>1 DEF Open, Is
  <2>4. \A r \in rows : r.by \in Txs /\ pc[r.by] = "done"
    BY DEF LinkInv, RowsOfDone, TypeOK, Link
  <2>5. QED
    BY <2>1, <2>2, <2>3, <2>4, OthersLast
<1>7. ASSUME NEW t \in Txs, RemoveLinks(t) PROVE Lasts'
  <2>1. /\ pc[t] = "read" /\ pc'[t] = "written" /\ UNCHANGED <<rows, job, seen, before>>
        /\ \A u \in Txs \ {t} : pc'[u] = pc[u] /\ deleted'[u] = deleted[u]
        /\ deleted'[t] = ToRemove(t) \intersect rows
    BY <1>7 DEF RemoveLinks, Goes, TypeOK, dbVars
  <2>2. /\ Open(t)' /\ \A r \in seen[t] : r.by \in Txs
        /\ ToRemove(t)' = ToRemove(t)
        /\ \A r \in seen[t] :
             /\ pc[r.by] = "done"
             /\ \/ Is(t, {"edit"})' /\ r.entity = job[t].entity
                \/ Is(t, {"unlink"})' /\ r = job[t].link
             /\ Is(t, {"edit"})' /\ r \notin rows =>
                  \E u \in Others(t) : Removes(u, r.entity, r.file)
    BY <2>1 DEF Lasts, SeenInv, Open, Is, TypeOK, Link, ToRemove, Asked
  <2>3. QED
    BY <2>1, <2>2, OthersLast
<1>8. ASSUME NEW t \in Txs, Commit(t) PROVE Lasts'
  BY <1>8, CommitLasts
<1>9. ASSUME NEW t \in Txs, Invalid(t) \/ NotFound(t) \/ RollBack(t) PROVE Lasts'
  <2>1. Fail(t) /\ pc[t] # "done"
    BY <1>9 DEF Invalid, NotFound, RollBack
  <2>2. /\ pc'[t] = "failed" /\ rows' = rows /\ seen'[t] = {} /\ deleted'[t] = {}
        /\ \A u \in Txs \ {t} : /\ pc'[u] = pc[u] /\ job'[u] = job[u]
                               /\ before'[u] = before[u] /\ seen'[u] = seen[u]
                               /\ deleted'[u] = deleted[u]
    BY <2>1 DEF Fail, TypeOK, dbVars
  <2>3. QED
    BY <2>1, <2>2, OthersLast
<1>10. CASE UNCHANGED vars
  BY <1>1, <1>10 DEF vars, dbVars
<1>11. QED
  BY <1>2, <1>3, <1>4, <1>5, <1>6, <1>7, <1>8, <1>9, <1>10 DEF Next

\* What a successful edit says of the files of its entity lasts, until somebody
\* who had not ended when it began says otherwise.
THEOREM EditsLast == Spec => []EditLasts
<1>1. Init => Lasts
  BY DEF Init, Lasts, SeenInv, EditLasts, Open
<1>2. Lasts => EditLasts
  BY DEF Lasts
<1>3. IInv /\ Lasts /\ [Next]_vars => Lasts'
  BY LastsNext
<1>4. QED
  BY <1>1, <1>2, <1>3, InductiveInvariant, PTL DEF Spec
=============================================================================
