------------------------- MODULE RequirementProofs --------------------------
(***************************************************************************)
(* Proofs about RequirementLifecycle for any number of transactions, and   *)
(* any states, types and texts that its assumptions allow; and, in the     *)
(* second half, about RequirementMails for any number of transactions and  *)
(* of people, any set of commands, of changes and of faults.               *)
(*                                                                         *)
(* Of the mails, Inv is inductive: what a transaction has written by where *)
(* it stands (PhaseInv, WriteInv), what the locks keep (KeyInv, NewInv),   *)
(* and what it has been told by then (MailInv).                            *)
(***************************************************************************)
EXTENDS RequirementLifecycle, RequirementMails, FiniteSetTheorems, TLAPS

-----------------------------------------------------------------------------
(* The workflow.  HistoryEndsInState is inductive with the types alone:    *)
(* whatever a transaction had read, the state it writes is in the last     *)
(* entry of the history, or it writes neither.                             *)

\* The time is a number: there are finitely many transactions.
LEMMA NowIsNat == Now \in Nat
<1>1. {t \in Writers : stage[t] = "done"} \subseteq Writers
  OBVIOUS
<1>2. IsFiniteSet({t \in Writers : stage[t] = "done"})
  BY <1>1, WritersAssumption, FS_Subset
<1>3. Cardinality({t \in Writers : stage[t] = "done"}) \in Nat
  BY <1>2, FS_CardinalityType
<1>. QED
  BY <1>3 DEF Now

\* An edit makes a row of a row.
LEMMA EditedType ==
  ASSUME NEW old \in Row, NEW p \in EditPayload
  PROVE  Edited(old, p) \in Row
BY AbsentAssumption, TextsAssumption
   DEF Edited, Row, EditPayload, Pick, Coalesce, ClearedByReopening

\* So does a resolution.
LEMMA ResolvedType ==
  ASSUME NEW old \in Row, NEW p \in ResolvePayload
  PROVE  Resolved(old, p) \in Row
BY AbsentAssumption, TextsAssumption, StatesAssumption
   DEF Resolved, Row, ResolvePayload, Coalesce

\* The hook only sets stamps.
LEMMA StampedType ==
  ASSUME NEW old \in Row, NEW new \in Row
  PROVE  /\ Stamped(old, new) \in Row
         /\ Stamped(old, new).state = new.state
<1>1. ScheduledAt(new) \in Nat /\ FinishedAt(new) \in Nat
  BY NowIsNat DEF ScheduledAt, FinishedAt, Row
<1>. QED
  BY <1>1 DEF Stamped, Row

\* What an UPDATE leaves in the row and in the history.
LEMMA WriteEffect ==
  ASSUME WorkflowTypeOK, NEW t \in Writers, NEW new \in Row, Write(t, new)
  PROVE  /\ row' \in Row
         /\ log' \in Seq(Entry)
         /\ declared' \in [resolved : Nat, reopened : Nat]
         /\ HistoryEndsInState => HistoryEndsInState'
<1>. DEFINE old == read[t]
<1>1. old \in Row /\ row \in Row /\ log \in Seq(Entry)
  BY DEF WorkflowTypeOK
<1>2. row' = [f \in DOMAIN row |-> IF new[f] # old[f] THEN new[f] ELSE row[f]]
  BY DEF Write, Saved
<1>3. row' \in Row
  BY <1>1, <1>2 DEF Row
<1>4. row'.state = IF new.state # old.state THEN new.state ELSE row.state
  BY <1>1, <1>2 DEF Row
<1>5. declared' \in [resolved : Nat, reopened : Nat]
  BY DEF Write, Queued, WorkflowTypeOK
<1>6. CASE new.state = old.state
  <2>1. log' = log
    BY <1>1, <1>6 DEF Write, Logged
  <2>. QED
    BY <1>1, <1>3, <1>4, <1>5, <1>6, <2>1 DEF HistoryEndsInState
<1>7. CASE new.state # old.state
  <2>. DEFINE e == [from |-> old.state, to |-> new.state, at |-> Now]
  <2>1. e \in Entry
    BY <1>1, NowIsNat DEF Entry, Row
  <2>2. log' = log \o <<e>>
    BY <1>7 DEF Write, Logged
  <2>3. /\ log' \in Seq(Entry)
        /\ Len(log') = Len(log) + 1
        /\ log'[Len(log')] = e
    BY <1>1, <2>1, <2>2
  <2>4. HistoryEndsInState'
    BY <1>4, <1>7, <2>3 DEF HistoryEndsInState
  <2>. QED
    BY <1>3, <1>5, <2>3, <2>4
<1>. QED
  BY <1>6, <1>7

\* The inductive invariant.
HistoryInv == WorkflowTypeOK /\ HistoryEndsInState

LEMMA InitHistory == WorkflowInit => HistoryInv
<1>. SUFFICES ASSUME WorkflowInit PROVE HistoryInv
  OBVIOUS
<1>1. row \in Row
  BY TextsAssumption DEF WorkflowInit, Row
<1>2. log = <<>>
  BY DEF WorkflowInit
<1>. QED
  BY <1>1, <1>2 DEF WorkflowInit, HistoryInv, WorkflowTypeOK, HistoryEndsInState

\* One step for each thing a transaction may do.
LEMMA NextHistory == HistoryInv /\ [WorkflowNext]_workflowVars => HistoryInv'
<1>. SUFFICES ASSUME HistoryInv, [WorkflowNext]_workflowVars PROVE HistoryInv'
  OBVIOUS
<1>. USE DEF HistoryInv
<1>1. ASSUME NEW t \in Writers, ReadRow(t) PROVE HistoryInv'
  BY <1>1 DEF ReadRow, WorkflowTypeOK, HistoryEndsInState
<1>2. ASSUME NEW t \in Writers, RollBack(t) PROVE HistoryInv'
  BY <1>2 DEF RollBack, Finish, WorkflowTypeOK, HistoryEndsInState
<1>3. ASSUME NEW t \in Writers, NEW p \in EditPayload, EditRow(t, p)
      PROVE  HistoryInv'
  <2>1. read[t] \in Row
    BY DEF WorkflowTypeOK
  <2>2. stage' \in [Writers -> {"idle", "read", "done"}] /\ read' \in [Writers -> Row]
    BY <1>3 DEF EditRow, Finish, WorkflowTypeOK
  <2>3. reply' \in [Writers -> {"none", "refused", "failed", "edited", "resolved"}]
    BY <1>3 DEF EditRow, Finish, WorkflowTypeOK
  <2>4. CASE UNCHANGED <<row, log, declared>>
    BY <2>2, <2>3, <2>4 DEF WorkflowTypeOK, HistoryEndsInState
  <2>5. CASE Write(t, Stamped(read[t], Edited(read[t], p)))
    <3>1. Stamped(read[t], Edited(read[t], p)) \in Row
      BY <2>1, EditedType, StampedType
    <3>. QED
      BY <2>2, <2>3, <2>5, <3>1, WriteEffect DEF WorkflowTypeOK
  <2>. QED
    BY <1>3, <2>4, <2>5 DEF EditRow
<1>4. ASSUME NEW t \in Writers, NEW p \in ResolvePayload, Resolve(t, p)
      PROVE  HistoryInv'
  <2>1. read[t] \in Row
    BY DEF WorkflowTypeOK
  <2>2. stage' \in [Writers -> {"idle", "read", "done"}] /\ read' \in [Writers -> Row]
    BY <1>4 DEF Resolve, Finish, WorkflowTypeOK
  <2>3. reply' \in [Writers -> {"none", "refused", "failed", "edited", "resolved"}]
    BY <1>4 DEF Resolve, Finish, WorkflowTypeOK
  <2>4. CASE UNCHANGED <<row, log, declared>>
    BY <2>2, <2>3, <2>4 DEF WorkflowTypeOK, HistoryEndsInState
  <2>5. CASE Write(t, Stamped(read[t], Resolved(read[t], p)))
    <3>1. Stamped(read[t], Resolved(read[t], p)) \in Row
      BY <2>1, ResolvedType, StampedType
    <3>. QED
      BY <2>2, <2>3, <2>5, <3>1, WriteEffect DEF WorkflowTypeOK
  <2>. QED
    BY <1>4, <2>4, <2>5 DEF Resolve
<1>5. ASSUME UNCHANGED workflowVars PROVE HistoryInv'
  BY <1>5 DEF workflowVars, WorkflowTypeOK, HistoryEndsInState
<1>. QED
  BY <1>1, <1>2, <1>3, <1>4, <1>5 DEF WorkflowNext

\* Every variable keeps its type, and however the transactions interleave the
\* history ends in the state the requirement has.
THEOREM HistoryHolds == WorkflowSpec => []HistoryInv
<1>. QED
  BY InitHistory, NextHistory, PTL DEF WorkflowSpec

THEOREM TypesHold == WorkflowSpec => []WorkflowTypeOK
<1>1. HistoryInv => WorkflowTypeOK
  BY DEF HistoryInv
<1>. QED
  BY <1>1, HistoryHolds, PTL

\* requirement_activity never tells another state than the row's.
THEOREM HistoryIsTrue == WorkflowSpec => []HistoryEndsInState
<1>1. HistoryInv => HistoryEndsInState
  BY DEF HistoryInv
<1>. QED
  BY <1>1, HistoryHolds, PTL

-----------------------------------------------------------------------------
(* The mails.  MailsMatchHistory is inductive with the types alone too: a   *)
(* mail is declared on the condition on which the entry is made.            *)

\* One more element, or none, in a set of positions of a sequence.
LEMMA PositionsCount ==
  ASSUME NEW n \in Nat, NEW S \in SUBSET (1..n)
  PROVE  /\ Cardinality(S) \in Nat
         /\ Cardinality(S \union {n + 1}) = Cardinality(S) + 1
<1>1. IsFiniteSet(S)
  <2>1. IsFiniteSet(1..n)
    BY FS_Interval
  <2>. QED
    BY <2>1, FS_Subset
<1>2. n + 1 \notin S
  OBVIOUS
<1>. QED
  BY <1>1, <1>2, FS_AddElement, FS_CardinalityType

\* The positions a new entry adds to.
LEMMA EntryCounts ==
  ASSUME log \in Seq(Entry), NEW e \in Entry, log' = Append(log, e)
  PROVE  /\ Cardinality(Into("resuelto"))' = Cardinality(Into("resuelto"))
              + (IF e.to = "resuelto" THEN 1 ELSE 0)
         /\ Cardinality(Reopenings)' = Cardinality(Reopenings)
              + (IF e.from = "resuelto" /\ e.to # "cancelado" THEN 1 ELSE 0)
<1>. DEFINE n == Len(log)
<1>1. n \in Nat /\ DOMAIN log = 1..n /\ DOMAIN log' = 1..(n + 1)
  OBVIOUS
<1>2. log'[n + 1] = e /\ \A i \in 1..n : log'[i] = log[i]
  OBVIOUS
<1>3. /\ Into("resuelto") \in SUBSET (1..n)
      /\ Reopenings \in SUBSET (1..n)
  BY <1>1 DEF Into, Reopenings
<1>4. Into("resuelto")' = IF e.to = "resuelto"
                            THEN Into("resuelto") \union {n + 1}
                            ELSE Into("resuelto")
  BY <1>1, <1>2 DEF Into
<1>5. Reopenings' = IF e.from = "resuelto" /\ e.to # "cancelado"
                      THEN Reopenings \union {n + 1} ELSE Reopenings
  BY <1>1, <1>2 DEF Reopenings
<1>. HIDE DEF n
<1>6. Cardinality(Into("resuelto")') = Cardinality(Into("resuelto"))
        + (IF e.to = "resuelto" THEN 1 ELSE 0)
  <2>1. CASE e.to = "resuelto"
    BY <1>1, <1>3, <1>4, <2>1, PositionsCount
  <2>2. CASE e.to # "resuelto"
    <3>1. Cardinality(Into("resuelto")) \in Nat
      BY <1>1, <1>3, PositionsCount
    <3>. QED
      BY <1>4, <2>2, <3>1
  <2>. QED
    BY <2>1, <2>2
<1>7. Cardinality(Reopenings') = Cardinality(Reopenings)
        + (IF e.from = "resuelto" /\ e.to # "cancelado" THEN 1 ELSE 0)
  <2>1. CASE e.from = "resuelto" /\ e.to # "cancelado"
    BY <1>1, <1>3, <1>5, <2>1, PositionsCount
  <2>2. CASE ~ (e.from = "resuelto" /\ e.to # "cancelado")
    <3>1. Cardinality(Reopenings) \in Nat
      BY <1>1, <1>3, PositionsCount
    <3>. QED
      BY <1>5, <2>2, <3>1
  <2>. QED
    BY <2>1, <2>2
<1>. QED
  BY <1>6, <1>7

LEMMA WriteMails ==
  ASSUME WorkflowTypeOK, MailsMatchHistory, NEW t \in Writers, NEW new \in Row,
         Write(t, new)
  PROVE  MailsMatchHistory'
<1>. DEFINE old == read[t]
<1>1. old \in Row /\ log \in Seq(Entry)
  BY DEF WorkflowTypeOK
<1>2. new.state # Absent
  BY AbsentAssumption DEF Row
<1>3. declared' = [resolved |-> declared.resolved + (IF Enters(old, new) THEN 1 ELSE 0),
                reopened |-> declared.reopened
                  + (IF LeavesResolved(old, new.state) THEN 1 ELSE 0)]
  BY DEF Write, Queued
<1>4. CASE new.state = old.state
  <2>1. log' = log
    BY <1>1, <1>4 DEF Write, Logged
  <2>2. Into("resuelto")' = Into("resuelto") /\ Reopenings' = Reopenings
    BY <2>1 DEF Into, Reopenings
  <2>3. declared'.resolved = declared.resolved /\ declared'.reopened = declared.reopened
    BY <1>3, <1>4 DEF Enters, LeavesResolved, WorkflowTypeOK
  <2>. QED
    BY <2>2, <2>3 DEF MailsMatchHistory
<1>5. CASE new.state # old.state
  <2>. DEFINE e == [from |-> old.state, to |-> new.state, at |-> Now]
  <2>1. e \in Entry
    BY <1>1, NowIsNat DEF Entry, Row
  <2>2. log' = Append(log, e)
    BY <1>1, <1>5, <2>1 DEF Write, Logged
  <2>3. declared'.resolved = declared.resolved + (IF e.to = "resuelto" THEN 1 ELSE 0)
    BY <1>3, <1>5 DEF Enters
  <2>4. declared'.reopened = declared.reopened
          + (IF e.from = "resuelto" /\ e.to # "cancelado" THEN 1 ELSE 0)
    BY <1>2, <1>3, <1>5 DEF LeavesResolved
  <2>. HIDE DEF e
  <2>. QED
    BY <1>1, <2>1, <2>2, <2>3, <2>4, EntryCounts DEF MailsMatchHistory
<1>. QED
  BY <1>4, <1>5

\* What leaves the history and the mails alone.
LEMMA MailsUntouched ==
  ASSUME MailsMatchHistory, UNCHANGED <<log, declared>>
  PROVE  MailsMatchHistory'
BY DEF MailsMatchHistory, Into, Reopenings

LEMMA NextMails ==
  WorkflowTypeOK /\ MailsMatchHistory /\ [WorkflowNext]_workflowVars => MailsMatchHistory'
<1>. SUFFICES ASSUME WorkflowTypeOK, MailsMatchHistory, [WorkflowNext]_workflowVars
              PROVE  MailsMatchHistory'
  OBVIOUS
<1>1. ASSUME NEW t \in Writers, ReadRow(t) \/ RollBack(t) PROVE MailsMatchHistory'
  BY <1>1, MailsUntouched DEF ReadRow, RollBack
<1>2. ASSUME NEW t \in Writers, NEW p \in EditPayload, EditRow(t, p)
      PROVE  MailsMatchHistory'
  <2>1. Stamped(read[t], Edited(read[t], p)) \in Row
    BY EditedType, StampedType DEF WorkflowTypeOK
  <2>. QED
    BY <1>2, <2>1, WriteMails, MailsUntouched DEF EditRow
<1>3. ASSUME NEW t \in Writers, NEW p \in ResolvePayload, Resolve(t, p)
      PROVE  MailsMatchHistory'
  <2>1. Stamped(read[t], Resolved(read[t], p)) \in Row
    BY ResolvedType, StampedType DEF WorkflowTypeOK
  <2>. QED
    BY <1>3, <2>1, WriteMails, MailsUntouched DEF Resolve
<1>4. ASSUME UNCHANGED workflowVars PROVE MailsMatchHistory'
  BY <1>4, MailsUntouched DEF workflowVars
<1>. QED
  BY <1>1, <1>2, <1>3, <1>4 DEF WorkflowNext

\* Every resolution of the history and every reopening is announced once.
THEOREM MailsAreTrue == WorkflowSpec => []MailsMatchHistory
<1>1. WorkflowInit => MailsMatchHistory
  <2>. SUFFICES ASSUME WorkflowInit PROVE MailsMatchHistory
    OBVIOUS
  <2>1. Into("resuelto") = {} /\ Reopenings = {}
    BY DEF WorkflowInit, Into, Reopenings
  <2>. QED
    BY <2>1, FS_EmptySet DEF WorkflowInit, MailsMatchHistory
<1>. QED
  BY <1>1, NextMails, TypesHold, PTL DEF WorkflowSpec

-----------------------------------------------------------------------------
(* The stamps.                                                             *)

\* What makes StampsMatchHistory inductive: a resolution that was written, or
\* read, is before now, so that a new stamp is always a change and is saved; and
\* a first date of entry that somebody has read is never gone again.
StampInv ==
  /\ \A t \in Writers : read[t].finishedAt < Now /\ row.finishedAt < Now
  /\ \A t \in Writers : read[t].scheduledAt # 0 => row.scheduledAt # 0

Stamps == StampInv /\ StampsMatchHistory

\* The end of a transaction is a tick.
LEMMA Tick ==
  ASSUME NEW t \in Writers, NEW a, Finish(t, a), WorkflowTypeOK
  PROVE  Now' = Now + 1
<1> DEFINE Ended == {u \in Writers : stage[u] = "done"}
<1>1. Ended' = Ended \union {t} /\ t \notin Ended
  BY DEF Finish, WorkflowTypeOK
<1>2. IsFiniteSet(Ended)
  <2>1. Ended \in SUBSET Writers
    OBVIOUS
  <2>. QED
    BY <2>1, WritersAssumption, FS_Subset
<1>3. Cardinality(Ended \union {t}) = Cardinality(Ended) + 1 /\ Cardinality(Ended) \in Nat
  BY <1>1, <1>2, FS_AddElement, FS_CardinalityType
<1>4. Now' = 1 + Cardinality(Ended') /\ Now = 1 + Cardinality(Ended)
  BY DEF Now
<1>. QED
  BY <1>1, <1>3, <1>4

\* What the hook makes of the stamps.
LEMMA StampedStamps ==
  ASSUME NEW old \in Row, NEW new \in Row,
         new.finishedAt = old.finishedAt, new.scheduledAt = old.scheduledAt
  PROVE  /\ Stamped(old, new).finishedAt =
              IF new.state # old.state /\ new.state = "resuelto"
                THEN Now ELSE old.finishedAt
         /\ Stamped(old, new).scheduledAt =
              IF new.state # old.state /\ new.state = "planificacion" /\ old.scheduledAt = 0
                THEN Now ELSE old.scheduledAt
<1>1. CASE new.state = old.state
  BY <1>1 DEF Stamped
<1>2. CASE new.state # old.state /\ new.state = "planificacion"
  BY <1>2 DEF Stamped, ScheduledAt, Row
<1>3. CASE new.state # old.state /\ new.state = "resuelto"
  BY <1>3 DEF Stamped, FinishedAt, Row
<1>4. CASE new.state # old.state /\ new.state \notin {"planificacion", "resuelto"}
  BY <1>4 DEF Stamped
<1>. QED
  BY <1>1, <1>2, <1>3, <1>4

\* What a write that comes from the hook does to the stamps of the row.
LEMMA WriteStamps ==
  ASSUME WorkflowTypeOK, Stamps, NEW t \in Writers, NEW new \in Row, NEW a,
         new.finishedAt = read[t].finishedAt, new.scheduledAt = read[t].scheduledAt,
         Write(t, Stamped(read[t], new)), Finish(t, a)
  PROVE  Stamps'
<1> DEFINE old == read[t]
           fin == Stamped(old, new)
<1>1. old \in Row /\ row \in Row /\ log \in Seq(Entry) /\ Now \in Nat /\ Now # 0
  <2>1. Now \in Nat
    BY NowIsNat
  <2>2. old.finishedAt \in Nat /\ old.finishedAt < Now
    BY DEF WorkflowTypeOK, Row, Stamps, StampInv
  <2>. QED
    BY <2>1, <2>2 DEF WorkflowTypeOK
<1>2. fin \in Row /\ fin.state = new.state
  BY <1>1, StampedType
<1>3. /\ fin.finishedAt = IF new.state # old.state /\ new.state = "resuelto"
                            THEN Now ELSE old.finishedAt
      /\ fin.scheduledAt =
           IF new.state # old.state /\ new.state = "planificacion" /\ old.scheduledAt = 0
             THEN Now ELSE old.scheduledAt
  BY <1>1, StampedStamps
<1>4. row' = [f \in DOMAIN row |-> IF fin[f] # old[f] THEN fin[f] ELSE row[f]]
  BY DEF Write, Saved
<1>. HIDE DEF fin
<1>5. /\ row'.finishedAt = IF fin.finishedAt # old.finishedAt
                              THEN fin.finishedAt ELSE row.finishedAt
      /\ row'.scheduledAt = IF fin.scheduledAt # old.scheduledAt
                               THEN fin.scheduledAt ELSE row.scheduledAt
      /\ row' \in Row
  BY <1>1, <1>2, <1>4 DEF Row
<1>6. /\ old.finishedAt \in Nat /\ row.finishedAt \in Nat
      /\ old.finishedAt < Now /\ row.finishedAt < Now
      /\ old.scheduledAt # 0 => row.scheduledAt # 0
  BY <1>1 DEF Stamps, StampInv, Row
<1>7. row'.finishedAt = IF new.state # old.state /\ new.state = "resuelto"
                          THEN Now ELSE row.finishedAt
  BY <1>1, <1>3, <1>5, <1>6
<1>8. row'.scheduledAt =
        IF new.state # old.state /\ new.state = "planificacion" /\ old.scheduledAt = 0
          THEN Now ELSE row.scheduledAt
  BY <1>1, <1>3, <1>5
<1>9. StampInv'
  <2>1. Now' = Now + 1 /\ read' = read
    BY Tick DEF Finish
  <2>2. ASSUME NEW u \in Writers PROVE read[u].finishedAt < Now + 1 /\ row'.finishedAt < Now + 1
    <3>1. read[u].finishedAt < Now /\ read[u].finishedAt \in Nat
      BY DEF Stamps, StampInv, WorkflowTypeOK, Row
    <3>. QED
      BY <1>1, <1>6, <1>7, <3>1
  <2>3. ASSUME NEW u \in Writers, read[u].scheduledAt # 0 PROVE row'.scheduledAt # 0
    BY <1>1, <1>8, <2>3 DEF Stamps, StampInv
  <2>. QED
    BY <2>1, <2>2, <2>3 DEF StampInv
<1>10. CASE new.state = old.state
  <2>1. log' = log
    BY <1>2, <1>10 DEF Write, Logged, fin
  <2>2. row'.finishedAt = row.finishedAt /\ row'.scheduledAt = row.scheduledAt
    BY <1>7, <1>8, <1>10
  <2>3. StampsMatchHistory'
    BY <2>1, <2>2 DEF Stamps, StampsMatchHistory, Into
  <2>. QED
    BY <1>9, <2>3 DEF Stamps
<1>11. CASE new.state # old.state
  <2>. DEFINE e == [from |-> old.state, to |-> new.state, at |-> Now]
              n == Len(log)
  <2>1. e \in Entry
    BY <1>1, NowIsNat DEF Entry, Row
  <2>2. log' = Append(log, e)
    BY <1>1, <1>2, <1>11, <2>1 DEF Write, Logged, fin
  <2>3. /\ n \in Nat /\ DOMAIN log = 1..n /\ DOMAIN log' = 1..(n + 1)
        /\ log'[n + 1] = e /\ \A i \in 1..n : log'[i] = log[i]
    BY <1>1, <2>1, <2>2
  <2>4. e.to = new.state /\ e.at = Now
    OBVIOUS
  <2>. HIDE DEF e, n
  <2>5. ASSUME NEW state
        PROVE  /\ Into(state) \subseteq 1..n
               /\ Into(state)' = IF new.state = state THEN Into(state) \union {n + 1}
                                                      ELSE Into(state)
    BY <2>3, <2>4 DEF Into
  <2>6. IF Into("resuelto")' = {} THEN row'.finishedAt = 0
        ELSE \E i \in Into("resuelto")' : /\ row'.finishedAt = log'[i].at
                                          /\ \A j \in Into("resuelto")' : j <= i
    <3>1. CASE new.state = "resuelto"
      <4>1. \A j \in Into("resuelto")' : j <= n + 1
        BY <2>3, <2>5
      <4>2. n + 1 \in Into("resuelto")' /\ row'.finishedAt = log'[n + 1].at
        BY <1>7, <1>11, <2>3, <2>4, <2>5, <3>1
      <4>. QED
        BY <4>1, <4>2
    <3>2. CASE new.state # "resuelto"
      <4>1. Into("resuelto")' = Into("resuelto") /\ row'.finishedAt = row.finishedAt
        BY <1>7, <2>5, <3>2
      <4>2. \A i \in Into("resuelto") : log'[i] = log[i]
        BY <2>3, <2>5
      <4>. QED
        BY <4>1, <4>2 DEF Stamps, StampsMatchHistory
    <3>. QED
      BY <3>1, <3>2
  <2>7. IF Into("planificacion")' = {} THEN row'.scheduledAt = 0
        ELSE \E i \in Into("planificacion")' : row'.scheduledAt = log'[i].at
    <3>1. CASE new.state = "planificacion" /\ old.scheduledAt = 0
      <4>1. n + 1 \in Into("planificacion")' /\ row'.scheduledAt = log'[n + 1].at
        BY <1>8, <1>11, <2>3, <2>4, <2>5, <3>1
      <4>. QED
        BY <4>1
    <3>2. CASE ~ (new.state = "planificacion" /\ old.scheduledAt = 0)
      <4>1. row'.scheduledAt = row.scheduledAt
        BY <1>8, <3>2
      <4>2. \A i \in Into("planificacion") : log'[i] = log[i] /\ i \in Into("planificacion")'
        BY <2>3, <2>5
      <4>3. CASE Into("planificacion") = {}
        <5>1. row.scheduledAt = 0
          BY <4>3 DEF Stamps, StampsMatchHistory
        <5>2. new.state # "planificacion"
          BY <1>6, <3>2, <5>1
        <5>. QED
          BY <2>5, <4>1, <4>3, <5>1, <5>2
      <4>4. CASE Into("planificacion") # {}
        <5>1. PICK i \in Into("planificacion") : row.scheduledAt = log[i].at
          BY <4>4 DEF Stamps, StampsMatchHistory
        <5>. QED
          BY <4>1, <4>2, <5>1
      <4>. QED
        BY <4>3, <4>4
    <3>. QED
      BY <3>1, <3>2
  <2>8. StampsMatchHistory'
    BY <2>6, <2>7 DEF StampsMatchHistory, Into
  <2>. QED
    BY <1>9, <2>8 DEF Stamps
<1>. QED
  BY <1>10, <1>11

\* A transaction that ends without a write.
LEMMA StampsUntouched ==
  ASSUME WorkflowTypeOK, Stamps, NEW t \in Writers, NEW a, Finish(t, a), UNCHANGED <<row, log>>
  PROVE  Stamps'
<1>1. Now' = Now + 1 /\ Now \in Nat /\ read' = read
  BY Tick, NowIsNat DEF Finish
<1>2. ASSUME NEW u \in Writers
      PROVE  read[u].finishedAt < Now + 1 /\ row.finishedAt < Now + 1
  <2>1. read[u].finishedAt \in Nat /\ row.finishedAt \in Nat
    BY DEF WorkflowTypeOK, Row
  <2>. QED
    BY <1>1, <2>1 DEF Stamps, StampInv
<1>3. StampInv'
  BY <1>1, <1>2 DEF Stamps, StampInv
<1>4. StampsMatchHistory'
  BY DEF Stamps, StampsMatchHistory, Into
<1>. QED
  BY <1>3, <1>4 DEF Stamps

LEMMA NextStamps == WorkflowTypeOK /\ Stamps /\ [WorkflowNext]_workflowVars => Stamps'
<1>. SUFFICES ASSUME WorkflowTypeOK, Stamps, [WorkflowNext]_workflowVars PROVE Stamps'
  OBVIOUS
<1>1. ASSUME NEW t \in Writers, ReadRow(t) PROVE Stamps'
  <2>1. UNCHANGED <<row, log>> /\ read' = [read EXCEPT ![t] = row] /\ Now' = Now
    <3>1. {u \in Writers : stage'[u] = "done"} = {u \in Writers : stage[u] = "done"}
      BY <1>1 DEF ReadRow, WorkflowTypeOK
    <3>. QED
      BY <1>1, <3>1 DEF ReadRow, Now
  <2>2. StampInv'
    BY <2>1 DEF Stamps, StampInv, WorkflowTypeOK
  <2>3. StampsMatchHistory'
    BY <2>1 DEF Stamps, StampsMatchHistory, Into
  <2>. QED
    BY <2>2, <2>3 DEF Stamps
<1>2. ASSUME NEW t \in Writers, RollBack(t) PROVE Stamps'
  BY <1>2, StampsUntouched DEF RollBack
<1>3. ASSUME NEW t \in Writers, NEW p \in EditPayload, EditRow(t, p) PROVE Stamps'
  <2>1. read[t] \in Row
    BY DEF WorkflowTypeOK
  <2>2. Edited(read[t], p) \in Row
    BY <2>1, EditedType
  <2>3. /\ Edited(read[t], p).finishedAt = read[t].finishedAt
        /\ Edited(read[t], p).scheduledAt = read[t].scheduledAt
    BY <2>1 DEF Edited, Row
  <2>. QED
    BY <1>3, <2>2, <2>3, WriteStamps, StampsUntouched DEF EditRow
<1>4. ASSUME NEW t \in Writers, NEW p \in ResolvePayload, Resolve(t, p) PROVE Stamps'
  <2>1. read[t] \in Row
    BY DEF WorkflowTypeOK
  <2>2. Resolved(read[t], p) \in Row
    BY <2>1, ResolvedType
  <2>3. /\ Resolved(read[t], p).finishedAt = read[t].finishedAt
        /\ Resolved(read[t], p).scheduledAt = read[t].scheduledAt
    BY <2>1 DEF Resolved, Row
  <2>. QED
    BY <1>4, <2>2, <2>3, WriteStamps, StampsUntouched DEF Resolve
<1>5. ASSUME UNCHANGED workflowVars PROVE Stamps'
  BY <1>5 DEF workflowVars, Stamps, StampInv, StampsMatchHistory, Into, Now
<1>. QED
  BY <1>1, <1>2, <1>3, <1>4, <1>5 DEF WorkflowNext

\* finishedAt is the date of the last resolution of the history and scheduledAt
\* that of an entry into planificacion, whatever the transactions had read.
THEOREM StampsAreTrue == WorkflowSpec => []StampsMatchHistory
<1>1. WorkflowInit => Stamps
  <2>. SUFFICES ASSUME WorkflowInit PROVE Stamps
    OBVIOUS
  <2>1. Into("resuelto") = {} /\ Into("planificacion") = {}
    BY DEF WorkflowInit, Into
  <2>2. Cardinality({t \in Writers : stage[t] = "done"}) = 0
    <3>1. {t \in Writers : stage[t] = "done"} = {}
      BY DEF WorkflowInit
    <3>. QED
      BY <3>1, FS_EmptySet
  <2>3. row.finishedAt = 0 /\ row.scheduledAt = 0 /\ \A t \in Writers : read[t] = row
    BY DEF WorkflowInit
  <2>. QED
    BY <2>1, <2>2, <2>3 DEF Stamps, StampInv, StampsMatchHistory, Now
<1>2. Stamps => StampsMatchHistory
  BY DEF Stamps
<1>. QED
  BY <1>1, <1>2, NextStamps, TypesHold, PTL DEF WorkflowSpec

-----------------------------------------------------------------------------
(* The rules of a transaction that nobody overtook.                        *)

\* What a fresh UPDATE writes is the instance.
LEMMA FreshWrite ==
  ASSUME WorkflowTypeOK, NEW t \in Writers, read[t] = row, NEW new \in Row, Write(t, new)
  PROVE  row' = new
<1>1. row \in Row
  BY DEF WorkflowTypeOK
<1>2. DOMAIN row = DOMAIN new /\ new = [f \in DOMAIN new |-> new[f]]
  BY <1>1 DEF Row
<1>3. row' = [f \in DOMAIN row |-> IF new[f] # row[f] THEN new[f] ELSE row[f]]
  BY DEF Write, Saved
<1>. QED
  BY <1>2, <1>3

LEMMA FreshRules == WorkflowTypeOK /\ [WorkflowNext]_workflowVars => FreshWritesKeepTheRules
<1>. SUFFICES ASSUME WorkflowTypeOK, [WorkflowNext]_workflowVars, NEW t \in Writers, WritesFresh(t)
              PROVE  /\ row.scheduledAt # 0 => row'.scheduledAt = row.scheduledAt
                     /\ Reopens =>
                          /\ row'.finishedAt = row.finishedAt
                          /\ declared'.reopened = declared.reopened + 1
                          /\ \A p \in EditPayload : p.state = row'.state /\ EditRow(t, p) =>
                               /\ row'.resolutionType \in {Null, p.resolutionType}
                               /\ row'.resolutionConclusion \in {Null, p.resolutionConclusion}
  BY DEF FreshWritesKeepTheRules
<1>1. stage[t] = "read" /\ stage'[t] = "done" /\ read[t] = row /\ row \in Row
  BY DEF WritesFresh, WorkflowTypeOK
\* Only t itself ends.
<1>2. \/ UNCHANGED <<row, declared>>
      \/ \E new \in Row : /\ Write(t, Stamped(row, new))
                          /\ new.finishedAt = row.finishedAt
                          /\ new.scheduledAt = row.scheduledAt
  <2>1. ASSUME NEW u \in Writers, ReadRow(u) PROVE FALSE
    BY <1>1, <2>1 DEF ReadRow, WorkflowTypeOK
  <2>2. ASSUME NEW u \in Writers, NEW a, Finish(u, a) PROVE u = t
    BY <1>1, <2>2 DEF Finish, WorkflowTypeOK
  <2>3. ASSUME NEW u \in Writers, RollBack(u) PROVE UNCHANGED <<row, declared>>
    BY <2>3 DEF RollBack
  <2>4. ASSUME NEW u \in Writers, NEW p \in EditPayload, EditRow(u, p),
               ~ UNCHANGED <<row, declared>>
        PROVE  /\ Write(t, Stamped(row, Edited(row, p))) /\ Edited(row, p) \in Row
               /\ Edited(row, p).finishedAt = row.finishedAt
               /\ Edited(row, p).scheduledAt = row.scheduledAt
    <3>1. u = t
      BY <2>2, <2>4 DEF EditRow
    <3>2. Write(t, Stamped(row, Edited(row, p)))
      BY <1>1, <2>4, <3>1 DEF EditRow
    <3>3. Edited(row, p) \in Row
      BY <1>1, EditedType
    <3>. QED
      BY <1>1, <3>2, <3>3 DEF Edited, Row
  <2>5. ASSUME NEW u \in Writers, NEW p \in ResolvePayload, Resolve(u, p),
               ~ UNCHANGED <<row, declared>>
        PROVE  /\ Write(t, Stamped(row, Resolved(row, p))) /\ Resolved(row, p) \in Row
               /\ Resolved(row, p).finishedAt = row.finishedAt
               /\ Resolved(row, p).scheduledAt = row.scheduledAt
    <3>1. u = t
      BY <2>2, <2>5 DEF Resolve
    <3>2. Write(t, Stamped(row, Resolved(row, p)))
      BY <1>1, <2>5, <3>1 DEF Resolve
    <3>3. Resolved(row, p) \in Row
      BY <1>1, ResolvedType
    <3>. QED
      BY <1>1, <3>2, <3>3 DEF Resolved, Row
  <2>6. ASSUME UNCHANGED workflowVars PROVE FALSE
    BY <1>1, <2>6 DEF workflowVars
  <2>. QED
    BY <2>1, <2>3, <2>4, <2>5, <2>6 DEF WorkflowNext
<1>3. CASE UNCHANGED <<row, declared>>
  BY <1>3 DEF Reopens
<1>4. ASSUME NEW new \in Row, Write(t, Stamped(row, new)),
             new.finishedAt = row.finishedAt, new.scheduledAt = row.scheduledAt
      PROVE  /\ row.scheduledAt # 0 => row'.scheduledAt = row.scheduledAt
             /\ Reopens => /\ row'.finishedAt = row.finishedAt
                           /\ declared'.reopened = declared.reopened + 1
  <2>1. Stamped(row, new) \in Row
    BY <1>1, StampedType
  <2>2. row' = Stamped(row, new)
    BY <1>1, <1>4, <2>1, FreshWrite
  <2>3. row.scheduledAt # 0 => row'.scheduledAt = row.scheduledAt
    BY <1>1, <1>4, <2>2, StampedStamps
  <2>4. ASSUME Reopens PROVE row'.finishedAt = row.finishedAt
    <3>1. new.state # "resuelto"
      BY <1>1, <2>2, <2>4, StampedType DEF Reopens
    <3>. QED
      BY <1>1, <1>4, <2>2, <3>1, StampedStamps
  <2>5. ASSUME Reopens PROVE declared'.reopened = declared.reopened + 1
    <3>1. LeavesResolved(row, Stamped(row, new).state)
      BY <2>1, <2>2, <2>5, AbsentAssumption DEF Reopens, LeavesResolved, Row
    <3>. QED
      BY <1>1, <1>4, <3>1 DEF Write, Queued
  <2>. QED
    BY <2>3, <2>4, <2>5
<1>5. ASSUME Reopens, NEW p \in EditPayload, p.state = row'.state, EditRow(t, p)
      PROVE  /\ row'.resolutionType \in {Null, p.resolutionType}
             /\ row'.resolutionConclusion \in {Null, p.resolutionConclusion}
  <2>. DEFINE new == Edited(row, p)
  <2>1. Write(t, Stamped(row, new))
    <3>1. row' # row
      BY <1>5 DEF Reopens
    <3>. QED
      BY <1>1, <1>5, <3>1 DEF EditRow
  <2>2. new \in Row
    BY <1>1, EditedType
  <2>3. row' = Stamped(row, new)
    <3>1. Stamped(row, new) \in Row
      BY <1>1, <2>2, StampedType
    <3>. QED
      BY <1>1, <2>1, <3>1, FreshWrite
  <2>4. /\ row'.resolutionType = new.resolutionType
        /\ row'.resolutionConclusion = new.resolutionConclusion
    BY <2>2, <2>3 DEF Stamped, Row
  <2>5. LeavesResolved(row, p.state)
    <3>1. row' \in Row
      BY <1>1, <2>2, <2>3, StampedType
    <3>. QED
      BY <1>5, <3>1, AbsentAssumption DEF Reopens, LeavesResolved, Row
  <2>6. /\ new.resolutionType = Coalesce(p.resolutionType, Null)
        /\ new.resolutionConclusion = Coalesce(p.resolutionConclusion, Null)
    BY <1>1, <2>5 DEF Edited, Row, ClearedByReopening
  <2>. QED
    BY <2>4, <2>6 DEF Coalesce
<1>. QED
  BY <1>2, <1>3, <1>4, <1>5

\* A write that nobody overtook keeps the first date of entry; one that reopens
\* keeps the date of the resolution, is announced once, and leaves nothing of
\* the resolution but what its own payload says.
THEOREM FreshWritesAreSequential == WorkflowSpec => SequentialRules
<1>1. [][WorkflowTypeOK /\ WorkflowNext]_workflowVars => SequentialRules
  <2>1. [WorkflowTypeOK /\ WorkflowNext]_workflowVars => [FreshWritesKeepTheRules]_workflowVars
    BY FreshRules
  <2>. QED
    BY <2>1, PTL DEF SequentialRules
<1>. QED
  BY <1>1, TypesHold, PTL DEF WorkflowSpec

-----------------------------------------------------------------------------
(* The mails: where a transaction stands and what it has done by then.     *)

\* It has written, and goes on to its commit.
After == {"visible", "candidates", "users", "permission", "commit"}

\* Each kind of command has its way; it answers when it ends; it declares when it
\* has written; and it chooses nobody before that.
Phase(t) ==
  /\ pc[t] = "idle" <=> command[t] = None
  /\ pc[t] = "done" <=> answer[t] # None
  /\ pc[t] \notin After \union {"done"} => ~ announces[t]
  /\ pc[t] \in After \ {"commit"} => announces[t] /\ command[t].kind # "unsubscribe"
  /\ pc[t] = "read" => command[t].kind \in {"edit", "comment", "subscribe"}
  /\ pc[t] = "check" => command[t].kind = "subscribe"
  /\ pc[t] = "write" => command[t].kind # "unsubscribe"
  /\ pc[t] \in {"find", "delete"} => command[t].kind = "unsubscribe"
  /\ pc[t] \notin {"users", "permission", "commit"} => chosen[t] = {}
PhaseInv == \A t \in Txs : Phase(t)

\* What one transaction does, but for what is remembered of it.
Acts(t) ==
  \/ \E c \in Commands : Begin(t, c)
  \/ NotFound(t) \/ Read(t) \/ Check(t) \/ Create(t) \/ Comment(t)
  \/ \E declares \in BOOLEAN : Edit(t, declares)
  \/ Subscribe(t) \/ Find(t) \/ Unsubscribe(t) \/ Visible(t) \/ Candidates(t)
  \/ Users(t) \/ Permission(t) \/ Commit(t) \/ Fail(t)

LEMMA NextIs ==
  ASSUME Next
  PROVE  Remember /\ ((\E t \in Txs : Acts(t)) \/ \E p \in People : Change(p))
BY DEF Next, Acts

\* What a command says.
LEMMA CommandType ==
  ASSUME TypeOK, PhaseInv, NEW t \in Txs, pc[t] # "idle"
  PROVE  /\ command[t] \in Commands /\ command[t] # None
         /\ command[t].kind \in {"new", "edit", "comment", "subscribe", "unsubscribe"}
         /\ command[t].people \subseteq People
         /\ command[t].level \in Levels \union {None}
         /\ command[t].kind \in {"new", "comment"} => command[t].level \in Levels
         /\ command[t].kind \in {"subscribe", "unsubscribe"} =>
              \E p \in People : command[t].people = {p}
BY MailsAssumption DEF TypeOK, PhaseInv, Phase, Command

\* The others stay where they are.
LEMMA OthersStay ==
  ASSUME TypeOK, NEW t \in Txs, Acts(t), NEW u \in Txs \ {t}
  PROVE  /\ pc'[u] = pc[u] /\ command'[u] = command[u] /\ own'[u] = own[u]
         /\ announces'[u] = announces[u] /\ chosen'[u] = chosen[u]
         /\ answer'[u] = answer[u]
<1>1. CASE \/ \E c \in Commands : Begin(t, c)
           \/ Read(t) \/ Find(t) \/ Visible(t) \/ Candidates(t)
           \/ Users(t) \/ Permission(t) \/ Commit(t)
  BY <1>1 DEF TypeOK, Begin, Goes, Read, Find, Wrote, Visible, Candidates, Chooses, Users,
              Permission, Commit, Forget
<1>2. ASSUME Rollback(t)
      PROVE  /\ pc'[u] = pc[u] /\ command'[u] = command[u] /\ own'[u] = own[u]
             /\ announces'[u] = announces[u] /\ chosen'[u] = chosen[u]
             /\ answer'[u] = answer[u]
  BY <1>2 DEF TypeOK, Rollback, Goes, Forget
<1>3. ASSUME NEW what, NEW declares, Wrote(t, what), Declare(t, declares)
      PROVE  /\ pc'[u] = pc[u] /\ command'[u] = command[u] /\ own'[u] = own[u]
             /\ announces'[u] = announces[u] /\ chosen'[u] = chosen[u]
             /\ answer'[u] = answer[u]
  BY <1>3 DEF TypeOK, Wrote, Declare, Goes
<1>4. CASE Comment(t)
  BY <1>4 DEF TypeOK, Comment, Declare, Goes
<1>5. CASE Check(t)
  BY <1>2, <1>5 DEF TypeOK, Check, Goes
<1>6. CASE NotFound(t) \/ Fail(t)
  BY <1>2, <1>6 DEF NotFound, Fail
<1>7. CASE Create(t)
  BY <1>3, <1>7 DEF Create
<1>8. CASE \E declares \in BOOLEAN : Edit(t, declares)
  BY <1>3, <1>8 DEF Edit
<1>9. CASE Subscribe(t)
  BY <1>2, <1>3, <1>9 DEF Subscribe
<1>10. CASE Unsubscribe(t)
  BY <1>2, <1>3, <1>10 DEF Unsubscribe
<1>11. QED
  BY <1>1, <1>4, <1>5, <1>6, <1>7, <1>8, <1>9, <1>10 DEF Acts

-----------------------------------------------------------------------------
(* Types.                                                                  *)

LEMMA TypeOfRollback ==
  ASSUME TypeOK, NEW t \in Txs, Rollback(t), faults' \in 0..MaxFaults
  PROVE  TypeOK'
<1>1. Untouched \in [row : BOOLEAN, level : Levels \union {None}, added : SUBSET Subscription,
                     found : SUBSET Subscription, deleted : SUBSET Subscription]
  BY DEF Untouched
<1>2. QED
  BY <1>1 DEF TypeOK, Answers, Rollback, Forget, Goes, dbVars

LEMMA TypeOfDeclare ==
  ASSUME TypeOK, NEW t \in Txs, NEW declares \in BOOLEAN, Declare(t, declares),
         own' \in [Txs -> [row : BOOLEAN, level : Levels \union {None},
                           added : SUBSET Subscription, found : SUBSET Subscription,
                           deleted : SUBSET Subscription]]
  PROVE  TypeOK'
BY DEF TypeOK, Declare, Goes, dbVars

LEMMA TypeNext ==
  ASSUME TypeOK, PhaseInv, Next
  PROVE  TypeOK'
<1> DEFINE Owns == [row : BOOLEAN, level : Levels \union {None}, added : SUBSET Subscription,
                    found : SUBSET Subscription, deleted : SUBSET Subscription]
<1>1. ASSUME NEW p \in People, Change(p) PROVE TypeOK'
  BY <1>1, MailsAssumption DEF TypeOK, Change, Toggle, txVars
<1>2. ASSUME NEW t \in Txs, NEW c \in Commands, Begin(t, c) PROVE TypeOK'
  BY <1>2 DEF TypeOK, Begin, Goes, dbVars
<1>3. ASSUME NEW t \in Txs, NotFound(t) PROVE TypeOK'
  BY <1>3, TypeOfRollback DEF NotFound, TypeOK
<1>4. ASSUME NEW t \in Txs, Read(t) PROVE TypeOK'
  BY <1>4 DEF TypeOK, Read, Goes, dbVars
<1>5. ASSUME NEW t \in Txs, Check(t) PROVE TypeOK'
  <2>1. CASE Rollback(t)
    BY <1>5, <2>1, TypeOfRollback DEF Check, TypeOK
  <2>2. CASE ~ Rollback(t)
    BY <1>5, <2>2 DEF TypeOK, Check, Goes, dbVars
  <2>3. QED
    BY <2>1, <2>2
<1>6. ASSUME NEW t \in Txs, Create(t) PROVE TypeOK'
  <2>1. /\ command[t].level \in Levels \union {None}
        /\ [person : command[t].people, by : {t}] \in SUBSET Subscription
    BY <1>6, CommandType DEF Create, Subscription
  <2>2. own' \in [Txs -> Owns]
    BY <1>6, <2>1 DEF Create, Wrote, Untouched, TypeOK
  <2>3. QED
    BY <1>6, <2>2, TypeOfDeclare DEF Create
<1>7. ASSUME NEW t \in Txs, Comment(t) PROVE TypeOK'
  BY <1>7, TypeOfDeclare DEF Comment, TypeOK
<1>8. ASSUME NEW t \in Txs, NEW declares \in BOOLEAN, Edit(t, declares) PROVE TypeOK'
  <2>1. command[t].level \in Levels \union {None}
    BY <1>8, CommandType DEF Edit
  <2>2. \A b \in BOOLEAN : \A l \in {command[t].level, None} :
          [Untouched EXCEPT !.row = b, !.level = l] \in Owns
    BY <2>1 DEF Untouched
  <2>3. \E what \in Owns : own' = [own EXCEPT ![t] = what]
    BY <1>8, <2>2 DEF Edit, Wrote
  <2>4. own' \in [Txs -> Owns]
    BY <2>3 DEF TypeOK
  <2>5. QED
    BY <1>8, <2>4, TypeOfDeclare DEF Edit
<1>9. ASSUME NEW t \in Txs, Subscribe(t) PROVE TypeOK'
  <2>1. CASE Taken(t)
    BY <1>9, <2>1, TypeOfRollback DEF Subscribe, TypeOK
  <2>2. CASE ~ Taken(t)
    <3>1. [person : command[t].people, by : {t}] \in SUBSET Subscription
      BY <1>9, CommandType DEF Subscribe, Subscription
    <3>2. [Untouched EXCEPT !.added = [person : command[t].people, by : {t}]] \in Owns
      BY <3>1 DEF Untouched
    <3>3. own' \in [Txs -> Owns]
      BY <1>9, <2>2, <3>2 DEF Subscribe, Wrote, TypeOK
    <3>4. QED
      BY <1>9, <2>2, <3>3, TypeOfDeclare DEF Subscribe
  <2>3. QED
    BY <2>1, <2>2
<1>10. ASSUME NEW t \in Txs, Find(t) PROVE TypeOK'
  <2>1. own' \in [Txs -> Owns]
    BY <1>10 DEF Find, Wrote, Untouched, TypeOK
  <2>2. QED
    BY <1>10, <2>1 DEF TypeOK, Find, Goes, dbVars
<1>11. ASSUME NEW t \in Txs, Unsubscribe(t) PROVE TypeOK'
  <2>1. CASE StillThere(t) = {}
    BY <1>11, <2>1, TypeOfRollback DEF Unsubscribe, TypeOK
  <2>2. CASE StillThere(t) # {}
    <3>1. own[t] \in Owns
      BY DEF TypeOK
    <3>2. [own[t] EXCEPT !.deleted = StillThere(t)] \in Owns
      BY <3>1 DEF StillThere
    <3>3. Wrote(t, [own[t] EXCEPT !.deleted = StillThere(t)]) /\ Declare(t, FALSE)
      BY <1>11, <2>2 DEF Unsubscribe
    <3>4. own' \in [Txs -> Owns]
      <4> DEFINE what == [own[t] EXCEPT !.deleted = StillThere(t)]
      <4>1. what \in Owns /\ own \in [Txs -> Owns] /\ own' = [own EXCEPT ![t] = what]
        BY <3>2, <3>3 DEF Wrote, TypeOK
      <4> HIDE DEF what, Owns
      <4>2. QED
        BY <4>1
    <3>5. QED
      BY <3>3, <3>4, TypeOfDeclare
  <2>3. QED
    BY <2>1, <2>2
<1>12. ASSUME NEW t \in Txs, Visible(t) PROVE TypeOK'
  BY <1>12 DEF TypeOK, Visible, Goes, dbVars
<1>13. ASSUME NEW t \in Txs, NEW S \in SUBSET People, NEW to \in {"users", "permission", "commit"},
              Chooses(t, S, to)
       PROVE  TypeOK'
  BY <1>13 DEF TypeOK, Chooses, Goes, dbVars
<1>14. ASSUME NEW t \in Txs, Candidates(t) PROVE TypeOK'
  <2>1. command[t].people \subseteq People /\ Subscribers(RowsSeen(t)) \subseteq People
    BY <1>14, CommandType DEF Candidates, Subscribers, RowsSeen, TypeOK, Subscription
  <2>2. QED
    BY <1>13, <1>14, <2>1 DEF Candidates
<1>15. ASSUME NEW t \in Txs, Users(t) PROVE TypeOK'
  BY <1>13, <1>15 DEF Users, excludeActorDedupAndRequireEmail, TypeOK
<1>16. ASSUME NEW t \in Txs, Permission(t) PROVE TypeOK'
  BY <1>13, <1>16 DEF Permission, TypeOK
<1>17. ASSUME NEW t \in Txs, Commit(t) PROVE TypeOK'
  <2>1. /\ Untouched \in Owns /\ LevelSeen(t) \in Levels \union {None}
        /\ RowsSeen(t) \subseteq Subscription
    BY DEF Untouched, LevelSeen, RowsSeen, TypeOK
  <2>2. QED
    BY <1>17, <2>1 DEF TypeOK, Answers, Commit, Forget, Goes
<1>18. ASSUME NEW t \in Txs, Fail(t) PROVE TypeOK'
  BY <1>18, TypeOfRollback, MailsAssumption DEF Fail, TypeOK
<1>19. QED
  BY <1>1, <1>2, <1>3, <1>4, <1>5, <1>6, <1>7, <1>8, <1>9, <1>10, <1>11, <1>12, <1>14,
     <1>15, <1>16, <1>17, <1>18 DEF Next

-----------------------------------------------------------------------------
(* Where a transaction stands.                                             *)

LEMMA PhaseNext ==
  ASSUME TypeOK, PhaseInv, Next
  PROVE  PhaseInv'
<1> USE DEF Phase, After
<1>1. ASSUME NEW p \in People, Change(p) PROVE PhaseInv'
  BY <1>1 DEF PhaseInv, Change, txVars
<1>2. ASSUME NEW t \in Txs, Acts(t), Phase(t)' PROVE PhaseInv'
  <2>1. ASSUME NEW u \in Txs \ {t} PROVE Phase(u)'
    BY <1>2, OthersStay DEF PhaseInv
  <2>2. QED
    BY <1>2, <2>1 DEF PhaseInv
<1>3. ASSUME NEW t \in Txs, Acts(t) PROVE Phase(t)'
  <2>1. Phase(t)
    BY DEF PhaseInv
  <2>2. pc[t] # "idle" =>
          command[t].kind \in {"new", "edit", "comment", "subscribe", "unsubscribe"}
    BY CommandType
  <2>3. CASE \E c \in Commands : Begin(t, c)
    <3>1. PICK c \in Commands : Begin(t, c)
      BY <2>3
    <3>2. c.kind \in {"new", "edit", "comment", "subscribe", "unsubscribe"} /\ c # None
      BY MailsAssumption DEF Command
    <3>3. /\ pc[t] = "idle" /\ command'[t] = c /\ UNCHANGED <<announces, chosen, answer>>
          /\ pc'[t] = IF c.kind = "new" THEN "write" ELSE IF c.kind = "unsubscribe"
                      THEN "find" ELSE "read"
      BY <3>1 DEF Begin, Goes, TypeOK
    <3>4. QED
      BY <2>1, <3>2, <3>3
  <2>4. ASSUME Rollback(t), pc[t] # "idle" PROVE Phase(t)'
    <3>1. /\ pc'[t] = "done" /\ answer'[t] = "failure" /\ chosen'[t] = {}
          /\ UNCHANGED <<command, announces>>
      BY <2>4 DEF Rollback, Goes, Forget, TypeOK
    <3>2. QED
      BY <2>1, <2>4, <3>1, MailsAssumption DEF Answers
  <2>5. ASSUME NEW declares \in BOOLEAN, Declare(t, declares), pc[t] \in {"write", "delete"},
               declares => command[t].kind # "unsubscribe"
        PROVE  Phase(t)'
    <3>1. /\ pc'[t] = (IF declares THEN "visible" ELSE "commit") /\ announces'[t] = declares
          /\ UNCHANGED <<command, answer, chosen>>
      BY <2>5 DEF Declare, Goes, TypeOK
    <3>2. QED
      BY <2>1, <2>5, <3>1
  <2>6. CASE NotFound(t) \/ Fail(t)
    BY <2>4, <2>6 DEF NotFound, Fail
  <2>7. CASE Read(t)
    <3>1. /\ pc[t] = "read" /\ UNCHANGED <<command, announces, chosen, answer>>
          /\ pc'[t] = IF command[t].kind = "subscribe" THEN "check" ELSE "write"
      BY <2>7 DEF Read, Goes, TypeOK
    <3>2. QED
      BY <2>1, <3>1
  <2>8. CASE Check(t) /\ ~ Rollback(t)
    <3>1. /\ pc[t] = "check" /\ UNCHANGED <<command, announces, chosen, answer>>
          /\ pc'[t] = "write"
      BY <2>8 DEF Check, Goes, TypeOK
    <3>2. QED
      BY <2>1, <3>1
  <2>9. CASE Check(t) /\ Rollback(t)
    BY <2>4, <2>9 DEF Check
  <2>10. CASE Create(t)
    BY <2>5, <2>10 DEF Create
  <2>11. CASE Comment(t)
    BY <2>5, <2>11 DEF Comment
  <2>12. CASE \E declares \in BOOLEAN : Edit(t, declares)
    BY <2>5, <2>12 DEF Edit
  <2>13. CASE Subscribe(t)
    BY <2>4, <2>5, <2>13 DEF Subscribe
  <2>14. CASE Find(t)
    <3>1. /\ pc[t] = "find" /\ UNCHANGED <<command, announces, chosen, answer>>
          /\ pc'[t] = "delete"
      BY <2>14 DEF Find, Goes, TypeOK
    <3>2. QED
      BY <2>1, <3>1
  <2>15. CASE Unsubscribe(t)
    BY <2>4, <2>5, <2>15 DEF Unsubscribe
  <2>16. CASE Visible(t)
    <3>1. /\ pc[t] = "visible" /\ UNCHANGED <<command, announces, chosen, answer>>
          /\ pc'[t] \in {"candidates", "commit"}
      BY <2>16 DEF Visible, Goes, TypeOK
    <3>2. QED
      BY <2>1, <3>1
  <2>17. CASE Candidates(t) \/ Users(t) \/ Permission(t)
    <3>1. /\ pc[t] \in {"candidates", "users", "permission"}
          /\ UNCHANGED <<command, announces, answer>>
          /\ pc'[t] \in {"users", "permission", "commit"}
      BY <2>17 DEF Candidates, Users, Permission, Chooses, Goes, TypeOK
    <3>2. QED
      BY <2>1, <3>1
  <2>18. CASE Commit(t)
    <3>1. /\ pc[t] = "commit" /\ pc'[t] = "done" /\ answer'[t] = "success"
          /\ chosen'[t] = {} /\ UNCHANGED <<command, announces>>
      BY <2>18 DEF Commit, Forget, Goes, TypeOK
    <3>2. QED
      BY <2>1, <3>1, MailsAssumption DEF Answers
  <2>19. QED
    BY <1>3, <2>3, <2>6, <2>7, <2>8, <2>9, <2>10, <2>11, <2>12, <2>13, <2>14, <2>15,
       <2>16, <2>17, <2>18 DEF Acts
<1>4. QED
  BY <1>1, <1>2, <1>3, NextIs

-----------------------------------------------------------------------------
(* What a transaction has written.                                         *)

Adds(t) == pc[t] \in After /\ command[t].kind \in {"new", "subscribe"}

\* Rows are added by those who create or subscribe, and deleted, of those that were
\* found, by those who unsubscribe; and a creation has a level.
Written(t) ==
  /\ own[t].added = IF Adds(t) THEN [person : command[t].people, by : {t}] ELSE {}
  /\ own[t].level # None => pc[t] \in After
  /\ pc[t] \in After /\ command[t].kind = "new" => own[t].level # None
  /\ pc[t] \in After /\ command[t].kind = "unsubscribe" => own[t].deleted # {}
  /\ own[t].deleted # {} => pc[t] = "commit" /\ command[t].kind = "unsubscribe"
  /\ own[t].found # {} => pc[t] \in {"delete", "commit"}
  /\ \A r \in own[t].found \union own[t].deleted : r.person \in command[t].people
WriteInv == \A t \in Txs : Written(t)

\* A transaction goes on with what it has written, or has written nothing.
LEMMA WrittenStays ==
  ASSUME TypeOK, PhaseInv, WriteInv, NEW t \in Txs, own'[t] = own[t],
         \/ pc[t] = "idle" /\ pc'[t] \notin After
         \/ /\ UNCHANGED command /\ pc[t] \notin After \union {"delete"}
            /\ \/ pc'[t] \notin After
               \/ command[t].kind \notin {"new", "subscribe", "unsubscribe"}
         \/ UNCHANGED command /\ pc[t] \in After \ {"commit"} /\ pc'[t] \in After
  PROVE  Written(t)'
<1>1. Written(t) /\ Phase(t)
  BY DEF WriteInv, PhaseInv
<1>2. CASE pc[t] \notin After \union {"delete"}
  BY <1>1, <1>2 DEF Written, After, Adds, Phase
<1>3. CASE UNCHANGED command /\ pc[t] \in After \ {"commit"} /\ pc'[t] \in After
  BY <1>1, <1>3 DEF Written, After, Adds, Phase
<1>4. QED
  BY <1>2, <1>3 DEF After

LEMMA WrittenByNone ==
  ASSUME NEW t \in Txs, own'[t] = Untouched, pc'[t] \notin After
  PROVE  Written(t)'
BY DEF Written, Untouched, Adds, After

LEMMA WriteNext ==
  ASSUME TypeOK, PhaseInv, WriteInv, Next
  PROVE  WriteInv'
<1>1. ASSUME NEW p \in People, Change(p) PROVE WriteInv'
  BY <1>1 DEF WriteInv, Written, Adds, Change, txVars
<1>2. ASSUME NEW t \in Txs, Acts(t), Written(t)' PROVE WriteInv'
  <2>1. ASSUME NEW u \in Txs \ {t} PROVE Written(u)'
    <3>1. pc'[u] = pc[u] /\ command'[u] = command[u] /\ own'[u] = own[u]
      BY <1>2, OthersStay
    <3>2. Written(u)
      BY DEF WriteInv
    <3>3. QED
      BY <3>1, <3>2 DEF Written, Adds
  <2>2. QED
    BY <1>2, <2>1 DEF WriteInv
<1>3. ASSUME NEW t \in Txs, Acts(t) PROVE Written(t)'
  <2>1. Written(t) /\ Phase(t)
    BY DEF WriteInv, PhaseInv
  <2>2. CASE \E c \in Commands : Begin(t, c)
    <3>1. pc[t] = "idle" /\ own'[t] = own[t] /\ pc'[t] \notin After
      BY <2>2 DEF Begin, Goes, TypeOK, After
    <3>2. QED
      BY <3>1, WrittenStays
  <2>3. ASSUME Rollback(t) PROVE Written(t)'
    <3>1. own'[t] = Untouched /\ pc'[t] \notin After
      BY <2>3 DEF Rollback, Forget, Goes, TypeOK, After
    <3>2. QED
      BY <3>1, WrittenByNone
  <2>4. CASE NotFound(t) \/ Fail(t)
    BY <2>3, <2>4 DEF NotFound, Fail
  <2>5. CASE Read(t) \/ (Check(t) /\ ~ Rollback(t))
    <3>1. /\ pc[t] \notin After \union {"delete"} /\ own'[t] = own[t] /\ UNCHANGED command
          /\ pc'[t] \notin After
      BY <2>5 DEF Read, Check, Goes, TypeOK, After
    <3>2. QED
      BY <3>1, WrittenStays
  <2>6. CASE Check(t) /\ Rollback(t)
    BY <2>3, <2>6
  <2>7. CASE Create(t)
    <3>1. /\ own'[t].added = [person : command[t].people, by : {t}]
          /\ own'[t].level = command[t].level /\ own'[t].found = {} /\ own'[t].deleted = {}
          /\ command[t].kind = "new" /\ command'[t] = command[t] /\ pc'[t] = "visible"
      BY <2>7 DEF Create, Wrote, Declare, Goes, Untouched, TypeOK
    <3>2. command[t].level # None
      BY <2>7, <3>1, CommandType, MailsAssumption DEF Create
    <3>3. QED
      BY <3>1, <3>2 DEF Written, Adds, After
  <2>8. CASE Comment(t)
    <3>1. /\ pc[t] = "write" /\ own'[t] = own[t] /\ UNCHANGED command
          /\ command[t].kind = "comment"
      BY <2>8 DEF Comment, Declare
    <3>2. QED
      BY <3>1, WrittenStays DEF After
  <2>9. CASE \E declares \in BOOLEAN : Edit(t, declares)
    <3>1. /\ own'[t].added = {} /\ own'[t].found = {} /\ own'[t].deleted = {}
          /\ command[t].kind = "edit" /\ command'[t] = command[t]
          /\ pc'[t] \in {"visible", "commit"}
      BY <2>9 DEF Edit, Wrote, Declare, Goes, Untouched, TypeOK
    <3>2. QED
      BY <3>1 DEF Written, Adds, After
  <2>10. CASE Subscribe(t) /\ ~ Taken(t)
    <3>1. /\ own'[t].added = [person : command[t].people, by : {t}]
          /\ own'[t].level = None /\ own'[t].found = {} /\ own'[t].deleted = {}
          /\ command[t].kind = "subscribe" /\ command'[t] = command[t] /\ pc'[t] = "visible"
      <4>1. /\ Wrote(t, [Untouched EXCEPT !.added = [person : command[t].people, by : {t}]])
            /\ Declare(t, TRUE) /\ command[t].kind = "subscribe"
        BY <2>10 DEF Subscribe
      <4>2. QED
        BY <4>1 DEF Wrote, Declare, Goes, Untouched, TypeOK
    <3>2. QED
      BY <3>1 DEF Written, Adds, After
  <2>11. CASE Subscribe(t) /\ Taken(t)
    BY <2>3, <2>11 DEF Subscribe
  <2>12. CASE Find(t)
    <3>1. own' = [own EXCEPT ![t] = [Untouched EXCEPT
                    !.found = {r \in subscribed : r.person \in command[t].people}]]
      BY <2>12 DEF Find, Wrote
    <3>2. /\ own'[t].added = {} /\ own'[t].level = None /\ own'[t].deleted = {}
          /\ \A r \in own'[t].found : r.person \in command[t].people
      BY <3>1 DEF Untouched, TypeOK
    <3>3. command'[t] = command[t] /\ pc'[t] = "delete"
      BY <2>12 DEF Find, Goes, TypeOK
    <3>4. QED
      BY <3>2, <3>3 DEF Written, Adds, After
  <2>13. CASE Unsubscribe(t) /\ StillThere(t) # {}
    <3>1. Wrote(t, [own[t] EXCEPT !.deleted = StillThere(t)]) /\ Declare(t, FALSE)
          /\ pc[t] = "delete"
      BY <2>13 DEF Unsubscribe
    <3>2. /\ own'[t].added = own[t].added /\ own'[t].level = own[t].level
          /\ own'[t].found = own[t].found /\ own'[t].deleted = StillThere(t)
      BY <3>1 DEF Wrote, TypeOK
    <3>3. command'[t] = command[t] /\ pc'[t] = "commit" /\ command[t].kind = "unsubscribe"
      BY <2>1, <3>1 DEF Declare, Goes, TypeOK, Phase
    <3>4. StillThere(t) \subseteq own[t].found
      BY DEF StillThere
    <3>5. QED
      BY <2>1, <2>13, <3>1, <3>2, <3>3, <3>4 DEF Written, Adds, After
  <2>14. CASE Unsubscribe(t) /\ StillThere(t) = {}
    BY <2>3, <2>14 DEF Unsubscribe
  <2>15. CASE Visible(t) \/ Candidates(t) \/ Users(t) \/ Permission(t)
    <3>1. /\ pc[t] \in After \ {"commit"} /\ own'[t] = own[t] /\ UNCHANGED command
          /\ pc'[t] \in After
      BY <2>15 DEF Visible, Candidates, Users, Permission, Chooses, Goes, TypeOK, After
    <3>2. QED
      BY <3>1, WrittenStays
  <2>16. CASE Commit(t)
    <3>1. own'[t] = Untouched /\ pc'[t] \notin After
      BY <2>16 DEF Commit, Forget, Goes, TypeOK, After
    <3>2. QED
      BY <3>1, WrittenByNone
  <2>17. QED
    BY <1>3, <2>2, <2>4, <2>5, <2>6, <2>7, <2>8, <2>9, <2>10, <2>11, <2>12, <2>13, <2>14,
       <2>15, <2>16 DEF Acts
<1>4. QED
  BY <1>1, <1>2, <1>3, NextIs

-----------------------------------------------------------------------------
(* The keys of the rows.                                                   *)

\* The index of the table, which sees what is not committed yet: a person has one
\* row; who adds one is alone; and what is being deleted is there, for one of those
\* who delete it.
KeyInv ==
  /\ \A r, q \in subscribed : r.person = q.person => r = q
  /\ \A t \in Txs : \A r \in own[t].added, q \in subscribed : q.person # r.person
  /\ \A t \in Txs : own[t].deleted \subseteq subscribed
  /\ \A t, u \in Txs : t # u =>
       /\ \A r \in own[t].added, q \in own[u].added : r.person # q.person
       /\ own[t].deleted \intersect own[u].deleted = {}

\* There is one creation, and before it commits nobody does anything.
New(t) == command[t] # None /\ command[t].kind = "new"

NewInv ==
  /\ \A t, u \in Txs : New(t) /\ New(u) => t = u
  /\ level = None =>
       /\ subscribed = {}
       /\ \A t \in Txs : command[t] # None /\ ~ New(t) =>
            pc[t] \in {"read", "find", "delete", "done"} /\ answer[t] # "success"
  /\ \A t \in Txs : New(t) => /\ pc[t] # "done" => level = None
                              /\ answer[t] = "success" => level # None

\* All but a commit leaves the table as it is, and most do not write rows.
LEMMA KeysStay ==
  ASSUME KeyInv, subscribed' = subscribed,
         \A u \in Txs : /\ own'[u].added \subseteq own[u].added
                        /\ own'[u].deleted \subseteq own[u].deleted
  PROVE  KeyInv'
BY DEF KeyInv

\* A transaction that ends adds and deletes nothing any more.
LEMMA OwnAfterRollback ==
  ASSUME TypeOK, NEW t \in Txs, Rollback(t)
  PROVE  /\ subscribed' = subscribed
         /\ \A u \in Txs : /\ own'[u].added \subseteq own[u].added
                           /\ own'[u].deleted \subseteq own[u].deleted
BY DEF TypeOK, Rollback, Forget, Untouched, dbVars

LEMMA KeyNext ==
  ASSUME TypeOK, PhaseInv, WriteInv, KeyInv, NewInv, Next
  PROVE  KeyInv'
<1>1. ASSUME NEW p \in People, Change(p) PROVE KeyInv'
  BY <1>1, KeysStay DEF Change, txVars
<1>2. ASSUME NEW t \in Txs, Rollback(t) PROVE KeyInv'
  BY <1>2, OwnAfterRollback, KeysStay
<1>3. ASSUME subscribed' = subscribed, own' = own PROVE KeyInv'
  BY <1>3, KeysStay
<1>4. ASSUME NEW t \in Txs, Acts(t) PROVE KeyInv'
  <2>1. \A u \in Txs \ {t} : own'[u] = own[u]
    BY <1>4, OthersStay
  <2>2. CASE \E c \in Commands : Begin(t, c)
    BY <1>3, <2>2 DEF Begin, dbVars
  <2>3. CASE NotFound(t) \/ Fail(t)
    BY <1>2, <2>3 DEF NotFound, Fail
  <2>4. CASE Read(t) \/ Comment(t) \/ Visible(t) \/ Candidates(t) \/ Users(t) \/ Permission(t)
    BY <1>3, <2>4 DEF Read, Comment, Declare, Visible, Candidates, Users, Permission,
                      Chooses, dbVars
  <2>5. CASE Check(t)
    BY <1>2, <1>3, <2>5 DEF Check, dbVars
  <2>6. CASE \/ Find(t)
             \/ \E declares \in BOOLEAN : Edit(t, declares)
    <3>1. subscribed' = subscribed
      BY <2>6 DEF Find, Edit, Declare, dbVars
    <3>2. \/ \E S : own' = [own EXCEPT ![t] = [Untouched EXCEPT !.found = S]]
          \/ \E b, l : own' = [own EXCEPT ![t] = [Untouched EXCEPT !.row = b, !.level = l]]
      BY <2>6 DEF Find, Edit, Wrote
    <3>3. own'[t].added = {} /\ own'[t].deleted = {}
      <4>1. ASSUME NEW S, own' = [own EXCEPT ![t] = [Untouched EXCEPT !.found = S]]
            PROVE  own'[t].added = {} /\ own'[t].deleted = {}
        BY <4>1 DEF Untouched, TypeOK
      <4>2. ASSUME NEW b, NEW l,
                   own' = [own EXCEPT ![t] = [Untouched EXCEPT !.row = b, !.level = l]]
            PROVE  own'[t].added = {} /\ own'[t].deleted = {}
        BY <4>2 DEF Untouched, TypeOK
      <4>3. QED
        BY <3>2, <4>1, <4>2
    <3>4. QED
      BY <2>1, <3>1, <3>3, KeysStay
  <2>7. CASE Create(t)
    <3>1. /\ subscribed' = subscribed /\ own'[t].deleted = {}
          /\ pc[t] = "write" /\ command[t].kind = "new"
      BY <2>7 DEF Create, Declare, Wrote, Untouched, TypeOK, dbVars
    <3>2. New(t) /\ level = None
      BY <3>1, CommandType DEF New, NewInv
    <3>3. subscribed = {} /\ \A u \in Txs \ {t} : pc[u] \notin After
      <4>1. \A u \in Txs \ {t} : command[u] # None => ~ New(u)
        BY <3>2 DEF NewInv
      <4>2. \A u \in Txs \ {t} : command[u] = None => pc[u] = "idle"
        BY DEF PhaseInv, Phase
      <4>3. QED
        BY <3>2, <4>1, <4>2 DEF NewInv, After
    <3>4. \A u \in Txs \ {t} : own[u].added = {} /\ own[u].deleted = {}
      BY <3>3 DEF WriteInv, Written, Adds, After
    <3>5. QED
      BY <2>1, <3>1, <3>3, <3>4 DEF KeyInv
  <2>8. CASE Subscribe(t)
    <3>1. CASE Taken(t)
      BY <1>2, <2>8, <3>1 DEF Subscribe
    <3>2. CASE ~ Taken(t)
      <4>1. Wrote(t, [Untouched EXCEPT !.added = [person : command[t].people, by : {t}]])
            /\ Declare(t, TRUE) /\ KeyIsFree(t)
        BY <2>8, <3>2 DEF Subscribe
      <4>2. /\ own'[t].added = [person : command[t].people, by : {t}]
            /\ own'[t].deleted = {} /\ subscribed' = subscribed
        BY <4>1 DEF Wrote, Declare, Untouched, TypeOK, dbVars
      <4>3. \A r \in own'[t].added : r.person \in command[t].people
        BY <4>2
      <4>4. \A r \in own'[t].added, q \in subscribed : q.person # r.person
        BY <3>2, <4>3 DEF Taken, Subscribers
      <4>5. \A u \in Txs \ {t} : \A r \in own'[t].added, q \in own[u].added :
              r.person # q.person
        BY <4>1, <4>3 DEF KeyIsFree, Subscribers
      <4>6. \A u, x \in Txs : u # x =>
              /\ \A r \in own'[u].added, q \in own'[x].added : r.person # q.person
              /\ own'[u].deleted \intersect own'[x].deleted = {}
        <5>1. ASSUME NEW u \in Txs \ {t}
              PROVE  /\ \A r \in own'[u].added, q \in own'[t].added : r.person # q.person
                     /\ \A r \in own'[t].added, q \in own'[u].added : r.person # q.person
                     /\ own'[u].deleted \intersect own'[t].deleted = {}
          BY <2>1, <4>2, <4>5
        <5>2. ASSUME NEW u \in Txs \ {t}, NEW x \in Txs \ {t}, u # x
              PROVE  /\ \A r \in own'[u].added, q \in own'[x].added : r.person # q.person
                     /\ own'[u].deleted \intersect own'[x].deleted = {}
          <6>1. own'[u] = own[u] /\ own'[x] = own[x]
            BY <2>1
          <6>2. QED
            BY <5>2, <6>1 DEF KeyInv
        <5>3. QED
          BY <5>1, <5>2
      <4>7. QED
        BY <2>1, <4>2, <4>4, <4>6 DEF KeyInv
    <3>3. QED
      BY <3>1, <3>2
  <2>9. CASE Unsubscribe(t)
    <3>1. CASE StillThere(t) = {}
      BY <1>2, <2>9, <3>1 DEF Unsubscribe
    <3>2. CASE StillThere(t) # {}
      <4>1. /\ Wrote(t, [own[t] EXCEPT !.deleted = StillThere(t)]) /\ Declare(t, FALSE)
            /\ \A u \in Txs \ {t} : own[u].deleted \intersect own[t].found = {}
        BY <2>9, <3>2 DEF Unsubscribe
      <4>2. /\ own'[t].added = own[t].added /\ own'[t].deleted = StillThere(t)
            /\ subscribed' = subscribed
        BY <4>1 DEF Wrote, Declare, TypeOK, dbVars
      <4>3. StillThere(t) \subseteq own[t].found \intersect subscribed
        BY DEF StillThere
      <4>4. QED
        BY <2>1, <4>1, <4>2, <4>3 DEF KeyInv
    <3>3. QED
      BY <3>1, <3>2
  <2>10. CASE Commit(t)
    <3>1. /\ subscribed' = (subscribed \union own[t].added) \ own[t].deleted
          /\ own'[t].added = {} /\ own'[t].deleted = {}
      BY <2>10 DEF Commit, Forget, RowsSeen, Untouched, TypeOK
    <3>2. \A r, q \in own[t].added : r.person = q.person => r = q
      <4>1. own[t].added \subseteq [person : command[t].people, by : {t}]
        BY DEF WriteInv, Written
      <4>2. QED
        BY <4>1
    <3>3. QED
      BY <2>1, <3>1, <3>2 DEF KeyInv
  <2>11. QED
    BY <1>4, <2>2, <2>3, <2>4, <2>5, <2>6, <2>7, <2>8, <2>9, <2>10 DEF Acts
<1>5. QED
  BY <1>1, <1>4, NextIs

\* What may change the level or create.
LEMMA NewNext ==
  ASSUME TypeOK, PhaseInv, WriteInv, NewInv, Next
  PROVE  NewInv'
<1>1. ASSUME NEW p \in People, Change(p) PROVE NewInv'
  BY <1>1 DEF NewInv, New, Change, txVars
<1>2. ASSUME NEW t \in Txs, Acts(t) PROVE NewInv'
  <2>1. \A u \in Txs \ {t} : /\ pc'[u] = pc[u] /\ command'[u] = command[u]
                             /\ answer'[u] = answer[u]
    BY <1>2, OthersStay
  <2>2. CASE \E c \in Commands : Begin(t, c)
    <3>1. PICK c \in Commands : Begin(t, c)
      BY <2>2
    <3>2. /\ pc[t] = "idle" /\ command'[t] = c /\ UNCHANGED <<level, subscribed, answer>>
          /\ pc'[t] = IF c.kind = "new" THEN "write" ELSE IF c.kind = "unsubscribe"
                      THEN "find" ELSE "read"
          /\ c.kind = "new" => /\ level = None
                               /\ \A u \in Txs : command[u] # None => command[u].kind # "new"
      BY <3>1 DEF Begin, Goes, TypeOK, dbVars
    <3>3. answer[t] = None /\ None # "success" /\ c # None
      BY <3>2, MailsAssumption DEF PhaseInv, Phase, Answers
    <3>4. (\A u, x \in Txs : New(u) /\ New(x) => u = x)'
      BY <2>1, <3>2 DEF NewInv, New
    <3>5. ASSUME level = None, NEW u \in Txs, command'[u] # None, ~ New(u)'
          PROVE  pc'[u] \in {"read", "find", "delete", "done"} /\ answer'[u] # "success"
      BY <2>1, <3>2, <3>3, <3>5 DEF NewInv, New
    <3>6. ASSUME NEW u \in Txs, New(u)'
          PROVE  /\ pc'[u] # "done" => level = None
                 /\ answer'[u] = "success" => level # None
      BY <2>1, <3>2, <3>3, <3>6 DEF NewInv, New
    <3>7. QED
      BY <3>2, <3>4, <3>5, <3>6 DEF NewInv
  <2>3. ASSUME UNCHANGED <<level, subscribed, command>>, answer'[t] # "success",
               level = None /\ ~ New(t) => pc'[t] \in {"read", "find", "delete", "done"},
               pc[t] \notin {"idle", "done"}
        PROVE  NewInv'
    <3>1. \A u \in Txs : New(u)' <=> New(u)
      BY <2>3 DEF New
    <3>2. QED
      BY <2>1, <2>3, <3>1 DEF NewInv
  <2>4. answer[t] # "success" \/ pc[t] = "done"
    BY MailsAssumption DEF PhaseInv, Phase, Answers
  <2>5. ASSUME Rollback(t), pc[t] \notin {"idle", "done"} PROVE NewInv'
    <3>1. /\ UNCHANGED <<level, subscribed, command>> /\ answer'[t] # "success"
          /\ pc'[t] = "done"
      BY <2>5 DEF Rollback, Goes, TypeOK, dbVars
    <3>2. QED
      BY <2>3, <2>5, <3>1
  <2>6. level = None /\ ~ New(t) => pc[t] \in {"idle", "read", "find", "delete", "done"}
    BY DEF NewInv, PhaseInv, Phase
  <2>7. pc[t] \in {"idle", "done"} => \E c \in Commands : Begin(t, c)
    BY <1>2 DEF Acts, NotFound, Read, Check, Create, Comment, Edit, Subscribe, Find,
                Unsubscribe, Visible, Candidates, Users, Permission, Commit, Fail
  <2>8. CASE NotFound(t) \/ Fail(t)
    BY <2>5, <2>8 DEF NotFound, Fail
  <2>9. CASE Read(t)
    <3>1. /\ UNCHANGED <<level, subscribed, command, answer>> /\ level # None /\ pc[t] = "read"
      BY <2>9 DEF Read, dbVars
    <3>2. QED
      BY <2>3, <2>4, <3>1
  <2>10. CASE Check(t)
    <3>1. pc[t] = "check"
      BY <2>10 DEF Check
    <3>2. CASE Rollback(t)
      BY <2>5, <3>1, <3>2
    <3>3. CASE ~ Rollback(t)
      <4>1. UNCHANGED <<level, subscribed, command, answer>>
        BY <2>10, <3>3 DEF Check, dbVars
      <4>2. QED
        BY <2>3, <2>4, <2>6, <3>1, <4>1
    <3>4. QED
      BY <3>2, <3>3
  <2>11. ASSUME NEW declares, Declare(t, declares), pc[t] \in {"write", "delete"},
                pc[t] = "delete" => subscribed # {}
         PROVE  NewInv'
    <3>1. UNCHANGED <<level, subscribed, command, answer>>
      BY <2>11 DEF Declare, dbVars
    <3>2. level = None => New(t)
      BY <2>6, <2>11 DEF NewInv
    <3>3. QED
      BY <2>3, <2>4, <2>11, <3>1, <3>2
  <2>12. CASE Create(t) \/ Comment(t) \/ \E declares \in BOOLEAN : Edit(t, declares)
    BY <2>11, <2>12 DEF Create, Comment, Edit
  <2>13. CASE Subscribe(t)
    BY <2>5, <2>11, <2>13 DEF Subscribe
  <2>14. CASE Find(t)
    <3>1. /\ UNCHANGED <<level, subscribed, command, answer>> /\ pc[t] = "find"
          /\ pc'[t] = "delete"
      BY <2>14 DEF Find, Goes, TypeOK, dbVars
    <3>2. QED
      BY <2>3, <2>4, <3>1
  <2>15. CASE Unsubscribe(t)
    <3>1. StillThere(t) # {} => subscribed # {}
      BY DEF StillThere
    <3>2. QED
      BY <2>5, <2>11, <2>15, <3>1 DEF Unsubscribe
  <2>16. CASE Visible(t) \/ Candidates(t) \/ Users(t) \/ Permission(t)
    <3>1. /\ UNCHANGED <<level, subscribed, command, answer>>
          /\ pc[t] \in {"visible", "candidates", "users", "permission"}
      BY <2>16 DEF Visible, Candidates, Users, Permission, Chooses, dbVars
    <3>2. QED
      BY <2>3, <2>4, <2>6, <3>1
  <2>17. CASE Commit(t)
    <3>1. /\ pc[t] = "commit" /\ level' = LevelSeen(t) /\ command' = command
          /\ answer'[t] = "success" /\ pc'[t] = "done"
      BY <2>17 DEF Commit, Goes, TypeOK
    <3>2. level' # None
      <4>1. CASE New(t)
        BY <3>1, <4>1 DEF WriteInv, Written, After, New, LevelSeen
      <4>2. CASE ~ New(t)
        BY <2>6, <3>1, <4>2 DEF LevelSeen
      <4>3. QED
        BY <4>1, <4>2
    <3>3. \A u \in Txs : New(u)' <=> New(u)
      BY <3>1 DEF New
    <3>4. ASSUME NEW u \in Txs, New(u), pc'[u] # "done" PROVE FALSE
      <4>1. u # t /\ level = None
        BY <2>1, <3>1, <3>4 DEF NewInv
      <4>2. New(t)
        BY <2>6, <3>1, <4>1
      <4>3. QED
        BY <3>4, <4>1, <4>2 DEF NewInv
    <3>5. QED
      BY <2>1, <3>1, <3>2, <3>3, <3>4 DEF NewInv
  <2>18. QED
    BY <1>2, <2>2, <2>8, <2>9, <2>10, <2>12, <2>13, <2>14, <2>15, <2>16, <2>17 DEF Acts
<1>3. QED
  BY <1>1, <1>2, NextIs

-----------------------------------------------------------------------------
(* The answers and the rows.                                               *)

\* The successful commands of a kind that are about p, and the rows of p.
Tellers(kind, p) ==
  {t \in Txs : answer[t] = "success" /\ command[t].kind = kind /\ p \in command[t].people}
RowsOf(p) == {r \in subscribed : r.person = p}

Succeeded == {t \in Txs : answer[t] = "success"}

\* Only a commit touches the table, the level, or says that something was done.
LEMMA NoCommit ==
  ASSUME TypeOK, PhaseInv, NEW t \in Txs, Acts(t), ~ Commit(t)
  PROVE  /\ level' = level /\ subscribed' = subscribed /\ mails' = mails
         /\ answer[t] # "success" /\ answer'[t] # "success"
<1>1. answer[t] # "success"
  <2>1. pc[t] # "done"
    BY DEF Acts, Begin, NotFound, Read, Check, Create, Comment, Edit, Subscribe, Find,
           Unsubscribe, Visible, Candidates, Users, Permission, Fail
  <2>2. QED
    BY <2>1, MailsAssumption DEF PhaseInv, Phase, Answers
<1>2. Rollback(t) => UNCHANGED dbVars /\ answer'[t] # "success"
  BY DEF Rollback, TypeOK
<1>3. (\E declares : Declare(t, declares)) => UNCHANGED dbVars /\ answer' = answer
  BY DEF Declare
<1>4. CASE \/ \E c \in Commands : Begin(t, c)
           \/ Read(t) \/ Find(t) \/ Visible(t) \/ Candidates(t) \/ Users(t) \/ Permission(t)
           \/ (Check(t) /\ ~ Rollback(t))
  BY <1>1, <1>4 DEF Begin, Read, Find, Visible, Candidates, Users, Permission, Chooses,
                    Check, dbVars
<1>5. CASE \/ NotFound(t) \/ Fail(t) \/ (Check(t) /\ Rollback(t))
           \/ Create(t) \/ Comment(t) \/ (\E declares \in BOOLEAN : Edit(t, declares))
           \/ Subscribe(t) \/ Unsubscribe(t)
  <2>1. Rollback(t) \/ \E declares : Declare(t, declares)
    BY <1>5 DEF NotFound, Fail, Create, Comment, Edit, Subscribe, Unsubscribe
  <2>2. QED
    BY <1>1, <1>2, <1>3, <2>1 DEF dbVars
<1>6. QED
  BY <1>4, <1>5 DEF Acts

\* A step that neither succeeds nor changes the table.
LEMMA CountsStay ==
  ASSUME AnswersAddUp, IsFiniteSet(Succeeded), level' = level, subscribed' = subscribed,
         \A t \in Txs : /\ answer'[t] = "success" <=> answer[t] = "success"
                        /\ answer[t] = "success" => command'[t] = command[t]
  PROVE  AnswersAddUp' /\ IsFiniteSet(Succeeded)'
<1>1. \A kind, p : Told(kind, p)' = Told(kind, p)
  <2>1. \A kind, p :
          {t \in Txs : answer'[t] = "success" /\ command'[t].kind = kind
                         /\ p \in command'[t].people} = Tellers(kind, p)
    BY DEF Tellers
  <2>2. QED
    BY <2>1 DEF Told, Tellers
<1>2. Initially' = Initially
  BY DEF Initially, Created
<1>3. Succeeded' = Succeeded
  BY DEF Succeeded
<1>4. QED
  BY <1>1, <1>2, <1>3 DEF AnswersAddUp

\* A person has one row or none.
LEMMA RowsCount ==
  ASSUME NEW S, \A r, q \in S : r.person = q.person => r = q, NEW p
  PROVE  Cardinality({r \in S : r.person = p}) = IF p \in Subscribers(S) THEN 1 ELSE 0
<1>1. CASE p \in Subscribers(S)
  <2>1. PICK r \in S : r.person = p
    BY <1>1 DEF Subscribers
  <2>2. {q \in S : q.person = p} = {r}
    BY <2>1
  <2>3. QED
    BY <1>1, <2>2, FS_Singleton, Zenon
<1>2. CASE p \notin Subscribers(S)
  <2>1. {q \in S : q.person = p} = {}
    BY <1>2 DEF Subscribers
  <2>2. QED
    BY <1>2, <2>1, FS_EmptySet
<1>3. QED
  BY <1>1, <1>2

\* How many have been told of a kind, and how many after one more.
LEMMA ToldCounts ==
  ASSUME IsFiniteSet(Succeeded), NEW kind, NEW p
  PROVE  Told(kind, p) \in Nat /\ IsFiniteSet(Tellers(kind, p))
<1>1. Tellers(kind, p) \subseteq Succeeded
  BY DEF Tellers, Succeeded
<1>2. IsFiniteSet(Tellers(kind, p))
  BY <1>1, FS_Subset
<1>3. QED
  BY <1>2, FS_CardinalityType DEF Told, Tellers

LEMMA ToldOneMore ==
  ASSUME IsFiniteSet(Succeeded), NEW t \in Txs, answer[t] # "success", command' = command,
         answer' = [answer EXCEPT ![t] = "success"], answer \in [Txs -> Answers \union {None}],
         NEW kind, NEW p
  PROVE  /\ Told(kind, p)' = Told(kind, p) + IF command[t].kind = kind
                                                  /\ p \in command[t].people THEN 1 ELSE 0
         /\ Told(kind, p) \in Nat
<1> DEFINE T == Tellers(kind, p)
           next == {u \in Txs : answer'[u] = "success" /\ command'[u].kind = kind
                                  /\ p \in command'[u].people}
<1>1. Told(kind, p)' = Cardinality(next) /\ Told(kind, p) = Cardinality(T)
  BY DEF Told, Tellers
<1>2. IsFiniteSet(T) /\ t \notin T /\ Cardinality(T) \in Nat
  BY ToldCounts DEF Tellers, Told
<1>3. next = IF command[t].kind = kind /\ p \in command[t].people THEN T \union {t} ELSE T
  BY DEF Tellers
<1>4. Cardinality(T \union {t}) = Cardinality(T) + 1
  <2> HIDE DEF T
  <2>1. QED
    BY <1>2, FS_AddElement
<1>5. /\ command[t].kind = kind /\ p \in command[t].people => next = T \union {t}
      /\ ~ (command[t].kind = kind /\ p \in command[t].people) => next = T
  BY <1>3
<1>6. Cardinality(next) = Cardinality(T) + IF command[t].kind = kind
                                              /\ p \in command[t].people THEN 1 ELSE 0
  <2> HIDE DEF T, next
  <2>1. CASE command[t].kind = kind /\ p \in command[t].people
    <3>1. Cardinality(next) = Cardinality(T) + 1
      BY <1>4, <1>5, <2>1
    <3>2. QED
      BY <2>1, <3>1
  <2>2. CASE ~ (command[t].kind = kind /\ p \in command[t].people)
    <3>1. Cardinality(next) = Cardinality(T) + 0
      BY <1>2, <1>5, <2>2
    <3>2. QED
      BY <2>2, <3>1
  <2>3. QED
    BY <2>1, <2>2
<1>7. QED
  BY <1>1, <1>2, <1>6

\* A commit adds to the answers what it adds to the rows.
LEMMA CommitCounts ==
  ASSUME TypeOK, PhaseInv, WriteInv, KeyInv, KeyInv', NewInv, AnswersAddUp,
         IsFiniteSet(Succeeded), NEW t \in Txs, Commit(t)
  PROVE  AnswersAddUp' /\ IsFiniteSet(Succeeded)'
<1> DEFINE N(S, p) == Cardinality({r \in S : r.person = p})
           B(p, S) == IF p \in S THEN 1 ELSE 0
<1>1. /\ pc[t] = "commit" /\ command' = command /\ level' = LevelSeen(t)
      /\ answer' = [answer EXCEPT ![t] = "success"]
      /\ subscribed' = (subscribed \union own[t].added) \ own[t].deleted
  BY DEF Commit, RowsSeen
<1>2. /\ answer[t] # "success"
      /\ command[t].kind \in {"new", "edit", "comment", "subscribe", "unsubscribe"}
      /\ Written(t) /\ command[t] # None
  BY <1>1, CommandType, MailsAssumption DEF PhaseInv, Phase, WriteInv, Answers
<1>3. IsFiniteSet(Succeeded)'
  <2>1. Succeeded' = Succeeded \union {t}
    BY <1>1 DEF Succeeded, TypeOK
  <2>2. QED
    BY <2>1, FS_AddElement
<1>4. /\ \A p : N(subscribed, p) = B(p, Subscribers(subscribed))
      /\ \A p : N(subscribed', p) = B(p, Subscribers(subscribed'))
  BY RowsCount DEF KeyInv
<1>5. \A kind, p :
        /\ Told(kind, p)' = Told(kind, p) + IF command[t].kind = kind
                                               /\ p \in command[t].people THEN 1 ELSE 0
        /\ Told(kind, p) \in Nat
  BY <1>1, <1>2, ToldOneMore DEF TypeOK
<1>6. \A p \in People : N(subscribed, p) = B(p, Initially) + Told("new", p)
                          + Told("subscribe", p) - Told("unsubscribe", p)
  BY DEF AnswersAddUp
<1>7. ASSUME NEW p \in People
      PROVE  B(p, Subscribers(subscribed')) = B(p, Initially') + Told("new", p)'
               + Told("subscribe", p)' - Told("unsubscribe", p)'
  <2> DEFINE D(kind) == IF command[t].kind = kind /\ p \in command[t].people THEN 1 ELSE 0
  <2>3. /\ Told("new", p) \in Nat /\ Told("new", p)' = Told("new", p) + D("new")
        /\ Told("subscribe", p) \in Nat
        /\ Told("subscribe", p)' = Told("subscribe", p) + D("subscribe")
        /\ Told("unsubscribe", p) \in Nat
        /\ Told("unsubscribe", p)' = Told("unsubscribe", p) + D("unsubscribe")
    BY <1>5
  <2>4. B(p, Subscribers(subscribed)) = B(p, Initially) + Told("new", p)
          + Told("subscribe", p) - Told("unsubscribe", p)
    BY <1>4, <1>6
  <2>1. CASE command[t].kind = "new"
    <3>1. New(t) /\ level = None
      BY <1>1, <1>2, <2>1 DEF New, NewInv
    <3>2. \A u \in Txs : answer[u] # "success"
      <4>1. \A u \in Txs : command[u] = None => answer[u] # "success"
        BY MailsAssumption DEF PhaseInv, Phase, Answers
      <4>2. QED
        BY <1>2, <3>1, <4>1 DEF NewInv
    <3>3. \A kind : Told(kind, p) = 0
      BY <3>2, FS_EmptySet DEF Told
    <3>4. Initially' = {}
      <4>1. Created'
        BY <1>1, <2>1 DEF Created, TypeOK
      <4>2. QED
        BY <4>1 DEF Initially
    <3>5. p \in Subscribers(subscribed') <=> p \in command[t].people
      <4>1. subscribed' = [person : command[t].people, by : {t}]
        BY <1>1, <1>2, <2>1, <3>1 DEF Written, Adds, After, NewInv
      <4>2. QED
        <5>1. ASSUME p \in command[t].people PROVE p \in Subscribers(subscribed')
          <6>1. [person |-> p, by |-> t] \in subscribed'
            BY <4>1, <5>1
          <6>2. [person |-> p, by |-> t].person = p
            OBVIOUS
          <6>3. QED
            BY <6>1, <6>2 DEF Subscribers
        <5>2. \A r \in subscribed' : r.person \in command[t].people
          BY <4>1
        <5>3. QED
          BY <5>1, <5>2 DEF Subscribers
    <3>6. /\ Told("new", p) = 0 /\ Told("subscribe", p) = 0 /\ Told("unsubscribe", p) = 0
      BY <3>3
    <3>7. D("new") = B(p, command[t].people) /\ D("subscribe") = 0 /\ D("unsubscribe") = 0
      BY <2>1
    <3>8. B(p, Initially') = 0 /\ B(p, Subscribers(subscribed')) = B(p, command[t].people)
      BY <3>4, <3>5
    <3>9. B(p, command[t].people) \in Nat
      OBVIOUS
    <3>10. QED
      <4> HIDE DEF B, D
      <4>1. QED
        BY <2>3, <3>6, <3>7, <3>8, <3>9
  <2>2. CASE command[t].kind # "new"
    <3>1. level # None /\ level' # None
      BY <1>1, <1>2, <2>2 DEF NewInv, New, LevelSeen
    <3>2. Created' <=> Created
      BY <1>1, <1>2, <2>2 DEF Created, TypeOK
    <3>3. Initially' = Initially
      BY <3>1, <3>2 DEF Initially
    <3>4. CASE command[t].kind \in {"edit", "comment"}
      <4>1. subscribed' = subscribed
        BY <1>1, <1>2, <3>4 DEF Written, Adds
      <4>2. QED
        BY <2>3, <2>4, <3>3, <3>4, <4>1
    <3>5. CASE command[t].kind = "subscribe"
      <4>1. PICK q \in People : command[t].people = {q}
        BY <1>1, <3>5, CommandType
      <4>2. own[t].added = [person : {q}, by : {t}] /\ own[t].deleted = {}
        BY <1>1, <1>2, <3>5, <4>1 DEF Written, Adds, After
      <4>3. [person |-> q, by |-> t] \in own[t].added
        BY <4>2
      <4>4. q \notin Subscribers(subscribed)
        BY <4>3 DEF KeyInv, Subscribers
      <4>5. Subscribers(subscribed') = Subscribers(subscribed) \union {q}
        <5>1. /\ subscribed' = subscribed \union own[t].added
              /\ \A r \in own[t].added : r.person = q
          BY <1>1, <4>2
        <5>2. QED
          BY <4>3, <5>1 DEF Subscribers
      <4>6. QED
        BY <2>3, <2>4, <3>3, <3>5, <4>1, <4>4, <4>5
    <3>6. CASE command[t].kind = "unsubscribe"
      <4>1. PICK q \in People : command[t].people = {q}
        BY <1>1, <3>6, CommandType
      <4>2. /\ own[t].added = {} /\ own[t].deleted # {} /\ own[t].deleted \subseteq subscribed
            /\ \A r \in own[t].deleted : r.person = q
        BY <1>1, <1>2, <3>6, <4>1 DEF Written, Adds, After, KeyInv
      <4>3. q \in Subscribers(subscribed)
        BY <4>2 DEF Subscribers
      <4>4. Subscribers(subscribed') = Subscribers(subscribed) \ {q}
        <5>1. subscribed' = subscribed \ own[t].deleted
          BY <1>1, <4>2
        <5>2. \A r \in subscribed : r.person = q => r \in own[t].deleted
          BY <4>2 DEF KeyInv
        <5>3. QED
          BY <4>2, <5>1, <5>2 DEF Subscribers
      <4>5. QED
        BY <2>3, <2>4, <3>3, <3>6, <4>1, <4>3, <4>4
    <3>7. QED
      BY <1>2, <2>2, <3>4, <3>5, <3>6
  <2>5. QED
    BY <2>1, <2>2
<1>8. AnswersAddUp'
  BY <1>4, <1>7 DEF AnswersAddUp
<1>9. QED
  BY <1>3, <1>8

-----------------------------------------------------------------------------
(* The mails.                                                              *)

\* While it is telling, ever holds what is true and always only that.
Kept(t) == Telling(t) => Facts(t) \subseteq ever[t] /\ always[t] \subseteq Facts(t)

\* Who has been chosen so far was meant, and whatever has been asked was so.
Rightly(t) ==
  /\ pc[t] = "candidates" \/ chosen[t] # {} =>
       /\ announces[t] /\ <<"public", None>> \in ever[t]
       /\ command[t].kind = "comment" => command[t].level = "public"
  /\ \A p \in chosen[t] :
       /\ IF command[t].kind = "subscribe" THEN p \in command[t].people
          ELSE <<"subscribed", p>> \in ever[t]
       /\ pc[t] # "users" => p # command[t].actor /\ <<"addressed", p>> \in ever[t]
       /\ pc[t] = "commit" => <<"permitted", p>> \in ever[t]

\* Whoever it has always been so for is still among them.
Fully(t) ==
  pc[t] \in {"users", "permission", "commit"} /\ announces[t] =>
    \A p \in Meant(t) : Needed(t, p) \subseteq always[t] => p \in chosen[t]

MailInv == \A t \in Txs : Kept(t) /\ Rightly(t) /\ Fully(t)

LEMMA FactsAre ==
  ASSUME NEW t \in Txs, NEW p
  PROVE  /\ <<"public", None>> \in Facts(t) <=> LevelSeen(t) = "public"
         /\ <<"subscribed", p>> \in Facts(t) <=> p \in Subscribers(RowsSeen(t))
         /\ <<"permitted", p>> \in Facts(t) <=> p \in permitted
         /\ <<"addressed", p>> \in Facts(t) <=> p \in addressed
BY DEF Facts

\* What a step leaves of the history of a transaction.
LEMMA Remembered ==
  ASSUME Remember, NEW t \in Txs
  PROVE  /\ Kept(t)'
         /\ Telling(t) /\ Telling(t)' => ever[t] \subseteq ever'[t] /\ always'[t] \subseteq always[t]
         /\ ~ Telling(t)' /\ answer'[t] = "success" =>
              ever'[t] = ever[t] /\ always'[t] = always[t]
<1>1. /\ ever'[t] = Recall(t, ever[t] \union Facts(t)', ever[t])
      /\ always'[t] = Recall(t, IF Telling(t) THEN always[t] \intersect Facts(t)'
                                ELSE Facts(t)', always[t])
  BY DEF Remember
<1>2. CASE Telling(t)'
  <2>1. /\ ever'[t] = ever[t] \union Facts(t)'
        /\ always'[t] = IF Telling(t) THEN always[t] \intersect Facts(t)' ELSE Facts(t)'
    BY <1>1, <1>2 DEF Recall
  <2>2. Facts(t)' \subseteq ever'[t] /\ always'[t] \subseteq Facts(t)'
    BY <2>1
  <2>3. QED
    BY <1>2, <2>1, <2>2 DEF Kept
<1>3. CASE ~ Telling(t)'
  BY <1>1, <1>3 DEF Recall, Kept
<1>4. QED
  BY <1>2, <1>3

\* One that stays where it is only learns more.
LEMMA InformedStays ==
  ASSUME PhaseInv, MailInv, Remember, NEW t \in Txs,
         pc'[t] = pc[t], command'[t] = command[t], announces'[t] = announces[t],
         chosen'[t] = chosen[t]
  PROVE  Kept(t)' /\ Rightly(t)' /\ Fully(t)'
<1>1. Phase(t) /\ Rightly(t) /\ Fully(t)
  BY DEF PhaseInv, MailInv
<1>2. Kept(t)'
  BY Remembered
<1>3. CASE Telling(t)
  <2>1. ever[t] \subseteq ever'[t] /\ always'[t] \subseteq always[t]
    BY <1>3, Remembered DEF Telling
  <2>2. Rightly(t)'
    BY <1>1, <2>1 DEF Rightly
  <2>3. ASSUME NEW p PROVE (p \in Meant(t)' <=> p \in Meant(t)) /\ Needed(t, p)' = Needed(t, p)
    BY DEF Meant, Needed
  <2>4. Fully(t)'
    BY <1>1, <2>1, <2>3 DEF Fully
  <2>5. QED
    BY <1>2, <2>2, <2>4
<1>4. CASE ~ Telling(t)
  <2>1. pc[t] # "candidates" /\ chosen[t] = {}
    BY <1>1, <1>4 DEF Phase, After, Telling, Rightly
  <2>2. ~ (pc[t] \in {"users", "permission", "commit"} /\ announces[t])
    BY <1>4 DEF Telling
  <2>3. QED
    BY <1>2, <2>1, <2>2 DEF Rightly, Fully
<1>5. QED
  BY <1>3, <1>4

\* One that chooses nobody, and has not begun to.
LEMMA InformedQuietly ==
  ASSUME Remember, NEW t \in Txs, chosen'[t] = {}, pc'[t] # "candidates",
         pc'[t] \in {"users", "permission", "commit"} => ~ announces'[t]
  PROVE  Kept(t)' /\ Rightly(t)' /\ Fully(t)'
BY Remembered DEF Rightly, Fully

\* A question that has been asked.
LEMMA InformedByQuestion ==
  ASSUME TypeOK, PhaseInv, MailInv, Remember, NEW t \in Txs,
         Visible(t) \/ Candidates(t) \/ Users(t) \/ Permission(t)
  PROVE  Kept(t)' /\ Rightly(t)' /\ Fully(t)'
<1>1. /\ Phase(t) /\ Kept(t) /\ Rightly(t) /\ Fully(t)
      /\ announces[t] /\ pc[t] \in {"visible", "candidates", "users", "permission"}
  BY DEF PhaseInv, MailInv, Phase, After, Visible, Candidates, Users, Permission
<1>2. /\ UNCHANGED <<command, announces, own, permitted, addressed, level, subscribed>>
      /\ pc'[t] \in {"candidates", "users", "permission", "commit"}
  BY DEF Visible, Candidates, Users, Permission, Chooses, dbVars, Goes, TypeOK
<1>3. Telling(t) /\ Telling(t)'
  BY <1>1, <1>2 DEF Telling
<1>4. /\ Facts(t) \subseteq ever[t] /\ always[t] \subseteq Facts(t)
      /\ ever[t] \subseteq ever'[t] /\ always'[t] \subseteq always[t] /\ Kept(t)'
  BY <1>1, <1>3, Remembered DEF Kept
<1>5. \A p : (p \in Meant(t)' <=> p \in Meant(t)) /\ Needed(t, p)' = Needed(t, p)
  BY <1>2 DEF Meant, Needed
\* Of those for whom everything has always been true, all that is asked is true.
<1>6. ASSUME NEW p \in Meant(t), Needed(t, p) \subseteq always'[t]
      PROVE  /\ LevelSeen(t) = "public" /\ p \in permitted /\ p \in addressed
             /\ IF command[t].kind = "subscribe" THEN p \in command[t].people
                ELSE p \in Subscribers(RowsSeen(t))
             /\ command[t].kind = "comment" => command[t].level = "public"
             /\ p # command[t].actor
  <2>1. Needed(t, p) \subseteq Facts(t)
    BY <1>4, <1>6
  <2>2. /\ <<"public", None>> \in Needed(t, p) /\ <<"permitted", p>> \in Needed(t, p)
        /\ <<"addressed", p>> \in Needed(t, p)
        /\ command[t].kind # "subscribe" => <<"subscribed", p>> \in Needed(t, p)
    BY DEF Needed
  <2>3. /\ LevelSeen(t) = "public" /\ p \in permitted /\ p \in addressed
        /\ command[t].kind # "subscribe" => p \in Subscribers(RowsSeen(t))
    BY <2>1, <2>2, FactsAre
  <2>4. QED
    BY <1>6, <2>3 DEF Meant
<1>7. CASE Visible(t)
  <2>1. /\ pc[t] = "visible" /\ chosen'[t] = {}
        /\ pc'[t] = IF passesVisibility(t) THEN "candidates" ELSE "commit"
    BY <1>1, <1>7 DEF Visible, Goes, Phase, TypeOK
  <2>2. CASE passesVisibility(t)
    <3>1. <<"public", None>> \in ever'[t]
      BY <1>4, <2>2, FactsAre DEF passesVisibility
    <3>2. QED
      BY <1>1, <1>2, <1>4, <2>1, <2>2, <3>1 DEF Rightly, Fully, passesVisibility
  <2>3. CASE ~ passesVisibility(t)
    <3>1. \A p \in Meant(t) : ~ (Needed(t, p) \subseteq always'[t])
      BY <1>6, <2>3 DEF passesVisibility
    <3>2. QED
      BY <1>4, <1>5, <2>1, <2>3, <3>1 DEF Rightly, Fully
  <2>4. QED
    BY <2>2, <2>3
<1>8. CASE Candidates(t)
  <2>1. /\ pc[t] = "candidates" /\ pc'[t] \in {"users", "commit"}
        /\ chosen'[t] = IF command[t].kind = "subscribe" THEN command[t].people
                        ELSE Subscribers(RowsSeen(t))
        /\ pc'[t] = "commit" => chosen'[t] = {}
    BY <1>8 DEF Candidates, Chooses, Goes, TypeOK
  <2>2. Rightly(t)'
    <3>1. /\ <<"public", None>> \in ever'[t]
          /\ command[t].kind = "comment" => command[t].level = "public"
      BY <1>1, <1>4, <2>1 DEF Rightly
    <3>2. ASSUME NEW p \in chosen'[t]
          PROVE  IF command[t].kind = "subscribe" THEN p \in command[t].people
                 ELSE <<"subscribed", p>> \in ever'[t]
      BY <1>4, <2>1, <3>2, FactsAre
    <3>3. QED
      BY <1>1, <1>2, <2>1, <3>1, <3>2 DEF Rightly
  <2>3. Fully(t)'
    BY <1>5, <1>6, <2>1 DEF Fully
  <2>4. QED
    BY <1>4, <2>2, <2>3
<1>9. CASE Users(t)
  <2>1. /\ pc[t] = "users" /\ pc'[t] \in {"permission", "commit"}
        /\ chosen'[t] = (chosen[t] \intersect addressed) \ {command[t].actor}
        /\ pc'[t] = "commit" => chosen'[t] = {}
    BY <1>9 DEF Users, Chooses, Goes, excludeActorDedupAndRequireEmail, TypeOK
  <2>2. Rightly(t)'
    <3>1. \A p \in chosen'[t] : p \in chosen[t] /\ <<"addressed", p>> \in ever'[t]
      BY <1>4, <2>1, FactsAre
    <3>2. QED
      BY <1>1, <1>2, <1>4, <2>1, <3>1 DEF Rightly
  <2>3. \A p \in Meant(t) : Needed(t, p) \subseteq always'[t] => p \in chosen[t]
    BY <1>1, <1>4, <2>1 DEF Fully
  <2>4. Fully(t)'
    BY <1>5, <1>6, <2>1, <2>3 DEF Fully
  <2>5. QED
    BY <1>4, <2>2, <2>4
<1>10. CASE Permission(t)
  <2>1. /\ pc[t] = "permission" /\ pc'[t] = "commit"
        /\ chosen'[t] = chosen[t] \intersect permitted
    BY <1>10 DEF Permission, Chooses, Goes, TypeOK
  <2>2. Rightly(t)'
    <3>1. \A p \in chosen'[t] : p \in chosen[t] /\ <<"permitted", p>> \in ever'[t]
      BY <1>4, <2>1, FactsAre
    <3>2. QED
      BY <1>1, <1>2, <1>4, <2>1, <3>1 DEF Rightly
  <2>3. \A p \in Meant(t) : Needed(t, p) \subseteq always'[t] => p \in chosen[t]
    BY <1>1, <1>4, <2>1 DEF Fully
  <2>4. Fully(t)'
    BY <1>5, <1>6, <2>1, <2>3 DEF Fully
  <2>5. QED
    BY <1>4, <2>2, <2>4
<1>11. QED
  BY <1>7, <1>8, <1>9, <1>10

LEMMA MailNext ==
  ASSUME TypeOK, PhaseInv, MailInv, Next
  PROVE  MailInv'
<1>1. Remember
  BY NextIs
<1>2. ASSUME NEW p \in People, Change(p) PROVE MailInv'
  BY <1>1, <1>2, InformedStays DEF MailInv, Change, txVars
<1>3. ASSUME NEW t \in Txs, Acts(t) PROVE Kept(t)' /\ Rightly(t)' /\ Fully(t)'
  <2>1. pc[t] \notin {"users", "permission", "commit"} => chosen[t] = {}
    BY DEF PhaseInv, Phase
  <2>2. CASE Visible(t) \/ Candidates(t) \/ Users(t) \/ Permission(t)
    BY <1>1, <2>2, InformedByQuestion
  <2>3. CASE \E c \in Commands : Begin(t, c)
    <3>1. pc[t] = "idle" /\ chosen' = chosen /\ pc'[t] \in {"write", "find", "read"}
      BY <2>3 DEF Begin, Goes, TypeOK
    <3>2. QED
      BY <1>1, <2>1, <3>1, InformedQuietly
  <2>4. ASSUME Rollback(t) PROVE Kept(t)' /\ Rightly(t)' /\ Fully(t)'
    <3>1. pc'[t] = "done" /\ chosen'[t] = {}
      BY <2>4 DEF Rollback, Forget, Goes, TypeOK
    <3>2. QED
      BY <1>1, <3>1, InformedQuietly
  <2>5. ASSUME NEW declares \in BOOLEAN, Declare(t, declares), pc[t] \in {"write", "delete"}
        PROVE  Kept(t)' /\ Rightly(t)' /\ Fully(t)'
    <3>1. /\ chosen' = chosen /\ announces'[t] = declares
          /\ pc'[t] = IF declares THEN "visible" ELSE "commit"
      BY <2>5 DEF Declare, Goes, TypeOK
    <3>2. QED
      BY <1>1, <2>1, <2>5, <3>1, InformedQuietly
  <2>6. CASE Read(t) \/ Find(t) \/ (Check(t) /\ ~ Rollback(t))
    <3>1. /\ pc[t] \in {"read", "find", "check"} /\ chosen' = chosen
          /\ pc'[t] \in {"check", "write", "delete"}
      BY <2>6 DEF Read, Find, Check, Goes, TypeOK
    <3>2. QED
      BY <1>1, <2>1, <3>1, InformedQuietly
  <2>7. CASE NotFound(t) \/ Fail(t) \/ (Check(t) /\ Rollback(t))
    BY <2>4, <2>7 DEF NotFound, Fail
  <2>8. CASE Create(t) \/ Comment(t) \/ \E declares \in BOOLEAN : Edit(t, declares)
    BY <2>5, <2>8 DEF Create, Comment, Edit
  <2>9. CASE Subscribe(t) \/ Unsubscribe(t)
    BY <2>4, <2>5, <2>9 DEF Subscribe, Unsubscribe
  <2>10. CASE Commit(t)
    <3>1. pc'[t] = "done" /\ chosen'[t] = {}
      BY <2>10 DEF Commit, Forget, Goes, TypeOK
    <3>2. QED
      BY <1>1, <3>1, InformedQuietly
  <2>11. QED
    BY <1>3, <2>2, <2>3, <2>6, <2>7, <2>8, <2>9, <2>10 DEF Acts
<1>4. ASSUME NEW t \in Txs, Acts(t) PROVE MailInv'
  <2>1. ASSUME NEW u \in Txs \ {t} PROVE Kept(u)' /\ Rightly(u)' /\ Fully(u)'
    BY <1>1, <1>4, OthersStay, InformedStays
  <2>2. QED
    BY <1>3, <1>4, <2>1 DEF MailInv
<1>5. QED
  BY <1>2, <1>4, NextIs

\* What has succeeded stays as it was, and so does what was remembered of it.
LEMMA DoneStays ==
  ASSUME TypeOK, PhaseInv, Next, NEW u \in Txs, answer[u] = "success"
  PROVE  /\ answer'[u] = "success" /\ announces'[u] = announces[u]
         /\ command'[u] = command[u] /\ ever'[u] = ever[u] /\ always'[u] = always[u]
         /\ mails \subseteq mails'
<1>1. pc[u] = "done"
  BY MailsAssumption DEF PhaseInv, Phase, Answers
<1>2. /\ pc'[u] = pc[u] /\ answer'[u] = answer[u] /\ announces'[u] = announces[u]
      /\ command'[u] = command[u] /\ mails \subseteq mails'
  <2>1. ASSUME NEW t \in Txs, Acts(t)
        PROVE  /\ pc'[u] = pc[u] /\ answer'[u] = answer[u] /\ announces'[u] = announces[u]
               /\ command'[u] = command[u] /\ mails \subseteq mails'
    <3>1. mails \subseteq mails'
      BY <2>1, NoCommit DEF Commit
    <3>2. u # t
      BY <1>1, <2>1 DEF Acts, Begin, NotFound, Read, Check, Create, Comment, Edit, Subscribe,
           Find, Unsubscribe, Visible, Candidates, Users, Permission, Commit, Fail
    <3>3. QED
      BY <2>1, <3>1, <3>2, OthersStay
  <2>2. ASSUME NEW p \in People, Change(p)
        PROVE  /\ pc'[u] = pc[u] /\ answer'[u] = answer[u] /\ announces'[u] = announces[u]
               /\ command'[u] = command[u] /\ mails \subseteq mails'
    BY <2>2 DEF Change, txVars
  <2>3. QED
    BY <2>1, <2>2, NextIs
<1>3. ~ Telling(u)'
  BY <1>1, <1>2 DEF Telling
<1>4. QED
  BY <1>2, <1>3, NextIs, Remembered

\* A commit, of a transaction that has been told everything.
LEMMA CommitMails ==
  ASSUME TypeOK, PhaseInv, MailInv, Remember, NEW t \in Txs, Commit(t)
  PROVE  /\ answer'[t] = "success" /\ UNCHANGED <<command, announces>>
         /\ mails' = mails \union [to : chosen[t], by : {t}]
         /\ ever'[t] = ever[t] /\ always'[t] = always[t]
         /\ \A p \in chosen[t] :
              announces[t] /\ p \in Meant(t) /\ Needed(t, p) \subseteq ever[t]
         /\ announces[t] => \A p \in Meant(t) : Needed(t, p) \subseteq always[t] =>
                              p \in chosen[t]
<1>1. /\ pc[t] = "commit" /\ pc'[t] = "done" /\ answer'[t] = "success"
      /\ UNCHANGED <<command, announces>>
      /\ mails' = mails \union [to : chosen[t], by : {t}]
  BY DEF Commit, Goes, TypeOK
<1>2. ever'[t] = ever[t] /\ always'[t] = always[t]
  BY <1>1, Remembered DEF Telling
<1>3. Rightly(t) /\ Fully(t)
  BY DEF MailInv
<1>4. ASSUME NEW p \in chosen[t]
      PROVE  announces[t] /\ p \in Meant(t) /\ Needed(t, p) \subseteq ever[t]
  <2>1. p \in People
    BY <1>4 DEF TypeOK
  <2>2. /\ announces[t] /\ <<"public", None>> \in ever[t]
        /\ command[t].kind = "comment" => command[t].level = "public"
        /\ IF command[t].kind = "subscribe" THEN p \in command[t].people
           ELSE <<"subscribed", p>> \in ever[t]
        /\ p # command[t].actor /\ <<"addressed", p>> \in ever[t]
        /\ <<"permitted", p>> \in ever[t]
    BY <1>1, <1>3, <1>4 DEF Rightly
  <2>3. QED
    BY <2>1, <2>2 DEF Meant, Needed
<1>5. QED
  BY <1>1, <1>2, <1>3, <1>4 DEF Fully

\* Mails and successes come from commits.
LEMMA NewMails ==
  ASSUME TypeOK, PhaseInv, Next
  PROVE  /\ mails' # mails => \E t \in Txs : Commit(t) /\ Remember
         /\ \A u \in Txs : answer'[u] = "success" => answer[u] = "success" \/ (Commit(u) /\ Remember)
<1>1. ASSUME NEW t \in Txs, Acts(t)
      PROVE  /\ mails' # mails => Commit(t)
             /\ \A u \in Txs : answer'[u] = "success" => answer[u] = "success" \/ Commit(u)
  BY <1>1, NoCommit, OthersStay
<1>2. ASSUME NEW p \in People, Change(p)
      PROVE  mails' = mails /\ answer' = answer
  BY <1>2 DEF Change, txVars
<1>3. QED
  BY <1>1, <1>2, NextIs

LEMMA OnlyWhoMayNext ==
  ASSUME TypeOK, PhaseInv, MailInv, OnlyWhoMay, Next
  PROVE  OnlyWhoMay'
<1>1. ASSUME NEW m \in mails
      PROVE  /\ answer'[m.by] = "success" /\ announces'[m.by]
             /\ m.to \in Meant(m.by)' /\ Needed(m.by, m.to)' \subseteq ever'[m.by]
  <2>1. m.by \in Txs
    BY DEF TypeOK
  <2>2. /\ answer[m.by] = "success" /\ announces[m.by]
        /\ m.to \in Meant(m.by) /\ Needed(m.by, m.to) \subseteq ever[m.by]
    BY DEF OnlyWhoMay
  <2>3. /\ answer'[m.by] = "success" /\ announces'[m.by] = announces[m.by]
        /\ command'[m.by] = command[m.by] /\ ever'[m.by] = ever[m.by]
    BY <2>1, <2>2, DoneStays
  <2>4. QED
    BY <2>2, <2>3 DEF Meant, Needed
<1>2. ASSUME NEW t \in Txs, Commit(t), Remember, NEW m \in mails' \ mails
      PROVE  /\ answer'[m.by] = "success" /\ announces'[m.by]
             /\ m.to \in Meant(m.by)' /\ Needed(m.by, m.to)' \subseteq ever'[m.by]
  <2>1. m.by = t /\ m.to \in chosen[t]
    BY <1>2, CommitMails
  <2>2. /\ announces[t] /\ m.to \in Meant(t) /\ Needed(t, m.to) \subseteq ever[t]
        /\ answer'[t] = "success" /\ UNCHANGED <<command, announces>> /\ ever'[t] = ever[t]
    BY <1>2, <2>1, CommitMails
  <2>3. QED
    BY <2>1, <2>2 DEF Meant, Needed
<1>3. QED
  BY <1>1, <1>2, NewMails DEF OnlyWhoMay

LEMMA NobodyForgottenNext ==
  ASSUME TypeOK, PhaseInv, MailInv, NobodyForgotten, Next
  PROVE  NobodyForgotten'
<1> SUFFICES ASSUME NEW t \in Txs, answer'[t] = "success", announces'[t],
                    NEW p \in Meant(t)', Needed(t, p)' \subseteq always'[t]
             PROVE  [to |-> p, by |-> t] \in mails'
  BY DEF NobodyForgotten
<1>1. CASE answer[t] = "success"
  <2>1. /\ announces[t] /\ command'[t] = command[t] /\ always'[t] = always[t]
        /\ mails \subseteq mails'
    BY <1>1, DoneStays
  <2>2. p \in Meant(t) /\ Needed(t, p) \subseteq always[t]
    BY <2>1 DEF Meant, Needed
  <2>3. QED
    BY <1>1, <2>1, <2>2 DEF NobodyForgotten
<1>2. CASE Commit(t) /\ Remember
  <2>1. /\ announces[t] /\ command' = command /\ always'[t] = always[t]
        /\ mails' = mails \union [to : chosen[t], by : {t}]
    BY <1>2, CommitMails
  <2>2. p \in Meant(t) /\ Needed(t, p) \subseteq always[t]
    BY <2>1 DEF Meant, Needed
  <2>3. p \in chosen[t]
    BY <1>2, <2>1, <2>2, CommitMails
  <2>4. QED
    BY <2>1, <2>3
<1>3. QED
  BY <1>1, <1>2, NewMails

LEMMA AnswersNext ==
  ASSUME TypeOK, PhaseInv, WriteInv, KeyInv, KeyInv', NewInv, AnswersAddUp,
         IsFiniteSet(Succeeded), Next
  PROVE  AnswersAddUp' /\ IsFiniteSet(Succeeded)'
<1>1. ASSUME NEW t \in Txs, Acts(t), ~ Commit(t) PROVE AnswersAddUp' /\ IsFiniteSet(Succeeded)'
  <2>1. ASSUME NEW u \in Txs
        PROVE  /\ answer'[u] = "success" <=> answer[u] = "success"
               /\ answer[u] = "success" => command'[u] = command[u]
    BY <1>1, NoCommit, OthersStay
  <2>2. level' = level /\ subscribed' = subscribed
    BY <1>1, NoCommit
  <2>3. QED
    BY <2>1, <2>2, CountsStay
<1>2. ASSUME NEW p \in People, Change(p) PROVE AnswersAddUp' /\ IsFiniteSet(Succeeded)'
  BY <1>2, CountsStay DEF Change, txVars
<1>3. QED
  BY <1>1, <1>2, CommitCounts, NextIs

-----------------------------------------------------------------------------
(* The invariant and the theorems.                                         *)

Inv == /\ TypeOK /\ PhaseInv /\ WriteInv /\ KeyInv /\ NewInv /\ MailInv
       /\ OnlyWhoMay /\ NobodyForgotten /\ AnswersAddUp /\ IsFiniteSet(Succeeded)

LEMMA InvInit == Init => Inv
<1> SUFFICES ASSUME Init PROVE Inv
  OBVIOUS
<1>1. TypeOK
  BY MailsAssumption DEF Init, TypeOK, Subscription, Untouched
<1>2. PhaseInv /\ WriteInv /\ MailInv
  BY DEF Init, PhaseInv, Phase, After, WriteInv, Written, Adds, Untouched, MailInv, Kept,
         Rightly, Fully, Telling
<1>3. KeyInv /\ NewInv
  BY DEF Init, KeyInv, NewInv, New, Untouched, Subscribers
<1>4. OnlyWhoMay /\ NobodyForgotten
  BY MailsAssumption DEF Init, OnlyWhoMay, NobodyForgotten, Answers
<1>5. \A t \in Txs : answer[t] # "success"
  BY MailsAssumption DEF Init, Answers
<1>6. IsFiniteSet(Succeeded)
  BY <1>5, FS_EmptySet DEF Succeeded
<1>7. AnswersAddUp
  <2>1. \A kind, p : Told(kind, p) = 0
    BY <1>5, FS_EmptySet DEF Told
  <2>2. Initially = IF level = None THEN {} ELSE Earlier
    BY <1>5 DEF Initially, Created
  <2>3. \A p : p \in Subscribers(subscribed) <=> p \in Initially
    <3>1. CASE level = None
      BY <2>2, <3>1 DEF Init, Subscribers
    <3>2. CASE level # None
      <4>1. subscribed = [person : Earlier, by : {None}]
        BY <3>2 DEF Init
      <4>2. ASSUME NEW p \in Earlier PROVE p \in Subscribers(subscribed)
        <5>1. [person |-> p, by |-> None] \in subscribed
          BY <4>1, <4>2
        <5>2. [person |-> p, by |-> None].person = p
          OBVIOUS
        <5>3. QED
          BY <5>1, <5>2 DEF Subscribers
      <4>3. QED
        BY <2>2, <3>2, <4>1, <4>2 DEF Subscribers
    <3>3. QED
      BY <3>1, <3>2
  <2>4. \A p : Cardinality({r \in subscribed : r.person = p}) =
                 IF p \in Subscribers(subscribed) THEN 1 ELSE 0
    BY <1>3, RowsCount DEF KeyInv
  <2>5. QED
    BY <2>1, <2>3, <2>4 DEF AnswersAddUp
<1>8. QED
  BY <1>1, <1>2, <1>3, <1>4, <1>6, <1>7 DEF Inv

LEMMA InvNext == Inv /\ [Next]_vars => Inv'
<1> SUFFICES ASSUME Inv, [Next]_vars PROVE Inv'
  OBVIOUS
<1>1. CASE Next
  <2>1. TypeOK' /\ PhaseInv' /\ WriteInv' /\ KeyInv' /\ NewInv' /\ MailInv'
    BY <1>1, TypeNext, PhaseNext, WriteNext, KeyNext, NewNext, MailNext DEF Inv
  <2>2. OnlyWhoMay' /\ NobodyForgotten' /\ AnswersAddUp' /\ IsFiniteSet(Succeeded)'
    BY <1>1, <2>1, OnlyWhoMayNext, NobodyForgottenNext, AnswersNext DEF Inv
  <2>3. QED
    BY <2>1, <2>2 DEF Inv
<1>2. CASE UNCHANGED vars
  <2> USE <1>2 DEF vars, dbVars, txVars, history
  <2>1. TypeOK' /\ PhaseInv' /\ KeyInv' /\ NewInv'
    BY DEF Inv, TypeOK, PhaseInv, Phase, KeyInv, NewInv, New
  <2>2. WriteInv'
    BY DEF Inv, WriteInv, Written, Adds
  <2>3. MailInv'
    <3>1. ASSUME NEW t \in Txs PROVE Kept(t)' /\ Rightly(t)' /\ Fully(t)'
      <4>1. Kept(t) /\ Rightly(t) /\ Fully(t)
        BY DEF Inv, MailInv
      <4>2. Facts(t)' = Facts(t) /\ Telling(t)' = Telling(t)
        BY DEF Facts, LevelSeen, RowsSeen, Subscribers, Telling
      <4>3. \A p : (p \in Meant(t)' <=> p \in Meant(t)) /\ Needed(t, p)' = Needed(t, p)
        BY DEF Meant, Needed
      <4>4. QED
        BY <4>1, <4>2, <4>3 DEF Kept, Rightly, Fully
    <3>2. QED
      BY <3>1 DEF MailInv
  <2>4. OnlyWhoMay' /\ NobodyForgotten' /\ AnswersAddUp' /\ IsFiniteSet(Succeeded)'
    BY DEF Inv, OnlyWhoMay, NobodyForgotten, AnswersAddUp, Succeeded, Meant, Needed, Told,
           Initially, Created
  <2>5. QED
    BY <2>1, <2>2, <2>3, <2>4 DEF Inv
<1>3. QED
  BY <1>1, <1>2

LEMMA InvHolds == Spec => []Inv
BY InvInit, InvNext, PTL DEF Spec

\* Every variable keeps its type.
THEOREM MailsTypes == Spec => []TypeOK
<1>1. Inv => TypeOK
  BY DEF Inv
<1>2. QED
  BY <1>1, InvHolds, PTL

\* With any number of commands and of people, whatever permissions, addresses,
\* subscriptions and levels change between the questions: a mail goes only to people
\* it is meant for, who were subscribed, allowed and within reach, of what was
\* public, each at some moment between the writes of the command and its commit.
THEOREM MailsOnlyToWhoMay == Spec => []OnlyWhoMay
<1>1. Inv => OnlyWhoMay
  BY DEF Inv
<1>2. QED
  BY <1>1, InvHolds, PTL

\* Whoever was all that from the writes to the commit has a mail.
THEOREM MailsForgetNobody == Spec => []NobodyForgotten
<1>1. Inv => NobodyForgotten
  BY DEF Inv
<1>2. QED
  BY <1>1, InvHolds, PTL

\* The rows of the subscriptions are what the answers say: of every person the first
\* one, plus those said to be made, minus those said to be removed.
THEOREM SubscriptionsAddUp == Spec => []AnswersAddUp
<1>1. Inv => AnswersAddUp
  BY DEF Inv
<1>2. QED
  BY <1>1, InvHolds, PTL

\* Nobody is subscribed twice, however many commands subscribe the same person at once.
THEOREM NobodyIsTwice ==
  Spec => [](\A r, q \in subscribed : r.person = q.person => r = q)
<1>1. Inv => \A r, q \in subscribed : r.person = q.person => r = q
  BY DEF Inv, KeyInv
<1>2. QED
  BY <1>1, InvHolds, PTL
=============================================================================
