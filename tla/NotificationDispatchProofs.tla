--------------------- MODULE NotificationDispatchProofs ---------------------
(***************************************************************************)
(* Proofs about NotificationOutbox for every number of replicas and rows,  *)
(* every range of the settings and every number of faults; about the loop  *)
(* that runs its cycles, DispatchScheduler; and about CoreProcess for      *)
(* every margin, lifetime and latency that TokenAssumption allows.         *)
(***************************************************************************)
EXTENDS NotificationOutbox, CoreProcess, FiniteSetTheorems, TLAPS

USE BoundsAssumption

-----------------------------------------------------------------------------
(* Type correctness. *)

\* Between two cycles the settings are some settings.
LEMMA NoConfType == NoConf \in Setting
<1>1. \E setting \in Setting : TRUE
  <2>1. PICK b \in BatchSizes, m \in MaxAttemptsValues : TRUE
    BY SettingsAssumption
  <2>2. [batch |-> b, max |-> m] \in Setting
    BY <2>1 DEF Setting
  <2> QED  BY <2>2
<1> QED  BY <1>1 DEF NoConf

\* What becomes of a mail touches the counts of its own row only, and only
\* upwards; the server answers or takes the mail, so one of them grows.
LEMMA RecordCounts ==
  ASSUME TypeOK, NEW r \in Rows, NEW outcome \in Outcomes, Record(r, outcome)
  PROVE  /\ mailed' \in [Rows -> Nat] /\ late' \in [Rows -> Nat]
         /\ failures' \in [Rows -> Nat]
         /\ \A s \in Rows : /\ mailed'[s] >= mailed[s] /\ late'[s] >= late[s]
                            /\ failures'[s] >= failures[s]
         /\ \A s \in Rows \ {r} : mailed'[s] = mailed[s] /\ late'[s] = late[s]
         /\ mailed'[r] <= mailed[r] + 1
BY DEF TypeOK, Record

LEMMA RecordResolves ==
  ASSUME TypeOK, NEW r \in Rows, NEW outcome \in Outcomes, Record(r, outcome)
  PROVE  \E copied, errors \in {0, 1} :
           /\ copied + errors > 0
           /\ mailed' = [mailed EXCEPT ![r] = mailed[r] + copied]
           /\ failures' = [failures EXCEPT ![r] = failures[r] + errors]
<1>1. mailed \in [Rows -> Nat] /\ failures \in [Rows -> Nat]
  BY DEF TypeOK
<1>2. /\ [mailed EXCEPT ![r] = mailed[r] + 0] = mailed
      /\ [failures EXCEPT ![r] = failures[r] + 0] = failures
  BY <1>1
<1>3. CASE outcome = "accepted"
  <2>1. mailed' = [mailed EXCEPT ![r] = mailed[r] + 1] /\ failures' = failures
    BY <1>1, <1>3 DEF Record
  <2>2. 1 + 0 > 0
    OBVIOUS
  <2> QED  BY <1>2, <2>1, <2>2
<1>4. CASE outcome = "refused"
  <2>1. mailed' = mailed /\ failures' = [failures EXCEPT ![r] = failures[r] + 1]
    BY <1>1, <1>4 DEF Record
  <2>2. 0 + 1 > 0
    OBVIOUS
  <2> QED  BY <1>2, <2>1, <2>2
<1>5. CASE outcome = "late"
  <2>1. /\ mailed' = [mailed EXCEPT ![r] = mailed[r] + 1]
        /\ failures' = [failures EXCEPT ![r] = failures[r] + 1]
    BY <1>1, <1>5 DEF Record
  <2>2. 1 + 1 > 0
    OBVIOUS
  <2> QED  BY <2>1, <2>2
<1> QED  BY <1>3, <1>4, <1>5 DEF Outcomes


\* The wait of a row keeps its range when a tick passes: Elapse() stops at 0.
LEMMA ElapseType ==
  ASSUME NEW row \in Row
  PROVE  /\ Elapse(row) \in Row
         /\ Elapse(row).status = row.status
         /\ Elapse(row).attempts = row.attempts
BY DEF Elapse, Row

\* The backoff never exceeds its maximum, however many attempts there are.
LEMMA BackoffType ==
  ASSUME NEW attempts \in Nat
  PROVE  Backoff(attempts) \in 0..MaxWait
BY DEF Backoff

\* Changing the status of a row changes nothing else.
LEMMA WithStatusType ==
  ASSUME NEW row \in Row,
         NEW status \in {"absent", "pending", "sent", "discarded"}
  PROVE  /\ WithStatus(row, status) \in Row
         /\ WithStatus(row, status).status = status
         /\ WithStatus(row, status).attempts = row.attempts
BY DEF WithStatus, Row

\* A failed row is a row, either discarded or one attempt further.
LEMMA FailedType ==
  ASSUME NEW row \in Row, NEW max \in Nat, row.status = "pending"
  PROVE  /\ Failed(row, max) \in Row
         /\ \/ /\ Failed(row, max).status = "discarded"
               /\ Failed(row, max).attempts = row.attempts
               /\ row.attempts + 1 >= max
            \/ /\ Failed(row, max).status = "pending"
               /\ Failed(row, max).attempts = row.attempts + 1
               /\ row.attempts + 1 < max
<1>1. row.attempts \in Nat
  BY DEF Row
<1>2. CASE row.attempts + 1 >= max
  BY <1>1, <1>2, WithStatusType DEF Failed, Exhausted
<1>3. CASE row.attempts + 1 < max
  <2> DEFINE b == Backoff(row.attempts)
  <2>1. b \in 0..MaxWait
    BY <1>1, BackoffType
  <2>2. Failed(row, max) =
          [status |-> "pending", attempts |-> row.attempts + 1, wait |-> b]
    BY <1>1, <1>3 DEF Failed, Exhausted
  <2> HIDE DEF b
  <2> QED  BY <1>1, <1>3, <2>1, <2>2 DEF Row
<1> QED  BY <1>1, <1>2, <1>3

\* A cycle that fails and a process that dies leave the same behind: no lock,
\* no view, the table as it was, one fault more.
LEMMA AbortedCycle ==
  ASSUME NEW p \in Replicas, CycleFails(p) \/ Crash(p)
  PROVE  EndCycle(p) /\ outbox' = outbox /\ faults < MaxFaults /\ faults' = faults + 1
BY DEF CycleFails, Crash

\* The row whose send failed is pending and this cycle's own, so its fate is
\* that of FailedType.
LEMMA FailedRow ==
  ASSUME TypeOK, CycleInv, BatchesAreDisjoint,
         NEW p \in Replicas, pc[p] = "fail"
  PROVE  /\ current[p] \in todo[p] /\ current[p] \in claimed[p] /\ current[p] \in Rows
         /\ image[p][current[p]] = outbox[current[p]]
         /\ image[p][current[p]] \in Row
         /\ image[p][current[p]].status = "pending"
         /\ conf[p].max \in MaxAttemptsValues /\ conf[p].max \in Nat
<1>1. current[p] \in todo[p] /\ current[p] \in claimed[p] /\ current[p] \in Rows
  BY DEF CycleInv, TypeOK
<1>2. image[p][current[p]] = outbox[current[p]]
  BY <1>1 DEF CycleInv
<1>3. conf[p].max \in MaxAttemptsValues /\ conf[p].max \in Nat
  BY SettingsAssumption DEF TypeOK, Setting
<1> QED  BY <1>1, <1>2, <1>3 DEF BatchesAreDisjoint, TypeOK

\* The initial states are well typed.
LEMMA InitType == Init => TypeOK
<1> SUFFICES ASSUME Init PROVE TypeOK
  OBVIOUS
<1>1. Absent \in Row
  BY DEF Absent, Row
<1> QED  BY <1>1, NoConfType DEF Init, TypeOK

\* Every step keeps the type of every variable.
LEMMA NextType == TypeOK /\ CycleInv /\ BatchesAreDisjoint /\ [Next]_vars => TypeOK'
<1> SUFFICES ASSUME TypeOK, CycleInv, BatchesAreDisjoint, [Next]_vars PROVE TypeOK'
  OBVIOUS
<1> USE DEF TypeOK, db, cycle, history
<1>1. ASSUME NEW r \in Rows, Enqueue(r) PROVE TypeOK'
  BY <1>1, WithStatusType DEF Enqueue
<1>2. CASE ChangeSettings
  BY <1>2 DEF ChangeSettings
<1>3. CASE Tick
  BY <1>3, ElapseType DEF Tick
<1>4. ASSUME NEW p \in Replicas, StartCycle(p) PROVE TypeOK'
  BY <1>4 DEF StartCycle
<1>5. ASSUME NEW p \in Replicas, ReadSettings(p) PROVE TypeOK'
  BY <1>5 DEF ReadSettings
<1>6. ASSUME NEW p \in Replicas, Claim(p) PROVE TypeOK'
  BY <1>6 DEF Claim, Claimable, Absent, Row
<1>7. ASSUME NEW p \in Replicas, NEW r \in Rows, NEW outcome \in Outcomes,
             Send(p, r, outcome)
      PROVE  TypeOK'
  BY <1>7 DEF Send, Record, AfterSend, Outcomes
<1>8. ASSUME NEW p \in Replicas, MarkSent(p) PROVE TypeOK'
  <2>1. current[p] \in Rows
    BY <1>8 DEF MarkSent, CycleInv
  <2> QED  BY <1>8, <2>1, WithStatusType DEF MarkSent, NextRow
<1>9. ASSUME NEW p \in Replicas, MarkFailedOrDiscard(p) PROVE TypeOK'
  <2>1. pc[p] = "fail"
    BY <1>9 DEF MarkFailedOrDiscard
  <2>2. current[p] \in Rows /\ Failed(image[p][current[p]], conf[p].max) \in Row
    BY <2>1, FailedRow, FailedType
  <2> QED  BY <1>9, <2>2 DEF MarkFailedOrDiscard, NextRow
<1>10. ASSUME NEW p \in Replicas, Commit(p) PROVE TypeOK'
  BY <1>10, NoConfType DEF Commit, EndCycle, Absent, Row
<1>11. ASSUME NEW p \in Replicas, CycleFails(p) \/ Crash(p) PROVE TypeOK'
  <2>1. EndCycle(p) /\ outbox' = outbox /\ faults < MaxFaults /\ faults' = faults + 1
    BY <1>11, AbortedCycle
  <2>2. [r \in Rows |-> Absent] \in [Rows -> Row]
    BY DEF Absent, Row
  <2>3. faults' \in 0..MaxFaults
    BY <2>1
  <2> QED  BY <2>1, <2>2, <2>3, NoConfType DEF EndCycle
<1>12. CASE UNCHANGED vars
  BY <1>12 DEF vars
<1>13. ASSUME NEW p \in Replicas, NEW r \in Rows, LoseSession(p, r) PROVE TypeOK'
  <2>1. [s \in Rows |-> Absent] \in [Rows -> Row]
    BY DEF Absent, Row
  <2> QED  BY <1>13, <2>1, NoConfType DEF LoseSession
<1>14. ASSUME NEW p \in Replicas, NEW outcome \in Outcomes, Land(p, outcome) PROVE TypeOK'
  <2>1. current[p] \in Rows
    BY <1>14 DEF Land, CycleInv
  <2> QED  BY <1>14, <2>1, RecordCounts DEF Land
<1> QED
  BY <1>1, <1>2, <1>3, <1>4, <1>5, <1>6, <1>7, <1>8, <1>9, <1>10, <1>11, <1>12,
     <1>13, <1>14
     DEF Next, CycleStep

-----------------------------------------------------------------------------
(* Batches: SKIP LOCKED divides the queue. *)

\* Every step keeps what the position of a cycle says of its transaction.
LEMMA CycleInvStep ==
  ASSUME TypeOK, CycleInv, BatchesAreDisjoint, [Next]_vars
  PROVE  CycleInv'
<1> USE DEF TypeOK, db, cycle, history
<1>1. ASSUME NEW r \in Rows, Enqueue(r) PROVE CycleInv'
  BY <1>1, WithStatusType DEF Enqueue, CycleInv, BatchesAreDisjoint
<1>2. CASE ChangeSettings
  BY <1>2 DEF ChangeSettings, CycleInv, BatchesAreDisjoint
<1>3. CASE Tick
  BY <1>3, ElapseType DEF Tick, CycleInv, BatchesAreDisjoint
<1>4. ASSUME NEW p \in Replicas, StartCycle(p) PROVE CycleInv'
  BY <1>4 DEF StartCycle, CycleInv, BatchesAreDisjoint
<1>5. ASSUME NEW p \in Replicas, ReadSettings(p) PROVE CycleInv'
  BY <1>5 DEF ReadSettings, CycleInv, BatchesAreDisjoint
<1>6. ASSUME NEW p \in Replicas, Claim(p) PROVE CycleInv'
  BY <1>6 DEF Claim, Claimable, Locked, CycleInv, BatchesAreDisjoint
<1>7. ASSUME NEW p \in Replicas, NEW r \in Rows, NEW outcome \in Outcomes,
             Send(p, r, outcome)
      PROVE  CycleInv'
  BY <1>7 DEF Send, Record, AfterSend, Outcomes, CycleInv, BatchesAreDisjoint
<1>8. ASSUME NEW p \in Replicas, MarkSent(p) PROVE CycleInv'
  BY <1>8, WithStatusType DEF MarkSent, NextRow, CycleInv, BatchesAreDisjoint
<1>9. ASSUME NEW p \in Replicas, MarkFailedOrDiscard(p) PROVE CycleInv'
  BY <1>9 DEF MarkFailedOrDiscard, NextRow, CycleInv, BatchesAreDisjoint
<1>10. ASSUME NEW p \in Replicas, Commit(p) PROVE CycleInv'
  BY <1>10 DEF Commit, EndCycle, CycleInv, BatchesAreDisjoint
<1>11. ASSUME NEW p \in Replicas, CycleFails(p) \/ Crash(p) PROVE CycleInv'
  BY <1>11, AbortedCycle DEF EndCycle, CycleInv, BatchesAreDisjoint
<1>12. CASE UNCHANGED vars
  BY <1>12 DEF vars, CycleInv, BatchesAreDisjoint
<1>13. ASSUME NEW p \in Replicas, NEW r \in Rows, LoseSession(p, r) PROVE CycleInv'
  BY <1>13 DEF LoseSession, CycleInv
<1>14. ASSUME NEW p \in Replicas, NEW outcome \in Outcomes, Land(p, outcome) PROVE CycleInv'
  BY <1>14 DEF Land, CycleInv
<1> QED
  BY <1>1, <1>2, <1>3, <1>4, <1>5, <1>6, <1>7, <1>8, <1>9, <1>10, <1>11, <1>12,
     <1>13, <1>14
     DEF Next, CycleStep

\* No step lets two replicas hold one row, or settles a row someone holds.
LEMMA BatchesStep ==
  ASSUME TypeOK, CycleInv, BatchesAreDisjoint, [Next]_vars
  PROVE  BatchesAreDisjoint'
<1> USE DEF TypeOK, db, cycle, history
<1>1. ASSUME NEW r \in Rows, Enqueue(r) PROVE BatchesAreDisjoint'
  BY <1>1, WithStatusType DEF Enqueue, CycleInv, BatchesAreDisjoint
<1>2. CASE ChangeSettings
  BY <1>2 DEF ChangeSettings, CycleInv, BatchesAreDisjoint
<1>3. CASE Tick
  BY <1>3, ElapseType DEF Tick, CycleInv, BatchesAreDisjoint
<1>4. ASSUME NEW p \in Replicas, StartCycle(p) PROVE BatchesAreDisjoint'
  BY <1>4 DEF StartCycle, CycleInv, BatchesAreDisjoint
<1>5. ASSUME NEW p \in Replicas, ReadSettings(p) PROVE BatchesAreDisjoint'
  BY <1>5 DEF ReadSettings, CycleInv, BatchesAreDisjoint
<1>6. ASSUME NEW p \in Replicas, Claim(p) PROVE BatchesAreDisjoint'
  BY <1>6 DEF Claim, Claimable, Locked, CycleInv, BatchesAreDisjoint
<1>7. ASSUME NEW p \in Replicas, NEW r \in Rows, NEW outcome \in Outcomes,
             Send(p, r, outcome)
      PROVE  BatchesAreDisjoint'
  BY <1>7 DEF Send, Record, AfterSend, Outcomes, CycleInv, BatchesAreDisjoint
<1>8. ASSUME NEW p \in Replicas, MarkSent(p) PROVE BatchesAreDisjoint'
  BY <1>8, WithStatusType DEF MarkSent, NextRow, CycleInv, BatchesAreDisjoint
<1>9. ASSUME NEW p \in Replicas, MarkFailedOrDiscard(p) PROVE BatchesAreDisjoint'
  BY <1>9 DEF MarkFailedOrDiscard, NextRow, CycleInv, BatchesAreDisjoint
<1>10. ASSUME NEW p \in Replicas, Commit(p) PROVE BatchesAreDisjoint'
  BY <1>10 DEF Commit, EndCycle, CycleInv, BatchesAreDisjoint
<1>11. ASSUME NEW p \in Replicas, CycleFails(p) \/ Crash(p) PROVE BatchesAreDisjoint'
  <2>1. EndCycle(p) /\ outbox' = outbox /\ faults < MaxFaults /\ faults' = faults + 1
    BY <1>11, AbortedCycle
  <2>2. claimed'[p] = {} /\ \A q \in Replicas \ {p} : claimed'[q] = claimed[q]
    BY <2>1 DEF EndCycle
  <2> QED  BY <2>1, <2>2 DEF BatchesAreDisjoint
<1>12. CASE UNCHANGED vars
  BY <1>12 DEF vars, CycleInv, BatchesAreDisjoint
<1>13. ASSUME NEW p \in Replicas, NEW r \in Rows, LoseSession(p, r) PROVE BatchesAreDisjoint'
  BY <1>13 DEF LoseSession, BatchesAreDisjoint
<1>14. ASSUME NEW p \in Replicas, NEW outcome \in Outcomes, Land(p, outcome) PROVE BatchesAreDisjoint'
  BY <1>14 DEF Land, BatchesAreDisjoint
<1> QED
  BY <1>1, <1>2, <1>3, <1>4, <1>5, <1>6, <1>7, <1>8, <1>9, <1>10, <1>11, <1>12,
     <1>13, <1>14
     DEF Next, CycleStep

-----------------------------------------------------------------------------
(* Mails: a row is sent only after its mail. *)

\* Every step keeps the mail of a row ahead of its record.
LEMMA MailInvStep ==
  ASSUME TypeOK, CycleInv, BatchesAreDisjoint, MailInv, [Next]_vars
  PROVE  MailInv'
<1> USE DEF TypeOK, db, cycle, history
<1>1. ASSUME NEW r \in Rows, Enqueue(r) PROVE MailInv'
  BY <1>1, WithStatusType DEF Enqueue, CycleInv, BatchesAreDisjoint, MailInv, SentWasMailed
<1>2. CASE ChangeSettings
  BY <1>2 DEF ChangeSettings, CycleInv, BatchesAreDisjoint, MailInv, SentWasMailed
<1>3. CASE Tick
  <2>1. \A r \in Rows : outbox'[r].status = outbox[r].status
    BY <1>3, ElapseType DEF Tick
  <2>2. \A p \in Replicas, r \in Rows : image'[p][r].status = image[p][r].status
    BY <1>3, ElapseType DEF Tick
  <2> QED  BY <1>3, <2>1, <2>2 DEF Tick, MailInv, SentWasMailed
<1>4. ASSUME NEW p \in Replicas, StartCycle(p) PROVE MailInv'
  BY <1>4 DEF StartCycle, CycleInv, BatchesAreDisjoint, MailInv, SentWasMailed
<1>5. ASSUME NEW p \in Replicas, ReadSettings(p) PROVE MailInv'
  BY <1>5 DEF ReadSettings, CycleInv, BatchesAreDisjoint, MailInv, SentWasMailed
<1>6. ASSUME NEW p \in Replicas, Claim(p) PROVE MailInv'
  BY <1>6 DEF Claim, Claimable, Locked, CycleInv, BatchesAreDisjoint, MailInv, SentWasMailed
<1>7. ASSUME NEW p \in Replicas, NEW r \in Rows, NEW outcome \in Outcomes,
             Send(p, r, outcome)
      PROVE  MailInv'
  BY <1>7 DEF Send, Record, AfterSend, Outcomes, CycleInv, BatchesAreDisjoint, MailInv, SentWasMailed
<1>8. ASSUME NEW p \in Replicas, MarkSent(p) PROVE MailInv'
  BY <1>8, WithStatusType DEF MarkSent, NextRow, CycleInv, BatchesAreDisjoint, MailInv, SentWasMailed
<1>9. ASSUME NEW p \in Replicas, MarkFailedOrDiscard(p) PROVE MailInv'
  <2>1. pc[p] = "fail"
    BY <1>9 DEF MarkFailedOrDiscard
  <2>2. Failed(image[p][current[p]], conf[p].max).status # "sent"
    BY <2>1, FailedRow, FailedType
  <2> QED
    BY <1>9, <2>2 DEF MarkFailedOrDiscard, NextRow, CycleInv, MailInv, SentWasMailed
<1>10. ASSUME NEW p \in Replicas, Commit(p) PROVE MailInv'
  BY <1>10 DEF Commit, EndCycle, CycleInv, BatchesAreDisjoint, MailInv, SentWasMailed
<1>11. ASSUME NEW p \in Replicas, CycleFails(p) \/ Crash(p) PROVE MailInv'
  <2>1. EndCycle(p) /\ outbox' = outbox /\ faults < MaxFaults /\ faults' = faults + 1
    BY <1>11, AbortedCycle
  <2>2. claimed'[p] = {} /\ pc'[p] = "idle"
    BY <2>1 DEF EndCycle
  <2>3. \A q \in Replicas \ {p} : /\ claimed'[q] = claimed[q] /\ pc'[q] = pc[q]
                                  /\ current'[q] = current[q] /\ image'[q] = image[q]
    BY <2>1 DEF EndCycle
  <2>4. mailed' = mailed
    BY <2>1 DEF EndCycle
  <2> QED  BY <2>1, <2>2, <2>3, <2>4 DEF MailInv, SentWasMailed
<1>12. CASE UNCHANGED vars
  BY <1>12 DEF vars, CycleInv, BatchesAreDisjoint, MailInv, SentWasMailed
<1>13. ASSUME NEW p \in Replicas, NEW r \in Rows, LoseSession(p, r) PROVE MailInv'
  BY <1>13 DEF LoseSession, MailInv, SentWasMailed
<1>14. ASSUME NEW p \in Replicas, NEW outcome \in Outcomes, Land(p, outcome) PROVE MailInv'
  <2>1. current[p] \in Rows
    BY <1>14 DEF Land, CycleInv
  <2>2. \A s \in Rows : mailed[s] > 0 => mailed'[s] > 0
    BY <1>14, <2>1, RecordCounts DEF Land
  <2> QED  BY <1>14, <2>2 DEF Land, CycleInv, MailInv, SentWasMailed
<1> QED
  BY <1>1, <1>2, <1>3, <1>4, <1>5, <1>6, <1>7, <1>8, <1>9, <1>10, <1>11, <1>12,
     <1>13, <1>14
     DEF Next, CycleStep

-----------------------------------------------------------------------------
(* Attempts: they count failures that took place. *)

\* No step records an attempt that did not fail, gives a row up too early or
\* leaves it pending past every maximum.
LEMMA AttemptsInvStep ==
  ASSUME TypeOK, CycleInv, BatchesAreDisjoint, AttemptsInv, [Next]_vars
  PROVE  AttemptsInv'
<1> USE DEF TypeOK, db, cycle, history
<1>1. ASSUME NEW r \in Rows, Enqueue(r) PROVE AttemptsInv'
  <2>1. outbox[r].attempts = 0 /\ \E max \in MaxAttemptsValues : 0 < max
    <3>1. outbox[r].attempts = 0
      BY <1>1 DEF Enqueue, AttemptsInv, Honest
    <3>2. PICK max \in MaxAttemptsValues : max \in Nat \ {0}
      BY SettingsAssumption
    <3> QED  BY <3>1, <3>2
  <2>2. outbox'[r].status = "pending" /\ outbox'[r].attempts = 0
    BY <1>1, <2>1, WithStatusType DEF Enqueue
  <2>3. Honest(outbox'[r], failures[r])
    BY <2>1, <2>2 DEF Honest
  <2> QED  BY <1>1, <2>3 DEF Enqueue, AttemptsInv
<1>2. CASE ChangeSettings
  BY <1>2 DEF ChangeSettings, AttemptsInv, Honest
<1>3. CASE Tick
  <2>1. \A r \in Rows : /\ outbox'[r].status = outbox[r].status
                       /\ outbox'[r].attempts = outbox[r].attempts
    BY <1>3, ElapseType DEF Tick
  <2>2. \A p \in Replicas, r \in Rows :
          /\ image'[p][r].status = image[p][r].status
          /\ image'[p][r].attempts = image[p][r].attempts
    BY <1>3, ElapseType DEF Tick
  <2>3. \A p \in Replicas : /\ claimed[p] \subseteq Rows
                            /\ pc[p] = "fail" => current[p] \in Rows
    BY DEF CycleInv
  <2>4. UNCHANGED <<pc, claimed, current, failures>>
    BY <1>3 DEF Tick
  <2>5. \A r \in Rows : Honest(outbox[r], failures[r]) => Honest(outbox'[r], failures[r])
    BY <2>1 DEF Honest
  <2>6. \A p \in Replicas, r \in Rows :
          Honest(image[p][r], failures[r]) => Honest(image'[p][r], failures[r])
    BY <2>2 DEF Honest
  <2> QED  BY <2>2, <2>3, <2>4, <2>5, <2>6 DEF AttemptsInv
<1>4. ASSUME NEW p \in Replicas, StartCycle(p) PROVE AttemptsInv'
  BY <1>4 DEF StartCycle, AttemptsInv, Honest
<1>5. ASSUME NEW p \in Replicas, ReadSettings(p) PROVE AttemptsInv'
  BY <1>5 DEF ReadSettings, AttemptsInv, Honest
<1>6. ASSUME NEW p \in Replicas, Claim(p) PROVE AttemptsInv'
  BY <1>6 DEF Claim, Claimable, AttemptsInv, Honest
<1>7. ASSUME NEW p \in Replicas, NEW r \in Rows, NEW outcome \in Outcomes,
             Send(p, r, outcome)
      PROVE  AttemptsInv'
  <2>1. \A s \in Rows : failures'[s] >= failures[s]
    BY <1>7, RecordCounts DEF Send
  <2>2. \A q \in Replicas : pc'[q] = "fail" =>
          image[q][current'[q]].attempts < failures'[current'[q]]
    <3>1. outcome # "accepted" => image[p][r].attempts < failures'[r]
      BY <1>7 DEF Send, Record, CycleInv, Row, AttemptsInv, Honest
    <3> QED  BY <1>7, <2>1, <3>1 DEF Send, Record, AfterSend, CycleInv, Row, AttemptsInv, Honest
  <2>3. \A s \in Rows : \A row \in Row : Honest(row, failures[s]) => Honest(row, failures'[s])
    BY <1>7, <2>1, SettingsAssumption DEF Send, Record, Row, Honest
  <2> QED  BY <1>7, <2>2, <2>3 DEF Send, AttemptsInv
<1>8. ASSUME NEW p \in Replicas, MarkSent(p) PROVE AttemptsInv'
  <2>1. current[p] \in Rows /\ current[p] \in claimed[p]
    BY <1>8 DEF MarkSent, CycleInv
  <2>2. /\ WithStatus(image[p][current[p]], "sent").status = "sent"
        /\ WithStatus(image[p][current[p]], "sent").attempts = image[p][current[p]].attempts
    BY <2>1, WithStatusType
  <2>3. Honest(WithStatus(image[p][current[p]], "sent"), failures[current[p]])
    BY <2>1, <2>2 DEF AttemptsInv, Honest
  <2> QED  BY <1>8, <2>1, <2>2, <2>3 DEF MarkSent, NextRow, CycleInv, AttemptsInv
<1>9. ASSUME NEW p \in Replicas, MarkFailedOrDiscard(p) PROVE AttemptsInv'
  <2> DEFINE row == image[p][current[p]]
             max == conf[p].max
  <2>1. pc[p] = "fail"
    BY <1>9 DEF MarkFailedOrDiscard
  <2>2. /\ current[p] \in Rows /\ row \in Row /\ row.status = "pending"
        /\ max \in MaxAttemptsValues /\ max \in Nat
    BY <2>1, FailedRow
  <2>3. row.attempts < failures[current[p]]
    BY <2>1 DEF AttemptsInv
  <2> HIDE DEF row, max
  <2>4. row.attempts \in Nat /\ failures[current[p]] \in Nat
    BY <2>2 DEF Row
  <2>5. ASSUME Failed(row, max).status = "discarded"
        PROVE  Honest(Failed(row, max), failures[current[p]])
    <3>1. Failed(row, max).attempts = row.attempts /\ row.attempts + 1 >= max
      BY <2>2, <2>5, FailedType
    <3> QED  BY <2>2, <2>3, <2>4, <2>5, <3>1 DEF Honest
  <2>6. ASSUME Failed(row, max).status = "pending"
        PROVE  Honest(Failed(row, max), failures[current[p]])
    <3>1. Failed(row, max).attempts = row.attempts + 1 /\ row.attempts + 1 < max
      BY <2>2, <2>6, FailedType
    <3> QED  BY <2>2, <2>3, <2>4, <2>6, <3>1 DEF Honest
  <2>7. Honest(Failed(row, max), failures[current[p]]) /\ Failed(row, max).status # "absent"
    <3>1. Failed(row, max).status \in {"discarded", "pending"}
      BY <2>2, FailedType
    <3> QED  BY <2>5, <2>6, <3>1
  <2>8. image' = [image EXCEPT ![p][current[p]] = Failed(row, max)]
    BY <1>9 DEF MarkFailedOrDiscard, row, max
  <2> QED  BY <1>9, <2>2, <2>7, <2>8 DEF MarkFailedOrDiscard, NextRow, CycleInv, AttemptsInv
<1>10. ASSUME NEW p \in Replicas, Commit(p) PROVE AttemptsInv'
  BY <1>10 DEF Commit, EndCycle, CycleInv, AttemptsInv
<1>11. ASSUME NEW p \in Replicas, CycleFails(p) \/ Crash(p) PROVE AttemptsInv'
  <2>1. EndCycle(p) /\ outbox' = outbox /\ faults < MaxFaults /\ faults' = faults + 1
    BY <1>11, AbortedCycle
  <2>2. claimed'[p] = {} /\ pc'[p] = "idle"
    BY <2>1 DEF EndCycle
  <2>3. \A q \in Replicas \ {p} : /\ claimed'[q] = claimed[q] /\ pc'[q] = pc[q]
                                  /\ current'[q] = current[q] /\ image'[q] = image[q]
    BY <2>1 DEF EndCycle
  <2>4. failures' = failures
    BY <2>1 DEF EndCycle
  <2>5. \A r \in Rows : Honest(outbox[r], failures[r])'
    BY <2>1, <2>4 DEF AttemptsInv, Honest
  <2>6. ASSUME NEW q \in Replicas
        PROVE  /\ \A r \in claimed'[q] : /\ Honest(image[q][r], failures[r])'
                                         /\ image'[q][r].status # "absent"
               /\ pc'[q] = "fail" =>
                    image'[q][current'[q]].attempts < failures'[current'[q]]
    <3>1. CASE q = p
      BY <2>2, <3>1
    <3>2. CASE q # p
      BY <2>3, <2>4, <3>2 DEF AttemptsInv, Honest
    <3> QED  BY <3>1, <3>2
  <2> QED  BY <2>5, <2>6 DEF AttemptsInv
<1>12. CASE UNCHANGED vars
  BY <1>12 DEF vars, AttemptsInv
<1>13. ASSUME NEW p \in Replicas, NEW r \in Rows, LoseSession(p, r) PROVE AttemptsInv'
  BY <1>13 DEF LoseSession, AttemptsInv
<1>14. ASSUME NEW p \in Replicas, NEW outcome \in Outcomes, Land(p, outcome) PROVE AttemptsInv'
  <2>1. current[p] \in Rows
    BY <1>14 DEF Land, CycleInv
  <2>2. \A s \in Rows : failures'[s] >= failures[s] /\ failures'[s] \in Nat
    BY <1>14, <2>1, RecordCounts DEF Land
  <2>3. \A s \in Rows : \A row \in Row : Honest(row, failures[s]) => Honest(row, failures'[s])
    BY <2>2, SettingsAssumption DEF Row, Honest
  <2>4. \A q \in Replicas : pc[q] = "fail" =>
          /\ image[q][current[q]].attempts < failures'[current[q]]
    BY <2>2 DEF CycleInv, AttemptsInv, Row
  <2> QED  BY <1>14, <2>3, <2>4 DEF Land, AttemptsInv
<1> QED
  BY <1>1, <1>2, <1>3, <1>4, <1>5, <1>6, <1>7, <1>8, <1>9, <1>10, <1>11, <1>12,
     <1>13, <1>14
     DEF Next, CycleStep

\* No batch adds two attempts to a row, or takes one back.
LEMMA OneAttemptInvStep ==
  ASSUME TypeOK, CycleInv, BatchesAreDisjoint, OneAttemptInv, [Next]_vars
  PROVE  OneAttemptInv'
<1> USE DEF TypeOK, db, cycle, history
<1>1. ASSUME NEW r \in Rows, Enqueue(r) PROVE OneAttemptInv'
  <2>1. \A s \in Rows : outbox'[s].attempts = outbox[s].attempts
    BY <1>1, WithStatusType DEF Enqueue
  <2> QED  BY <1>1, <2>1 DEF Enqueue, OneAttemptInv
<1>2. CASE ChangeSettings
  BY <1>2 DEF ChangeSettings, OneAttemptInv
<1>3. CASE Tick
  <2>1. \A s \in Rows : outbox'[s].attempts = outbox[s].attempts
    BY <1>3, ElapseType DEF Tick
  <2>2. \A p \in Replicas, s \in Rows : image'[p][s].attempts = image[p][s].attempts
    BY <1>3, ElapseType DEF Tick
  <2>3. claimed' = claimed /\ \A p \in Replicas : claimed[p] \subseteq Rows
    BY <1>3 DEF Tick
  <2>4. ASSUME NEW p \in Replicas, NEW s \in claimed'[p]
        PROVE  image'[p][s].attempts \in {outbox'[s].attempts, outbox'[s].attempts + 1}
    <3>1. s \in Rows /\ s \in claimed[p]
      BY <2>3
    <3>2. image[p][s].attempts \in {outbox[s].attempts, outbox[s].attempts + 1}
      BY <3>1 DEF OneAttemptInv
    <3> HIDE DEF TypeOK
    <3> QED  BY <2>1, <2>2, <3>1, <3>2
  <2> QED  BY <2>4 DEF OneAttemptInv
<1>4. ASSUME NEW p \in Replicas, StartCycle(p) PROVE OneAttemptInv'
  BY <1>4 DEF StartCycle, OneAttemptInv
<1>5. ASSUME NEW p \in Replicas, ReadSettings(p) PROVE OneAttemptInv'
  BY <1>5 DEF ReadSettings, OneAttemptInv
<1>6. ASSUME NEW p \in Replicas, Claim(p) PROVE OneAttemptInv'
  <2>1. PICK S \in SUBSET Claimable :
          /\ claimed' = [claimed EXCEPT ![p] = S]
          /\ image' = [image EXCEPT ![p] =
                         [r \in Rows |-> IF r \in S THEN outbox[r] ELSE Absent]]
    BY <1>6 DEF Claim
  <2>2. S \subseteq Rows /\ outbox' = outbox
    BY <1>6, <2>1 DEF Claim, Claimable
  <2> QED  BY <2>1, <2>2 DEF OneAttemptInv
<1>7. ASSUME NEW p \in Replicas, NEW r \in Rows, NEW outcome \in Outcomes,
             Send(p, r, outcome)
      PROVE  OneAttemptInv'
  BY <1>7 DEF Send, OneAttemptInv
<1>8. ASSUME NEW p \in Replicas, MarkSent(p) PROVE OneAttemptInv'
  <2>1. current[p] \in Rows
    BY <1>8 DEF MarkSent, CycleInv
  <2>2. WithStatus(image[p][current[p]], "sent").attempts = image[p][current[p]].attempts
    BY <2>1, WithStatusType
  <2> QED  BY <1>8, <2>1, <2>2 DEF MarkSent, NextRow, OneAttemptInv
<1>9. ASSUME NEW p \in Replicas, MarkFailedOrDiscard(p) PROVE OneAttemptInv'
  <2> DEFINE row == image[p][current[p]]
             max == conf[p].max
  <2>1. pc[p] = "fail"
    BY <1>9 DEF MarkFailedOrDiscard
  <2>2. /\ current[p] \in Rows /\ row \in Row /\ row.status = "pending"
        /\ row = outbox[current[p]] /\ max \in Nat
    BY <2>1, FailedRow
  <2>3. image' = [image EXCEPT ![p][current[p]] = Failed(row, max)]
    BY <1>9 DEF MarkFailedOrDiscard
  <2> HIDE DEF row, max
  <2>4. Failed(row, max).attempts \in {row.attempts, row.attempts + 1}
    BY <2>2, FailedType
  <2> QED  BY <1>9, <2>2, <2>3, <2>4 DEF MarkFailedOrDiscard, NextRow, OneAttemptInv
<1>10. ASSUME NEW p \in Replicas, Commit(p) PROVE OneAttemptInv'
  <2>1. claimed'[p] = {} /\ \A q \in Replicas \ {p} : /\ claimed'[q] = claimed[q]
                                                   /\ image'[q] = image[q]
    BY <1>10 DEF Commit, EndCycle
  <2>2. \A q \in Replicas \ {p} : \A s \in claimed[q] : outbox'[s] = outbox[s]
    BY <1>10 DEF Commit, BatchesAreDisjoint
  <2> QED  BY <2>1, <2>2 DEF OneAttemptInv
<1>11. ASSUME NEW p \in Replicas, CycleFails(p) \/ Crash(p) PROVE OneAttemptInv'
  <2>1. EndCycle(p) /\ outbox' = outbox
    BY <1>11, AbortedCycle
  <2>2. claimed'[p] = {} /\ \A q \in Replicas \ {p} : /\ claimed'[q] = claimed[q]
                                                   /\ image'[q] = image[q]
    BY <2>1 DEF EndCycle
  <2> QED  BY <2>1, <2>2 DEF OneAttemptInv
<1>12. CASE UNCHANGED vars
  BY <1>12 DEF vars, OneAttemptInv
<1>13. ASSUME NEW p \in Replicas, NEW r \in Rows, LoseSession(p, r) PROVE OneAttemptInv'
  BY <1>13 DEF LoseSession, OneAttemptInv
<1>14. ASSUME NEW p \in Replicas, NEW outcome \in Outcomes, Land(p, outcome) PROVE OneAttemptInv'
  BY <1>14 DEF Land, OneAttemptInv
<1> QED
  BY <1>1, <1>2, <1>3, <1>4, <1>5, <1>6, <1>7, <1>8, <1>9, <1>10, <1>11, <1>12,
     <1>13, <1>14
     DEF Next, CycleStep

-----------------------------------------------------------------------------
(* Copies: every duplicate is paid for by a fault or a late answer. *)

\* The cycles adrift with a row are finitely many.
LEMMA AdriftCount ==
  ASSUME NEW r \in Rows
  PROVE  IsFiniteSet(Adrift(r)) /\ Cardinality(Adrift(r)) \in Nat
<1>1. Adrift(r) \subseteq Replicas
  BY DEF Adrift
<1> QED  BY <1>1, RowsAssumption, FS_Subset, FS_CardinalityType

\* Only a lost transaction sets a cycle adrift, and only its end ends that.
LEMMA AdriftKept ==
  ASSUME NEW p \in Replicas, TypeOK,
         \/ StartCycle(p) \/ ReadSettings(p) \/ Claim(p)
         \/ \E r \in Rows, outcome \in Outcomes : Send(p, r, outcome)
         \/ MarkSent(p) \/ MarkFailedOrDiscard(p) \/ Commit(p) \/ CycleFails(p)
  PROVE  \A s \in Rows : Adrift(s)' = Adrift(s)
<1>1. \A q \in Replicas \ {p} : pc'[q] = pc[q] /\ current'[q] = current[q]
  BY DEF TypeOK, StartCycle, ReadSettings, Claim, Send, MarkSent,
         MarkFailedOrDiscard, NextRow, Commit, CycleFails, EndCycle
<1>2. pc[p] # "adrift" /\ pc'[p] # "adrift"
  BY DEF TypeOK, StartCycle, ReadSettings, Claim, Send, AfterSend, MarkSent,
         MarkFailedOrDiscard, NextRow, Commit, CycleFails, EndCycle
<1> QED  BY <1>1, <1>2 DEF Adrift

\* A cycle that loses its transaction is one more adrift with its row.
LEMMA AdriftJoins ==
  ASSUME TypeOK, NEW p \in Replicas, NEW r \in Rows, LoseSession(p, r)
  PROVE  /\ Cardinality(Adrift(r)') = Cardinality(Adrift(r)) + 1
         /\ \A s \in Rows \ {r} : Adrift(s)' = Adrift(s)
<1>1. p \notin Adrift(r) /\ Adrift(r)' = Adrift(r) \cup {p}
  BY DEF TypeOK, LoseSession, Adrift
<1>2. \A s \in Rows \ {r} : Adrift(s)' = Adrift(s)
  BY DEF TypeOK, LoseSession, Adrift
<1> QED  BY <1>1, <1>2, AdriftCount, FS_AddElement

\* A cycle adrift that is over, or whose process dies, is one less.
LEMMA AdriftLeaves ==
  ASSUME TypeOK, NEW p \in Replicas, NEW r \in Rows,
         pc[p] = "adrift", current[p] = r,
         pc' = [pc EXCEPT ![p] = "idle"],
         current' = [current EXCEPT ![p] = NoRow]
  PROVE  /\ Cardinality(Adrift(r)') = Cardinality(Adrift(r)) - 1
         /\ Cardinality(Adrift(r)) > 0
         /\ \A s \in Rows \ {r} : Adrift(s)' = Adrift(s)
<1>1. p \in Adrift(r)
  BY DEF Adrift
<1>2. Adrift(r)' = Adrift(r) \ {p}
  BY RowsAssumption DEF TypeOK, Adrift
<1>3. \A s \in Rows \ {r} : Adrift(s)' = Adrift(s)
  BY RowsAssumption DEF TypeOK, Adrift
<1>4. Cardinality(Adrift(r)) # 0
  BY <1>1, AdriftCount, FS_EmptySet
<1>5. Cardinality(Adrift(r) \ {p}) = Cardinality(Adrift(r)) - 1
  BY <1>1, AdriftCount, FS_RemoveElement
<1>6. Cardinality(Adrift(r)) > 0
  BY <1>4, AdriftCount
<1>7. Cardinality(Adrift(r)') = Cardinality(Adrift(r)) - 1
  BY <1>2, <1>5
<1> QED  BY <1>3, <1>6, <1>7

\* A step that sends nothing and loses no record of a delivery is harmless.
LEMMA CopiesKept ==
  ASSUME TypeOK, CopiesInv, UNCHANGED <<mailed, late, faults>>,
         \A s \in Rows : Adrift(s)' = Adrift(s),
         \A s \in Rows : Delivered(s) => Delivered(s)'
  PROVE  CopiesInv'
<1>1. \A s \in Rows : Cardinality(Adrift(s)) \in Nat
  BY AdriftCount
<1> HIDE DEF Adrift
<1> QED  BY <1>1 DEF TypeOK, CopiesInv

\* No step sends a mail again that went out and whose record is not lost.
LEMMA CopiesInvStep ==
  ASSUME TypeOK, CycleInv, BatchesAreDisjoint, CopiesInv, [Next]_vars
  PROVE  CopiesInv'
<1> USE DEF TypeOK, db, cycle, history
<1>a. UNCHANGED <<pc, current>> => \A s \in Rows : Adrift(s)' = Adrift(s)
  BY DEF Adrift
<1>1. ASSUME NEW r \in Rows, Enqueue(r) PROVE CopiesInv'
  <2>1. \A s \in Rows : outbox[s].status = "sent" => outbox'[s].status = "sent"
    BY <1>1, WithStatusType DEF Enqueue
  <2>2. \A s \in Rows : Delivered(s) => Delivered(s)'
    BY <1>1, <2>1 DEF Enqueue, Delivered
  <2> QED  BY <1>1, <1>a, <2>2, CopiesKept DEF Enqueue
<1>2. CASE ChangeSettings
  <2>1. \A s \in Rows : Delivered(s) => Delivered(s)'
    BY <1>2 DEF ChangeSettings, Delivered
  <2> QED  BY <1>2, <1>a, <2>1, CopiesKept DEF ChangeSettings
<1>3. CASE Tick
  <2>1. \A s \in Rows : outbox'[s].status = outbox[s].status
    BY <1>3, ElapseType DEF Tick
  <2>2. \A p \in Replicas, s \in Rows : image'[p][s].status = image[p][s].status
    BY <1>3, ElapseType DEF Tick
  <2>3. \A s \in Rows : Delivered(s) => Delivered(s)'
    BY <1>3, <2>1, <2>2 DEF Tick, Delivered
  <2> QED  BY <1>3, <1>a, <2>3, CopiesKept DEF Tick
<1>4. ASSUME NEW p \in Replicas, StartCycle(p) PROVE CopiesInv'
  <2>1. \A s \in Rows : Delivered(s) => Delivered(s)'
    BY <1>4 DEF StartCycle, Delivered
  <2>a. \A s \in Rows : Adrift(s)' = Adrift(s)
    BY <1>4, AdriftKept
  <2> QED  BY <1>4, <2>a, <2>1, CopiesKept DEF StartCycle
<1>5. ASSUME NEW p \in Replicas, ReadSettings(p) PROVE CopiesInv'
  <2>1. \A s \in Rows : Delivered(s) => Delivered(s)'
    BY <1>5 DEF ReadSettings, Delivered
  <2>a. \A s \in Rows : Adrift(s)' = Adrift(s)
    BY <1>5, AdriftKept
  <2> QED  BY <1>5, <2>a, <2>1, CopiesKept DEF ReadSettings
<1>6. ASSUME NEW p \in Replicas, Claim(p) PROVE CopiesInv'
  <2>1. \A s \in Rows : Delivered(s) => Delivered(s)'
    BY <1>6 DEF Claim, CycleInv, Delivered
  <2>a. \A s \in Rows : Adrift(s)' = Adrift(s)
    BY <1>6, AdriftKept
  <2> QED  BY <1>6, <2>a, <2>1, CopiesKept DEF Claim
<1>7. ASSUME NEW p \in Replicas, NEW r \in Rows, NEW outcome \in Outcomes,
             Send(p, r, outcome)
      PROVE  CopiesInv'
  <2>1. ~Delivered(r)
    BY <1>7 DEF Send, CycleInv, BatchesAreDisjoint, Delivered
  <2>2. \A s \in Rows \ {r} : Delivered(s) => Delivered(s)'
    BY <1>7 DEF Send, Delivered
  <2>3. outcome = "accepted" => Delivered(r)'
    BY <1>7 DEF Send, Record, AfterSend, CycleInv, Delivered
  <2>4. \A s \in Rows \ {r} : mailed'[s] = mailed[s] /\ late'[s] = late[s]
    BY <1>7, RecordCounts DEF Send
  <2>5. \A s \in Rows : /\ Adrift(s)' = Adrift(s)
                        /\ Cardinality(Adrift(s)) \in Nat
    BY <1>7, AdriftKept, AdriftCount
  <2>6. mailed[r] + Cardinality(Adrift(r)) <= late[r] + faults /\ faults' = faults
    BY <1>7, <2>1 DEF Send, CopiesInv
  <2> HIDE DEF Delivered, Adrift
  <2>7. mailed'[r] + Cardinality(Adrift(r)') <=
          late'[r] + faults' + (IF Delivered(r)' THEN 1 ELSE 0)
    <3>1. CASE outcome = "accepted"
      BY <1>7, <2>3, <2>5, <2>6, <3>1 DEF Send, Record
    <3>2. CASE outcome = "refused"
      BY <1>7, <2>5, <2>6, <3>2 DEF Send, Record
    <3>3. CASE outcome = "late"
      BY <1>7, <2>5, <2>6, <3>3 DEF Send, Record
    <3> QED  BY <3>1, <3>2, <3>3 DEF Outcomes
  <2>8. \A s \in Rows \ {r} : mailed'[s] + Cardinality(Adrift(s)') <=
          late'[s] + faults' + (IF Delivered(s)' THEN 1 ELSE 0)
    BY <2>2, <2>4, <2>5, <2>6 DEF CopiesInv
  <2> QED  BY <2>7, <2>8 DEF CopiesInv
<1>8. ASSUME NEW p \in Replicas, MarkSent(p) PROVE CopiesInv'
  <2>1. current[p] \in Rows /\ current[p] \in claimed[p]
    BY <1>8 DEF MarkSent, CycleInv
  <2>2. WithStatus(image[p][current[p]], "sent").status = "sent"
    BY <2>1, WithStatusType
  <2>3. \A s \in Rows : Delivered(s) => Delivered(s)'
    BY <1>8, <2>1, <2>2 DEF MarkSent, NextRow, Delivered
  <2>a. \A s \in Rows : Adrift(s)' = Adrift(s)
    BY <1>8, AdriftKept
  <2> QED  BY <1>8, <2>a, <2>3, CopiesKept DEF MarkSent, NextRow
<1>9. ASSUME NEW p \in Replicas, MarkFailedOrDiscard(p) PROVE CopiesInv'
  <2>1. pc[p] = "fail"
    BY <1>9 DEF MarkFailedOrDiscard
  <2>2. image[p][current[p]].status # "sent"
    BY <2>1, FailedRow
  <2>3. \A s \in Rows : Delivered(s) => Delivered(s)'
    BY <1>9, <2>1, <2>2 DEF MarkFailedOrDiscard, NextRow, Delivered
  <2>a. \A s \in Rows : Adrift(s)' = Adrift(s)
    BY <1>9, AdriftKept
  <2> QED  BY <1>9, <2>a, <2>3, CopiesKept DEF MarkFailedOrDiscard, NextRow
<1>10. ASSUME NEW p \in Replicas, Commit(p) PROVE CopiesInv'
  <2>1. \A s \in Rows : Delivered(s) => Delivered(s)'
    <3> SUFFICES ASSUME NEW s \in Rows, Delivered(s) PROVE Delivered(s)'
      OBVIOUS
    <3>1. CASE s \in claimed[p]
      <4>1. image[p][s].status = "sent"
        BY <1>10, <3>1 DEF Commit, BatchesAreDisjoint, Delivered
      <4> QED  BY <1>10, <3>1, <4>1 DEF Commit, Delivered
    <3>2. CASE s \notin claimed[p]
      BY <1>10, <3>2 DEF Commit, EndCycle, Delivered
    <3> QED  BY <3>1, <3>2
  <2>a. \A s \in Rows : Adrift(s)' = Adrift(s)
    BY <1>10, AdriftKept
  <2> QED  BY <1>10, <2>a, <2>1, CopiesKept DEF Commit, EndCycle
<1>11. ASSUME NEW p \in Replicas, CycleFails(p) \/ Crash(p) PROVE CopiesInv'
  <2>1. EndCycle(p) /\ outbox' = outbox /\ faults < MaxFaults /\ faults' = faults + 1
    BY <1>11, AbortedCycle
  <2>2. mailed' = mailed /\ late' = late
    BY <2>1 DEF EndCycle
  <2>3. \A s \in Rows : /\ Adrift(s)' \subseteq Adrift(s)
                        /\ IsFiniteSet(Adrift(s)) /\ Cardinality(Adrift(s)) \in Nat
    BY <2>1, AdriftCount DEF EndCycle, Adrift
  <2> HIDE DEF Delivered, Adrift
  <2>4. \A s \in Rows : /\ Cardinality(Adrift(s)') \in Nat
                        /\ Cardinality(Adrift(s)') <= Cardinality(Adrift(s))
    BY <2>3, FS_Subset, FS_CardinalityType
  <2> QED  BY <2>1, <2>2, <2>3, <2>4 DEF CopiesInv
<1>12. CASE UNCHANGED vars
  <2>1. \A s \in Rows : Delivered(s) => Delivered(s)'
    BY <1>12 DEF vars, Delivered
  <2> QED  BY <1>12, <1>a, <2>1, CopiesKept DEF vars
<1>13. ASSUME NEW p \in Replicas, NEW r \in Rows, LoseSession(p, r) PROVE CopiesInv'
  <2>1. ~Delivered(r)
    BY <1>13 DEF LoseSession, CycleInv, BatchesAreDisjoint, Delivered
  <2>2. UNCHANGED <<mailed, late>> /\ faults' = faults + 1
    BY <1>13 DEF LoseSession
  <2>3. /\ Cardinality(Adrift(r)') = Cardinality(Adrift(r)) + 1
        /\ \A s \in Rows \ {r} : Adrift(s)' = Adrift(s)
        /\ \A s \in Rows : Cardinality(Adrift(s)) \in Nat
    BY <1>13, AdriftJoins, AdriftCount
  <2> HIDE DEF Delivered, Adrift
  <2> QED  BY <2>1, <2>2, <2>3 DEF CopiesInv
<1>14. ASSUME NEW p \in Replicas, NEW outcome \in Outcomes, Land(p, outcome) PROVE CopiesInv'
  <2>0. PICK r \in Rows : r = current[p]
    BY <1>14 DEF Land, CycleInv
  <2>1. /\ Cardinality(Adrift(r)') = Cardinality(Adrift(r)) - 1
        /\ \A s \in Rows \ {r} : Adrift(s)' = Adrift(s)
        /\ \A s \in Rows : Cardinality(Adrift(s)) \in Nat
    BY <1>14, <2>0, AdriftLeaves, AdriftCount DEF Land
  <2>2. \A s \in Rows : Delivered(s) <=> Delivered(s)'
    BY <1>14 DEF Land, Delivered
  <2> HIDE DEF Delivered, Adrift
  <2>3. /\ faults' = faults /\ mailed'[r] <= mailed[r] + 1
        /\ mailed' \in [Rows -> Nat] /\ late' \in [Rows -> Nat]
        /\ \A s \in Rows : late'[s] >= late[s]
        /\ \A s \in Rows \ {r} : mailed'[s] = mailed[s]
    BY <1>14, <2>0, RecordCounts DEF Land
  <2>4. mailed'[r] + Cardinality(Adrift(r)') <=
          late'[r] + faults' + (IF Delivered(r)' THEN 1 ELSE 0)
    BY <2>1, <2>2, <2>3 DEF CopiesInv
  <2>5. \A s \in Rows \ {r} : mailed'[s] + Cardinality(Adrift(s)') <=
          late'[s] + faults' + (IF Delivered(s)' THEN 1 ELSE 0)
    BY <2>1, <2>2, <2>3 DEF CopiesInv
  <2> QED  BY <2>4, <2>5 DEF CopiesInv
<1> QED
  BY <1>1, <1>2, <1>3, <1>4, <1>5, <1>6, <1>7, <1>8, <1>9, <1>10, <1>11, <1>12,
     <1>13, <1>14
     DEF Next, CycleStep

-----------------------------------------------------------------------------
(* The theorems. *)

\* The invariant holds at the start.
LEMMA InitInv == Init => IndInv
<1> SUFFICES ASSUME Init PROVE IndInv
  OBVIOUS
<1>1. TypeOK
  BY InitType
<1>2. CycleInv /\ BatchesAreDisjoint /\ MailInv
  BY DEF Init, CycleInv, BatchesAreDisjoint, MailInv, SentWasMailed, Absent
<1>3. AttemptsInv /\ OneAttemptInv
  BY DEF Init, AttemptsInv, Honest, OneAttemptInv, Absent
<1>4. CopiesInv
  <2>1. \A r \in Rows : Adrift(r) = {}
    BY DEF Init, Adrift
  <2>2. \A r \in Rows : Cardinality(Adrift(r)) = 0
    BY <2>1, FS_EmptySet
  <2>3. \A r \in Rows : mailed[r] = 0 /\ late[r] = 0 /\ faults = 0
    BY DEF Init
  <2> HIDE DEF Adrift, Delivered
  <2> QED  BY <2>2, <2>3 DEF CopiesInv
<1> QED  BY <1>1, <1>2, <1>3, <1>4 DEF IndInv

\* Every step of the outbox keeps the invariant.
LEMMA NextInv == IndInv /\ [Next]_vars => IndInv'
BY NextType, CycleInvStep, BatchesStep, MailInvStep, AttemptsInvStep, OneAttemptInvStep,
   CopiesInvStep
   DEF IndInv

\* In every behaviour the inductive invariant holds throughout.
THEOREM InvariantHolds == Spec => []IndInv
BY InitInv, NextInv, PTL DEF Spec

\* Every variable always has its type.
THEOREM TypeCorrect == Spec => []TypeOK
<1>1. IndInv => TypeOK
  BY DEF IndInv
<1> QED  BY <1>1, InvariantHolds, PTL

\* Two open batches never share a row, for any number of replicas.
THEOREM DisjointBatches == Spec => []BatchesAreDisjoint
<1>1. IndInv => BatchesAreDisjoint
  BY DEF IndInv
<1> QED  BY <1>1, InvariantHolds, PTL

\* No row is ever recorded as sent whose mail was not taken by the server.
THEOREM NothingSentUnmailed == Spec => []SentWasMailed
<1>1. IndInv => SentWasMailed
  BY DEF IndInv, MailInv
<1> QED  BY <1>1, InvariantHolds, PTL

\* Attempts count real failures and rows are given up only when exhausted.
THEOREM HonestAttempts == Spec => []AttemptsAreHonest
<1>1. IndInv => AttemptsAreHonest
  BY DEF IndInv, AttemptsInv, Honest, AttemptsAreHonest
<1> QED  BY <1>1, InvariantHolds, PTL

\* A recipient gets no more copies than 1 + late answers + faults.
THEOREM DuplicatesArePaidFor == Spec => []DuplicatesHaveACause
<1>1. IndInv => DuplicatesHaveACause
  BY AdriftCount DEF IndInv, TypeOK, CopiesInv, DuplicatesHaveACause
<1> QED  BY <1>1, InvariantHolds, PTL

-----------------------------------------------------------------------------
(* Steps: rows move forward only, and the promise is kept. *)

\* The steps of a cycle that touch neither the table nor the mail server.
Internal(p) ==
  \/ StartCycle(p) \/ ReadSettings(p) \/ Claim(p) \/ MarkSent(p)
  \/ MarkFailedOrDiscard(p) \/ CycleFails(p) \/ Crash(p)

LEMMA InternalSteps ==
  ASSUME NEW p \in Replicas, Internal(p)
  PROVE  UNCHANGED <<outbox, mailed, failures>>
BY DEF Internal, StartCycle, ReadSettings, Claim, MarkSent, MarkFailedOrDiscard,
       NextRow, CycleFails, Crash, EndCycle, db, history

\* A batch that commits settles its own, pending rows.
LEMMA CommitStep ==
  ASSUME IndInv, NEW p \in Replicas, Commit(p), NEW r \in Rows
  PROVE  IF r \in claimed[p]
         THEN /\ outbox[r].status = "pending"
              /\ outbox'[r] = image[p][r]
              /\ outbox'[r].status \in {"pending", "sent", "discarded"}
              /\ outbox'[r].status = "sent" => mailed[r] > 0
              /\ outbox'[r].status = "discarded" =>
                   \E max \in MaxAttemptsValues : failures[r] >= max
              /\ outbox'[r].attempts \in {outbox[r].attempts, outbox[r].attempts + 1}
         ELSE outbox'[r] = outbox[r]
<1>1. CASE r \notin claimed[p]
  BY <1>1 DEF Commit
<1>2. CASE r \in claimed[p]
  <2>1. outbox[r].status = "pending"
    BY <1>2 DEF IndInv, BatchesAreDisjoint
  <2>2. outbox'[r] = image[p][r] /\ image[p][r] \in Row
    BY <1>2 DEF Commit, IndInv, TypeOK
  <2>3. image[p][r].status = "sent" => mailed[r] > 0
    BY <1>2 DEF IndInv, MailInv
  <2>4. Honest(image[p][r], failures[r]) /\ image[p][r].status # "absent"
    BY <1>2 DEF IndInv, AttemptsInv
  <2>5. image[p][r].attempts \in {outbox[r].attempts, outbox[r].attempts + 1}
    BY <1>2 DEF IndInv, OneAttemptInv
  <2> QED  BY <1>2, <2>1, <2>2, <2>3, <2>4, <2>5 DEF Honest, Row
<1> QED  BY <1>1, <1>2

\* Every step of the outbox moves its rows forward.
LEMMA ForwardStep == IndInv /\ [Next]_vars => Forward
<1> SUFFICES ASSUME IndInv, [Next]_vars PROVE Forward
  OBVIOUS
<1> USE DEF IndInv, TypeOK
<1>1. ASSUME UNCHANGED outbox PROVE Forward
  BY <1>1 DEF Forward, Row
<1>2. ASSUME NEW r \in Rows, Enqueue(r) PROVE Forward
  BY <1>2, WithStatusType DEF Enqueue, Forward, Row
<1>3. CASE Tick
  <2>1. \A r \in Rows : /\ outbox'[r].status = outbox[r].status
                       /\ outbox'[r].attempts = outbox[r].attempts
    BY <1>3, ElapseType DEF Tick
  <2> QED  BY <2>1 DEF Forward, Row
<1>4. ASSUME NEW p \in Replicas,
             \/ \E r \in Rows, outcome \in Outcomes : Send(p, r, outcome)
             \/ \E r \in Rows : LoseSession(p, r)
             \/ \E outcome \in Outcomes : Land(p, outcome)
      PROVE  UNCHANGED outbox
  BY <1>4 DEF Send, LoseSession, Land, db
<1>5. ASSUME NEW p \in Replicas, Commit(p) PROVE Forward
  <2> SUFFICES ASSUME NEW r \in Rows
               PROVE  /\ outbox[r].status \in {"sent", "discarded"} =>
                           outbox'[r].status = outbox[r].status
                      /\ outbox[r].status = "pending" => outbox'[r].status # "absent"
                      /\ outbox'[r].attempts - outbox[r].attempts \in {0, 1}
    BY DEF Forward
  <2>1. outbox[r].attempts \in Nat
    BY DEF Row
  <2>2. CASE r \in claimed[p]
    <3>1. /\ outbox[r].status = "pending"
          /\ outbox'[r].status \in {"pending", "sent", "discarded"}
          /\ outbox'[r].attempts \in {outbox[r].attempts, outbox[r].attempts + 1}
      BY <1>5, <2>2, CommitStep
    <3> QED  BY <2>1, <3>1
  <2>3. CASE r \notin claimed[p]
    <3>1. outbox'[r] = outbox[r]
      BY <1>5, <2>3, CommitStep
    <3> QED  BY <2>1, <3>1
  <2> QED  BY <2>2, <2>3
<1>6. CASE ChangeSettings \/ UNCHANGED vars
  BY <1>1, <1>6 DEF ChangeSettings, vars, db
<1> QED
  <2>1. ASSUME NEW p \in Replicas, Internal(p) PROVE Forward
    BY <1>1, <2>1, InternalSteps
  <2>2. ASSUME NEW p \in Replicas, CycleStep(p) PROVE Forward
    BY <1>1, <1>4, <1>5, <2>1, <2>2 DEF CycleStep, Internal
  <2> QED  BY <1>1, <1>2, <1>3, <1>4, <1>6, <2>1, <2>2 DEF Next, Internal

\* Rows leave the queue for good and attempts are counted one at a time.
THEOREM RowsMoveForward == Spec => RowsOnlyMoveForward
BY ForwardStep, InvariantHolds, PTL DEF Spec, RowsOnlyMoveForward

\* The strays of the promise are the cycles adrift.
Strays == [r \in Rows |-> Cardinality(Adrift(r))]

LEMMA StraysKept ==
  ASSUME \A r \in Rows : Adrift(r)' = Adrift(r)
  PROVE  UNCHANGED Strays
<1> HIDE DEF Adrift
<1> QED  BY DEF Strays

\* A cycle adrift that is over is one stray less.
LEMMA StraysLeave ==
  ASSUME TypeOK, NEW p \in Replicas, NEW r \in Rows,
         pc[p] = "adrift", current[p] = r,
         pc' = [pc EXCEPT ![p] = "idle"],
         current' = [current EXCEPT ![p] = NoRow]
  PROVE  Strays[r] > 0 /\ Strays' = [Strays EXCEPT ![r] = Strays[r] - 1]
<1>1. /\ Cardinality(Adrift(r)') = Cardinality(Adrift(r)) - 1
      /\ Cardinality(Adrift(r)) > 0
      /\ \A s \in Rows \ {r} : Adrift(s)' = Adrift(s)
  BY AdriftLeaves
<1> HIDE DEF Adrift
<1> QED  BY <1>1 DEF Strays

\* Every step of the outbox is a step of NotificationPromise or a stutter.
LEMMA PromiseStep ==
  ASSUME IndInv, [Next]_vars
  PROVE  [Promise!PNext]_Promise!pvars
<1> USE DEF IndInv
<1>1. ASSUME UNCHANGED <<outbox, mailed, failures, Strays>>
      PROVE  UNCHANGED Promise!pvars
  BY <1>1 DEF Promise!pvars, Strays
<1>2. ASSUME NEW r \in Rows, Enqueue(r) PROVE Promise!Request(r)
  <2>1. UNCHANGED Strays
    BY <1>2, StraysKept DEF Enqueue, cycle, Adrift
  <2>2. outbox' = [outbox EXCEPT ![r] = WithStatus(@, "pending")]
    BY <1>2 DEF Enqueue
  <2>3. outbox'[r].status = "pending" /\ \A s \in Rows \ {r} : outbox'[s] = outbox[s]
    BY <2>2, WithStatusType DEF TypeOK
  <2> QED
    BY <1>2, <2>1, <2>3 DEF TypeOK, Enqueue, history, Promise!Request, Strays
<1>3. CASE Tick
  <2>1. \A r \in Rows : outbox'[r].status = outbox[r].status
    BY <1>3, ElapseType DEF Tick, TypeOK
  <2>2. UNCHANGED Strays
    BY <1>3, StraysKept DEF Tick, Adrift
  <2> QED  BY <1>3, <2>1, <2>2 DEF Tick, history, Promise!pvars, Strays
<1>4. ASSUME NEW p \in Replicas, NEW r \in Rows, NEW outcome \in Outcomes,
             Send(p, r, outcome)
      PROVE  \E copied, errors \in {0, 1} : Promise!Attempt(r, copied, errors)
  <2>1. outbox[r].status = "pending" /\ outbox' = outbox
    BY <1>4 DEF Send, CycleInv, BatchesAreDisjoint, TypeOK, db
  <2>2. UNCHANGED Strays
    BY <1>4, AdriftKept, StraysKept
  <2>3. PICK copied \in {0, 1}, errors \in {0, 1} :
          /\ copied + errors > 0
          /\ mailed' = [mailed EXCEPT ![r] = mailed[r] + copied]
          /\ failures' = [failures EXCEPT ![r] = failures[r] + errors]
    BY <1>4, RecordResolves DEF Send
  <2>4. Promise!Attempt(r, copied, errors)
    BY <2>1, <2>2, <2>3 DEF Promise!Attempt, Promise!Resolve, Strays
  <2> QED  BY <2>4
<1>5. ASSUME NEW p \in Replicas, Commit(p) PROVE Promise!PNext
  <2>1. claimed[p] \subseteq Rows /\ UNCHANGED <<mailed, failures>>
    BY <1>5 DEF Commit, EndCycle, history, TypeOK
  <2>2. PICK sent \in SUBSET Rows, gone \in SUBSET Rows :
          /\ sent = {r \in claimed[p] : image[p][r].status = "sent"}
          /\ gone = {r \in claimed[p] : image[p][r].status = "discarded"}
    BY <2>1
  <2>3. sent \cap gone = {}
    BY <2>2
  <2>4. \A r \in sent : outbox[r].status = "pending" /\ mailed[r] > 0
    BY <1>5, <2>1, <2>2, CommitStep
  <2>5. \A r \in gone : /\ outbox[r].status = "pending"
                       /\ \E max \in MaxAttemptsValues : failures[r] >= max
    BY <1>5, <2>1, <2>2, CommitStep
  <2>6. \A r \in Rows : outbox'[r].status =
          IF r \in sent THEN "sent"
          ELSE IF r \in gone THEN "discarded" ELSE outbox[r].status
    BY <1>5, <2>1, <2>2, CommitStep
  <2>7. UNCHANGED Strays
    BY <1>5, AdriftKept, StraysKept
  <2>8. Promise!Settle(sent, gone)
    BY <2>1, <2>3, <2>4, <2>5, <2>6, <2>7 DEF Promise!Settle, Strays
  <2> QED  BY <2>8 DEF Promise!PNext
<1>6. CASE ChangeSettings \/ UNCHANGED vars
  <2>1. UNCHANGED Strays
    BY <1>6, StraysKept DEF ChangeSettings, vars, cycle, Adrift
  <2> QED  BY <1>1, <1>6, <2>1 DEF ChangeSettings, vars, db, history
<1>7. ASSUME NEW p \in Replicas, NEW r \in Rows, LoseSession(p, r)
      PROVE  Promise!Stray(r)
  <2>1. outbox[r].status = "pending" /\ UNCHANGED <<outbox, mailed, failures>>
    BY <1>7 DEF LoseSession, CycleInv, BatchesAreDisjoint, TypeOK, db, history
  <2>2. /\ Cardinality(Adrift(r)') = Cardinality(Adrift(r)) + 1
        /\ \A s \in Rows \ {r} : Adrift(s)' = Adrift(s)
    BY <1>7, AdriftJoins
  <2> HIDE DEF Adrift
  <2>3. Strays' = [Strays EXCEPT ![r] = @ + 1]
    BY <2>2 DEF Strays
  <2> QED  BY <2>1, <2>3 DEF Promise!Stray, Strays
<1>8. ASSUME NEW p \in Replicas, NEW outcome \in Outcomes, Land(p, outcome)
      PROVE  \E r \in Rows, copied, errors \in {0, 1} : Promise!Arrive(r, copied, errors)
  <2>0. PICK r \in Rows : r = current[p]
    BY <1>8 DEF Land, CycleInv
  <2>1. Strays[r] > 0 /\ Strays' = [Strays EXCEPT ![r] = Strays[r] - 1]
    BY <1>8, <2>0, StraysLeave DEF Land
  <2>2. PICK copied \in {0, 1}, errors \in {0, 1} :
          /\ copied + errors > 0
          /\ mailed' = [mailed EXCEPT ![r] = mailed[r] + copied]
          /\ failures' = [failures EXCEPT ![r] = failures[r] + errors]
    BY <1>8, <2>0, RecordResolves DEF Land
  <2>3. outbox' = outbox
    BY <1>8 DEF Land, db
  <2>4. Promise!Arrive(r, copied, errors)
    BY <2>1, <2>2, <2>3 DEF Promise!Arrive, Promise!Resolve, Strays
  <2> QED  BY <2>4
<1>9. ASSUME NEW p \in Replicas, Crash(p)
      PROVE  (\E r \in Rows : Promise!Vanish(r)) \/ UNCHANGED Promise!pvars
  <2>1. EndCycle(p) /\ UNCHANGED <<outbox, mailed, failures>>
    BY <1>9 DEF Crash, EndCycle, history
  <2>2. CASE pc[p] = "adrift"
    <3>1. PICK r \in Rows : r = current[p]
      BY <2>2 DEF CycleInv
    <3>2. Strays[r] > 0 /\ Strays' = [Strays EXCEPT ![r] = Strays[r] - 1]
      BY <2>1, <2>2, <3>1, StraysLeave DEF EndCycle
    <3>3. Promise!Vanish(r)
      BY <2>1, <3>2 DEF Promise!Vanish, Strays
    <3> QED  BY <3>3
  <2>3. CASE pc[p] # "adrift"
    <3>1. \A s \in Rows : Adrift(s)' = Adrift(s)
      BY <2>1, <2>3 DEF EndCycle, Adrift, TypeOK
    <3> QED  BY <1>1, <2>1, <3>1, StraysKept
  <2> QED  BY <2>2, <2>3
<1>10. ASSUME NEW p \in Replicas,
              \/ StartCycle(p) \/ ReadSettings(p) \/ Claim(p) \/ MarkSent(p)
              \/ MarkFailedOrDiscard(p) \/ CycleFails(p)
       PROVE  UNCHANGED Promise!pvars
  BY <1>1, <1>10, AdriftKept, StraysKept, InternalSteps DEF Internal
<1> QED
  BY <1>1, <1>2, <1>3, <1>4, <1>5, <1>6, <1>7, <1>8, <1>9, <1>10
     DEF Next, CycleStep, Promise!PNext

\* The outbox implements at-least-once delivery with bounded patience.
THEOREM PromiseKept == Spec => KeepsPromise
<1>1. Init => Promise!PInit
  <2> SUFFICES ASSUME Init PROVE Promise!PInit
    OBVIOUS
  <2>1. \A r \in Rows : Adrift(r) = {}
    BY DEF Init, Adrift
  <2>2. \A r \in Rows : Cardinality(Adrift(r)) = 0
    BY <2>1, FS_EmptySet
  <2> HIDE DEF Adrift
  <2> QED  BY <2>2 DEF Init, Absent, Promise!PInit
<1> QED  BY <1>1, PromiseStep, InvariantHolds, PTL DEF Spec, KeepsPromise, Promise!PSpec

-----------------------------------------------------------------------------
(* The loop of one process.                                                *)

\* The initial states.
LEMMA LoopInitInv == LoopInit => LoopInv
<1> SUFFICES ASSUME LoopInit PROVE LoopInv
  OBVIOUS
<1>0. stopping \in BOOLEAN /\ runningCycle \in BOOLEAN /\ early \in BOOLEAN
  BY DEF LoopInit
<1>1. LoopTypeOK
  BY <1>0 DEF LoopInit, LoopTypeOK
<1>2. OneTick /\ StopIsFinal /\ FlagsAreTrue
  BY DEF LoopInit, OneTick, StopIsFinal, FlagsAreTrue
<1>3. ~ stopping /\ ~ early /\ ~ runningCycle
  BY DEF LoopInit
<1> QED  BY <1>1, <1>2, <1>3 DEF LoopInit, LoopInv

\* Every step keeps the invariant.
LEMMA LoopNextInv == LoopInv /\ [LoopNext]_loopVars => LoopInv'
<1> SUFFICES ASSUME LoopInv, [LoopNext]_loopVars PROVE LoopInv'
  OBVIOUS
<1> USE DEF LoopInv, LoopTypeOK, OneTick, StopIsFinal, FlagsAreTrue
<1>1. CASE Start
  <2>1. /\ runningCycle' /\ runningCycle' \in BOOLEAN
        /\ ~ stopping' /\ stopping' \in BOOLEAN
    BY <1>1 DEF Start, BeginCycle
  <2>2. /\ stop' = stop /\ (early' <=> early) /\ early' \in BOOLEAN
        /\ phase' = "running" /\ timer' = timer
    BY <1>1 DEF Start
  <2>4. stop # "no" => stop' = "resolved" /\ early'
    BY <1>1, <2>2 DEF Start
  <2>3. cycles' = 1 /\ readers' = 0 /\ timers' = 0 /\ timer # "pending"
    BY <1>1 DEF Start, BeginCycle
  <2> QED  BY <1>1, <2>1, <2>2, <2>3, <2>4 DEF Start
<1>2. CASE CycleEnds
  <2>1. ~ runningCycle' /\ runningCycle' \in BOOLEAN /\ stopping' = stopping
    BY <1>2 DEF CycleEnds
  <2>2. cycles = 1 /\ cycles' = 0 /\ readers = 0 /\ timers' = 0
    BY <1>2 DEF CycleEnds
  <2>3. readers' = IF stopping THEN 0 ELSE 1
    BY <1>2, <2>2 DEF CycleEnds
  <2> QED  BY <1>2, <2>1, <2>2, <2>3 DEF CycleEnds
<1>3. CASE ReadInterval
  <2>1. timers = 0 /\ cycles = 0 /\ readers = 1 /\ readers' = 0
    BY <1>3 DEF ReadInterval
  <2>2. CASE Continues
    <3>1. timer' = "pending" /\ timers' = 1
      BY <1>3, <2>1, <2>2 DEF ReadInterval, AfterReadError, Schedule
    <3> QED  BY <1>3, <2>1, <2>2, <3>1 DEF ReadInterval, Continues
  <2>3. CASE ~ Continues
    BY <1>3, <2>1, <2>3 DEF ReadInterval, Continues
  <2> QED  BY <2>2, <2>3
<1>4. CASE Fire
  BY <1>4 DEF Fire, BeginCycle
<1>5. CASE Signal
  <2>1. /\ stopping' /\ stopping' \in BOOLEAN
        /\ (early' <=> phase = "starting") /\ early' \in BOOLEAN
    BY <1>5 DEF Signal
  <2>2. timer' = "null" /\ timers' = 0
    BY <1>5 DEF Signal
  <2>3. /\ phase' = phase /\ phase # "exited" /\ cycles' = cycles /\ readers' = readers
        /\ (runningCycle' <=> runningCycle) /\ runningCycle' \in BOOLEAN
        /\ stop' = IF runningCycle THEN "waiting" ELSE "resolved"
    BY <1>5 DEF Signal
  <2>4. CASE phase = "starting"
    BY <2>1, <2>2, <2>3, <2>4
  <2>5. CASE phase = "running"
    BY <2>1, <2>2, <2>3, <2>5
  <2> QED  BY <2>3, <2>4, <2>5
<1>6. CASE StopResolves
  BY <1>6 DEF StopResolves, flags, ticks
<1>7. CASE Exit
  BY <1>7 DEF Exit, flags
<1>8. CASE UNCHANGED loopVars
  BY <1>8 DEF loopVars, flags, ticks
<1> QED
  BY <1>1, <1>2, <1>3, <1>4, <1>5, <1>6, <1>7, <1>8 DEF LoopNext, Running

\* The invariant holds in every reachable state.
THEOREM LoopInvariant == LoopSpec => []LoopInv
BY LoopInitInv, LoopNextInv, PTL DEF LoopSpec

\* Every variable keeps its type.
THEOREM LoopTypesHold == LoopSpec => []LoopTypeOK
<1>1. LoopInv => LoopTypeOK
  BY DEF LoopInv
<1> QED  BY <1>1, LoopInvariant, PTL

\* Cycles never overlap and the chain of timers never breaks.
THEOREM NeverTwoTicks == LoopSpec => []OneTick
<1>1. LoopInv => OneTick
  BY DEF LoopInv
<1> QED  BY <1>1, LoopInvariant, PTL

\* After stopDispatchLoop() no cycle is at work and none will start, unless it
\* was called before the loop was started.
THEOREM StopsForGood == LoopSpec => []StopIsFinal
<1>1. LoopInv => StopIsFinal
  BY DEF LoopInv
<1> QED  BY <1>1, LoopInvariant, PTL

-----------------------------------------------------------------------------
(* The whole process.                                                      *)

\* Every step of the process is one of the loop or leaves it alone.
LEMMA CoreStep == [CoreNext]_coreVars => [LoopNext]_loopVars
<1> SUFFICES ASSUME [CoreNext]_coreVars PROVE [LoopNext]_loopVars
  OBVIOUS
<1>1. CASE Connect \/ Look \/ FetchSucceeds \/ Pass
  BY <1>1 DEF Connect, Look, FetchSucceeds, Pass
<1>2. CASE FetchFails \/ Leave
  BY <1>2 DEF FetchFails, Leave, LoopNext
<1>3. CASE StartLoop
  BY <1>3 DEF StartLoop, LoopNext, Running
<1>4. CASE LoopRuns
  BY <1>4 DEF LoopRuns, LoopNext, Running
<1>5. CASE UNCHANGED coreVars
  BY <1>5 DEF coreVars
<1> QED  BY <1>1, <1>2, <1>3, <1>4, <1>5 DEF CoreNext

\* The process implements the loop, so that what holds of it holds here.
THEOREM CoreRunsTheLoop == CoreSpec => LoopSpec
<1>1. CoreInit => LoopInit
  BY DEF CoreInit
<1> QED  BY <1>1, CoreStep, PTL DEF CoreSpec, LoopSpec

\* One looks at least twice in the margin.
LEMMA Halves == RefreshEvery \in Nat /\ 2 * RefreshEvery <= Margin
BY TokenAssumption DEF RefreshEvery

\* The constants, in terms of the time between two looks.
LEMMA Bounds ==
  /\ Margin \in Nat /\ Quick \in Nat /\ MaxLatency \in Nat
  /\ RefreshEvery > 2 * Quick
  /\ \A l \in Lifetimes : l \in Nat /\ l > RefreshEvery + 2 * Quick
BY TokenAssumption DEF RefreshEvery

\* The type of the variables, in two parts: numbers and flags.
Numbers ==
  /\ left \in Nat /\ lag \in 0..MaxLatency
  /\ requests \in 0..1 /\ age \in 0..MaxLatency
  /\ due \in 0..RefreshEvery
Flags == inFlight \in BOOLEAN /\ refreshing \in BOOLEAN /\ failed \in BOOLEAN

\* What is left, in CoreInv.
Enough == IF requests = 0 THEN left > due + 2 * Quick ELSE left + age > 2 * Quick

LEMMA Parts ==
  CoreInv <=> /\ Numbers /\ Flags /\ OneRequest
              /\ requests = 0 => age = 0
              /\ refreshing /\ ~ Trouble => Enough
BY DEF CoreInv, CoreTypeOK, Numbers, Flags, Enough

LEMMA PartsNext ==
  ASSUME Numbers', Flags', OneRequest', requests' = 0 => age' = 0,
         refreshing' /\ ~ Trouble' => Enough'
  PROVE  CoreInv'
BY DEF CoreInv, CoreTypeOK, Numbers, Flags, Enough

LEMMA Idle ==
  ASSUME ~ inFlight', requests' = 0
  PROVE  OneRequest'
BY DEF OneRequest

\* The initial states.
LEMMA CoreInitInv == CoreInit => CoreInv
<1> SUFFICES ASSUME CoreInit PROVE CoreInv
  OBVIOUS
<1>1. Numbers
  BY Halves, Bounds DEF CoreInit, Numbers
<1>2. /\ ~ inFlight /\ inFlight \in BOOLEAN /\ ~ refreshing
      /\ refreshing \in BOOLEAN /\ failed \in BOOLEAN /\ requests = 0
  BY DEF CoreInit
<1>3. (requests = 0 => age = 0) /\ ~ refreshing
  BY DEF CoreInit
<1>4. Flags
  BY <1>2 DEF Flags
<1>5. OneRequest
  BY <1>2 DEF OneRequest
<1> QED  BY <1>1, <1>3, <1>4, <1>5, Parts

\* token() is called when a look is due, or before there is an interval.
LEMMA TokenStays ==
  ASSUME CoreInv, Token, due' \in 0..RefreshEvery,
         refreshing => due = 0 /\ due' = RefreshEvery,
         UNCHANGED <<left, lag, refreshing, failed>>
  PROVE  CoreInv'
<1>1. /\ Numbers /\ Flags /\ OneRequest
      /\ requests = 0 => age = 0
      /\ refreshing /\ ~ Trouble => Enough
  BY Parts
<1>2. CASE Current \/ inFlight
  <2>1. UNCHANGED <<inFlight, requests, age>>
    BY <1>2 DEF Token
  <2>2. Numbers' /\ Flags' /\ OneRequest' /\ (requests' = 0 => age' = 0)
    BY <1>1, <2>1 DEF Numbers, Flags, OneRequest
  <2>3. ASSUME refreshing', ~ Trouble' PROVE Enough'
    <3>1. refreshing /\ ~ Trouble
      BY <2>1, <2>3 DEF Trouble
    <3>2. CASE requests = 0
      <4>1. left > Margin
        BY <1>1, <1>2, <3>2 DEF Current, OneRequest
      <4> QED
        BY <1>1, <2>1, <3>1, <3>2, <4>1, Halves, Bounds DEF Numbers, Enough
    <3>3. CASE requests # 0
      BY <1>1, <2>1, <3>1, <3>3 DEF Enough
    <3> QED  BY <3>2, <3>3
  <2> QED  BY <2>2, <2>3, PartsNext
<1>3. CASE ~ (Current \/ inFlight)
  <2>1. inFlight' = TRUE /\ requests' = requests + 1 /\ age' = 0
    BY <1>3 DEF Token
  <2>2. requests = 0 /\ age = 0
    BY <1>1, <1>3 DEF OneRequest, Numbers
  <2>3. Numbers'
    BY <1>1, <2>1, <2>2, Bounds DEF Numbers
  <2>4. requests' = 1
    BY <2>1, <2>2
  <2>5. Flags' /\ OneRequest'
    BY <1>1, <2>1, <2>4 DEF Flags, OneRequest
  <2>6. ASSUME refreshing', ~ Trouble' PROVE Enough'
    <3>1. failed' = failed /\ lag' = lag /\ ~ (age > Quick)
      BY <2>2, Bounds
    <3>2. refreshing /\ ~ Trouble
      BY <2>6, <3>1 DEF Trouble
    <3>3. left > due + 2 * Quick
      BY <1>1, <2>2, <3>2 DEF Enough
    <3> QED  BY <1>1, <2>1, <2>4, <3>2, <3>3, Bounds DEF Enough, Numbers
  <2> QED  BY <2>3, <2>4, <2>5, <2>6, PartsNext
<1> QED  BY <1>2, <1>3

\* Every step keeps the invariant.
LEMMA CoreNextInv == CoreInv /\ [CoreNext]_coreVars => CoreInv'
<1> SUFFICES ASSUME CoreInv, [CoreNext]_coreVars PROVE CoreInv'
  OBVIOUS
<1>0. /\ Numbers /\ Flags /\ OneRequest
      /\ requests = 0 => age = 0
      /\ refreshing /\ ~ Trouble => Enough
  BY Parts
<1>1. CASE Connect
  BY <1>0, <1>1, TokenStays DEF Connect, Numbers
<1>2. CASE Look
  BY <1>0, <1>2, TokenStays, Halves DEF Look, Numbers
<1>3. CASE FetchSucceeds
  <2>1. /\ requests > 0 /\ requests' = requests - 1 /\ age' = 0
        /\ ~ inFlight' /\ inFlight' \in BOOLEAN
        /\ ~ failed' /\ failed' \in BOOLEAN
    BY <1>3 DEF FetchSucceeds, Ends, Settled
  <2>2. requests = 1 /\ requests' = 0
    BY <1>0, <2>1 DEF Numbers
  <2>3. /\ left' \in Nat /\ left' > RefreshEvery + 2 * Quick
        /\ lag' \in 0..MaxLatency
    BY <1>0, <1>3, Bounds DEF FetchSucceeds, Numbers
  <2>4. due' \in 0..RefreshEvery
    BY <1>0, <1>3, Halves DEF FetchSucceeds, Numbers
  <2>5. refreshing' \in BOOLEAN
    BY <1>0, <1>3 DEF FetchSucceeds, Flags
  <2>6. Numbers'
    BY <2>1, <2>2, <2>3, <2>4, Bounds DEF Numbers
  <2>7. Flags' /\ OneRequest'
    BY <2>1, <2>2, <2>5, Idle DEF Flags
  <2>8. left' > due' + 2 * Quick
    <3>1. due' <= RefreshEvery
      BY <2>4, Halves
    <3>2. \A l, d, r, q \in Int : d <= r /\ l > r + 2 * q => l > d + 2 * q
      OBVIOUS
    <3>3. left' \in Int /\ due' \in Int /\ RefreshEvery \in Int /\ Quick \in Int
      BY <2>3, <2>4, Halves, Bounds
    <3>4. left' > RefreshEvery + 2 * Quick
      BY <2>3
    <3> QED  BY <3>1, <3>2, <3>3, <3>4, Zenon
  <2>9. Enough'
    BY <2>2, <2>8 DEF Enough
  <2> QED  BY <2>1, <2>6, <2>7, <2>9, PartsNext
<1>4. CASE FetchFails
  <2>1. /\ requests > 0 /\ requests' = requests - 1 /\ age' = 0
        /\ ~ inFlight' /\ inFlight' \in BOOLEAN
        /\ failed' /\ failed' \in BOOLEAN
        /\ UNCHANGED <<left, lag, refreshing, due>>
    BY <1>4 DEF FetchFails, Ends, Settled
  <2>2. requests' = 0
    BY <1>0, <2>1 DEF Numbers
  <2>3. Numbers'
    BY <1>0, <2>1, <2>2, Bounds DEF Numbers
  <2>4. Flags' /\ OneRequest' /\ Trouble'
    BY <1>0, <2>1, <2>2, Idle DEF Flags, Trouble
  <2> QED  BY <2>1, <2>3, <2>4, PartsNext
<1>5. CASE Pass
  <2>1. /\ refreshing => due > 0
        /\ requests > 0 => age < MaxLatency
        /\ left' = IF left = 0 THEN 0 ELSE left - 1
        /\ due' = IF refreshing THEN due - 1 ELSE due
        /\ age' = IF requests > 0 THEN age + 1 ELSE age
        /\ UNCHANGED <<lag, inFlight, requests, refreshing, failed>>
    BY <1>5 DEF Pass
  <2>2. left' \in Nat /\ age' \in 0..MaxLatency /\ age' >= age
    BY <1>0, <2>1, Bounds DEF Numbers
  <2>3. due' \in 0..RefreshEvery
    BY <1>0, <2>1, Halves DEF Numbers
  <2>4. Numbers' /\ (requests' = 0 => age' = 0)
    BY <1>0, <2>1, <2>2, <2>3 DEF Numbers
  <2>5. Flags' /\ OneRequest'
    BY <1>0, <2>1 DEF Flags, OneRequest
  <2>6. ASSUME refreshing', ~ Trouble' PROVE Enough'
    <3>1. ~ (age > Quick) /\ ~ (age' > Quick)
      BY <1>0, <2>2, <2>6, Bounds DEF Trouble, Numbers
    <3>2. refreshing /\ ~ Trouble
      BY <2>1, <2>6, <3>1 DEF Trouble
    <3>3. Enough /\ due > 0 /\ due' = due - 1
      BY <1>0, <2>1, <3>2
    <3>4. CASE requests = 0
      BY <1>0, <2>1, <3>3, <3>4, Bounds DEF Enough, Numbers
    <3>5. CASE requests # 0
      BY <1>0, <2>1, <3>1, <3>3, <3>5, Bounds DEF Enough, Numbers
    <3> QED  BY <3>4, <3>5
  <2> QED  BY <2>4, <2>5, <2>6, PartsNext
<1>6. CASE Leave
  <2>1. /\ ~ refreshing' /\ refreshing' \in BOOLEAN /\ due' = 0
        /\ ~ inFlight' /\ inFlight' \in BOOLEAN /\ requests' = 0 /\ age' = 0
        /\ UNCHANGED <<left, lag, failed>>
    BY <1>6 DEF Leave
  <2>2. Numbers'
    BY <1>0, <2>1, Halves, Bounds DEF Numbers
  <2>3. Flags' /\ OneRequest'
    BY <1>0, <2>1, Idle DEF Flags
  <2> QED  BY <2>1, <2>2, <2>3, PartsNext
<1>7. CASE UNCHANGED tokenVars
  <2>1. UNCHANGED <<left, lag, inFlight, requests, age, refreshing, due, failed>>
    BY <1>7 DEF tokenVars
  <2>2. Numbers' /\ Flags' /\ OneRequest' /\ (requests' = 0 => age' = 0)
    BY <1>0, <2>1 DEF Numbers, Flags, OneRequest
  <2>3. refreshing' /\ ~ Trouble' => Enough'
    BY <1>0, <2>1 DEF Trouble, Enough
  <2> QED  BY <2>2, <2>3, PartsNext
<1> QED
  BY <1>1, <1>2, <1>3, <1>4, <1>5, <1>6, <1>7
     DEF CoreNext, StartLoop, LoopRuns, coreVars

\* The invariant of the token holds in every reachable state.
THEOREM CoreInvariant == CoreSpec => []CoreInv
BY CoreInitInv, CoreNextInv, PTL DEF CoreSpec

\* Every variable of the token keeps its type.
THEOREM CoreTypesHold == CoreSpec => []CoreTypeOK
<1>1. CoreInv => CoreTypeOK
  BY DEF CoreInv
<1> QED  BY <1>1, CoreInvariant, PTL

\* There is never a second request of a token.
THEOREM NeverTwoRequests == CoreSpec => []OneRequest
<1>1. CoreInv => OneRequest
  BY DEF CoreInv
<1> QED  BY <1>1, CoreInvariant, PTL

\* The cached token is valid from the start to the end unless requests fail or
\* are slow.
THEOREM TokenServes == CoreSpec => []TokenIsValid
<1>1. CoreInv => TokenIsValid
  <2> SUFFICES ASSUME CoreInv, refreshing, ~ Trouble PROVE Valid
    BY DEF TokenIsValid
  <2>1. left > Quick
    BY Bounds DEF CoreInv, CoreTypeOK, Trouble
  <2> QED  BY <2>1, Bounds DEF Valid, Trouble, CoreInv, CoreTypeOK
<1> QED  BY <1>1, CoreInvariant, PTL
=============================================================================
