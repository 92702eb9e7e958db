------------------------- MODULE NotificationOutbox -------------------------
(***************************************************************************)
(* The outbox of e-mail notifications and the cycle that empties it, as    *)
(* run by every replica of `core` (core/src/notifications/dispatch).       *)
(*                                                                         *)
(* A command leaves rows in the table notification_outbox.  Each replica   *)
(* runs cycles: read the settings, open one transaction, claim a batch of  *)
(* due rows with FOR UPDATE SKIP LOCKED, send the mail of each row in      *)
(* turn, record its fate in the open transaction, and commit once at the   *)
(* end.  What a cycle wrote is invisible to the others until that commit,  *)
(* but a mail that went out cannot be taken back.  The locks last only as  *)
(* long as the database session, and while a mail is on its way the code   *)
(* does not learn that the session is gone.                                *)
(*                                                                         *)
(* Abstractions.  A row keeps its status, its attempts and `wait`, the     *)
(* ticks left until next_attempt_at (0 when it is due): a tick is the      *)
(* BASE_SECONDS of the backoff.  ORDER BY next_attempt_at, id is not kept: *)
(* a batch is any choice of due rows of the right size, processed in any   *)
(* order.  A deleted row has status "discarded", a row no command has      *)
(* written yet "absent".  Rendering, addresses and payloads are left out.  *)
(***************************************************************************)
EXTENDS Integers, FiniteSets

CONSTANTS
  Replicas,           \* the processes of core that share the database
  Rows,               \* the rows commands may enqueue
  NoRow,              \* "no row": what a cycle between two rows is sending
  BatchSizes,         \* values the setting notification-batch-size may take
  MaxAttemptsValues,  \* values of the setting notification-max-attempts
  MaxWait,            \* MAX_SECONDS of the backoff, in ticks
  MaxFaults           \* bound on crashes and database errors

ASSUME RowsAssumption == NoRow \notin Rows /\ IsFiniteSet(Replicas)

ASSUME SettingsAssumption ==
  /\ BatchSizes \subseteq Nat \ {0}          /\ BatchSizes # {}
  /\ MaxAttemptsValues \subseteq Nat \ {0}   /\ MaxAttemptsValues # {}

ASSUME BoundsAssumption == MaxWait \in Nat \ {0} /\ MaxFaults \in Nat

VARIABLES
  settings,  \* the row of system_settings an operator edits by SQL
  outbox,    \* the committed state of every row
  pc,        \* where the cycle of each replica stands
  conf,      \* the settings the cycle of each replica goes by
  claimed,   \* the rows the open transaction of each replica has locked
  todo,      \* the claimed rows the cycle has still to process
  current,   \* the row whose mail the cycle has tried, or is trying, to send
  image,     \* the claimed rows as the open transaction sees them
  mailed,    \* history: mails of each row the SMTP server took
  late,      \* history: those of them that sendMail() reported as failed
  failures,  \* history: sends of each row that failed
  faults     \* history: crashes and database errors so far

db      == <<settings, outbox>>
cycle   == <<pc, conf, claimed, todo, current, image>>
history == <<mailed, late, failures>>
vars    == <<db, cycle, history, faults>>

Setting == [batch : BatchSizes, max : MaxAttemptsValues]
\* The local variables of runDispatchCycle() hold nothing between two cycles.
NoConf == CHOOSE conf0 \in Setting : TRUE

Row == [status   : {"absent", "pending", "sent", "discarded"},
        attempts : Nat,
        wait     : 0..MaxWait]
Absent == [status |-> "absent", attempts |-> 0, wait |-> 0]

WithStatus(row, status) == [row EXCEPT !.status = status]

\* nextAttemptAt(): BASE_SECONDS * 2 ** attempts, never above MAX_SECONDS.
Backoff(attempts) ==
  IF 2 ^ attempts \in 0..MaxWait THEN 2 ^ attempts ELSE MaxWait

Locked == UNION {claimed[q] : q \in Replicas}

\* Faults the properties must notice: no SKIP LOCKED; no status = 'pending';
\* rows that failed once are never due again.
ClaimableIgnoringLocks ==
  {r \in Rows : outbox[r].status = "pending" /\ outbox[r].wait = 0}
ClaimableEvenIfSent ==
  {r \in Rows \ Locked : outbox[r].status \in {"pending", "sent"}
                           /\ outbox[r].wait = 0}
ClaimableOnlyFresh ==
  {r \in Rows \ Locked : outbox[r].status = "pending" /\ outbox[r].wait = 0
                           /\ outbox[r].attempts = 0}

\* The rows SELECT ... FOR UPDATE SKIP LOCKED may return.  PostgreSQL checks
\* the condition again on the row it has locked, so the choice is atomic.
Claimable ==
  {r \in Rows \ Locked : outbox[r].status = "pending" /\ outbox[r].wait = 0}

-----------------------------------------------------------------------------
TypeOK ==
  /\ settings \in Setting
  /\ outbox \in [Rows -> Row]
  /\ pc \in [Replicas ->
               {"idle", "settings", "claim", "row", "mark", "fail", "adrift"}]
  /\ conf \in [Replicas -> Setting]
  /\ claimed \in [Replicas -> SUBSET Rows]
  /\ todo \in [Replicas -> SUBSET Rows]
  /\ current \in [Replicas -> Rows \cup {NoRow}]
  /\ image \in [Replicas -> [Rows -> Row]]
  /\ mailed \in [Rows -> Nat]
  /\ late \in [Rows -> Nat]
  /\ failures \in [Rows -> Nat]
  /\ faults \in 0..MaxFaults

Init ==
  /\ settings \in Setting
  /\ outbox = [r \in Rows |-> Absent]
  /\ pc = [p \in Replicas |-> "idle"]
  /\ conf = [p \in Replicas |-> NoConf]
  /\ claimed = [p \in Replicas |-> {}]
  /\ todo = [p \in Replicas |-> {}]
  /\ current = [p \in Replicas |-> NoRow]
  /\ image = [p \in Replicas |-> [r \in Rows |-> Absent]]
  /\ mailed = [r \in Rows |-> 0]
  /\ late = [r \in Rows |-> 0]
  /\ failures = [r \in Rows |-> 0]
  /\ faults = 0

-----------------------------------------------------------------------------
(* The surroundings of the cycle: the commands, the operator and the clock. *)

\* writeNotifications() inserted the row and its command committed.
Enqueue(r) ==
  /\ outbox[r].status = "absent"
  /\ outbox' = [outbox EXCEPT ![r] = WithStatus(@, "pending")]
  /\ UNCHANGED <<settings, cycle, history, faults>>

\* An operator changes a setting by SQL; running cycles keep what they read.
ChangeSettings ==
  /\ settings' \in Setting \ {settings}
  /\ UNCHANGED <<outbox, cycle, history, faults>>

\* One tick less until next_attempt_at <= NOW().
Elapse(row) == [row EXCEPT !.wait = IF @ = 0 THEN 0 ELSE @ - 1]

Tick ==
  /\ \E r \in Rows : outbox[r].wait > 0
  /\ outbox' = [r \in Rows |-> Elapse(outbox[r])]
  /\ image' = [p \in Replicas |-> [r \in Rows |-> Elapse(image[p][r])]]
  /\ UNCHANGED <<settings, pc, conf, claimed, todo, current, history, faults>>

-----------------------------------------------------------------------------
(* The cycle of replica p. *)

\* The timer of the scheduler calls runDispatchCycle().
StartCycle(p) ==
  /\ pc[p] = "idle"
  /\ pc' = [pc EXCEPT ![p] = "settings"]
  /\ UNCHANGED <<db, conf, claimed, todo, current, image, history, faults>>

\* The settings are read in a transaction of their own, closed at once.
ReadSettings(p) ==
  /\ pc[p] = "settings"
  /\ conf' = [conf EXCEPT ![p] = settings]
  /\ pc' = [pc EXCEPT ![p] = "claim"]
  /\ UNCHANGED <<db, claimed, todo, current, image, history, faults>>

\* claimBatch(): open the transaction of the batch and lock its rows.
Claim(p) ==
  /\ pc[p] = "claim"
  /\ \E S \in SUBSET Claimable :
       /\ \/ Cardinality(S) = conf[p].batch
          \/ S = Claimable /\ Cardinality(S) < conf[p].batch
       /\ claimed' = [claimed EXCEPT ![p] = S]
       /\ todo' = [todo EXCEPT ![p] = S]
       /\ image' = [image EXCEPT ![p] =
                      [r \in Rows |-> IF r \in S THEN outbox[r] ELSE Absent]]
  /\ pc' = [pc EXCEPT ![p] = "row"]
  /\ UNCHANGED <<db, conf, current, history, faults>>

\* Fault: processRow() without its catch around sendMail().
AfterSendIgnoringErrors(outcome) == "mark"

\* sendMail() resolved: markSent() is next; it rejected: the catch is.
AfterSend(outcome) == IF outcome = "accepted" THEN "mark" ELSE "fail"

\* What becomes of a mail: accepted by the SMTP server; refused, or not even
\* rendered; or taken by the server although sendMail() rejected (the
\* connection fell between the end of the message and its acknowledgement).
Outcomes == {"accepted", "refused", "late"}

Record(r, outcome) ==
  /\ mailed' = [mailed EXCEPT ![r] = IF outcome = "refused" THEN @ ELSE @ + 1]
  /\ late' = [late EXCEPT ![r] = IF outcome = "late" THEN @ + 1 ELSE @]
  /\ failures' = [failures EXCEPT ![r] =
                    IF outcome = "accepted" THEN @ ELSE @ + 1]

\* processRow(), the mail.
Send(p, r, outcome) ==
  /\ pc[p] = "row"
  /\ r \in todo[p]
  /\ current' = [current EXCEPT ![p] = r]
  /\ pc' = [pc EXCEPT ![p] = AfterSend(outcome)]
  /\ Record(r, outcome)
  /\ UNCHANGED <<db, conf, claimed, todo, image, faults>>

\* The row in hand is settled in the transaction; the loop goes on.
NextRow(p) ==
  /\ todo' = [todo EXCEPT ![p] = @ \ {current[p]}]
  /\ current' = [current EXCEPT ![p] = NoRow]
  /\ pc' = [pc EXCEPT ![p] = "row"]
  /\ UNCHANGED <<db, conf, claimed, mailed, late, failures, faults>>

MarkSent(p) ==
  /\ pc[p] = "mark"
  /\ image' = [image EXCEPT ![p][current[p]] = WithStatus(@, "sent")]
  /\ NextRow(p)

\* Fault: the last attempt is given up unused.
ExhaustedEarly(attempts, max) == attempts + 2 >= max

\* The failure in hand is the last one allowed.
Exhausted(attempts, max) == attempts + 1 >= max

\* One more attempt and a longer wait, or the DELETE.
Failed(row, max) ==
  IF Exhausted(row.attempts, max)
  THEN WithStatus(row, "discarded")
  ELSE [status |-> "pending", attempts |-> row.attempts + 1,
        wait |-> Backoff(row.attempts)]

MarkFailedOrDiscard(p) ==
  /\ pc[p] = "fail"
  /\ image' = [image EXCEPT ![p][current[p]] = Failed(@, conf[p].max)]
  /\ NextRow(p)

\* The cycle leaves no transaction open: its locks and its view are gone.
EndCycle(p) ==
  /\ pc' = [pc EXCEPT ![p] = "idle"]
  /\ claimed' = [claimed EXCEPT ![p] = {}]
  /\ todo' = [todo EXCEPT ![p] = {}]
  /\ current' = [current EXCEPT ![p] = NoRow]
  /\ image' = [image EXCEPT ![p] = [r \in Rows |-> Absent]]
  /\ conf' = [conf EXCEPT ![p] = NoConf]
  /\ UNCHANGED <<settings, history>>

Commit(p) ==
  /\ pc[p] = "row"
  /\ todo[p] = {}
  /\ outbox' = [r \in Rows |->
                  IF r \in claimed[p] THEN image[p][r] ELSE outbox[r]]
  /\ EndCycle(p)
  /\ UNCHANGED faults

\* A database error.  Before the batch is claimed, runDispatchCycle() logs it
\* and returns.  Later it aborts the transaction of the whole batch: after a
\* failed markSent() the UPDATE of markFailedOrDiscard() fails as well, and
\* the catch of the cycle rolls everything back.  COMMIT may be what failed.
CycleFails(p) ==
  /\ \/ pc[p] \in {"settings", "claim", "mark", "fail"}
     \/ pc[p] = "row" /\ todo[p] = {}
  /\ faults < MaxFaults
  /\ faults' = faults + 1
  /\ EndCycle(p)
  /\ UNCHANGED outbox

\* The process dies, at any point of the cycle, and is started again.
Crash(p) ==
  /\ pc[p] # "idle"
  /\ faults < MaxFaults
  /\ faults' = faults + 1
  /\ EndCycle(p)
  /\ UNCHANGED outbox

\* The transaction of the batch is gone, locks and all, while a mail of it is
\* on its way or about to leave: the database session fell, which only the
\* next UPDATE will tell, or the process died and left the mail to the
\* network (it is started again under another name).
LoseSession(p, r) ==
  /\ pc[p] = "row"
  /\ r \in todo[p]
  /\ faults < MaxFaults
  /\ faults' = faults + 1
  /\ pc' = [pc EXCEPT ![p] = "adrift"]
  /\ current' = [current EXCEPT ![p] = r]
  /\ claimed' = [claimed EXCEPT ![p] = {}]
  /\ todo' = [todo EXCEPT ![p] = {}]
  /\ image' = [image EXCEPT ![p] = [s \in Rows |-> Absent]]
  /\ conf' = [conf EXCEPT ![p] = NoConf]
  /\ UNCHANGED <<db, history>>

\* The mail that was on its way meets its fate; the statement that would have
\* recorded it fails, its catch fails too, and the cycle is over: no other
\* row of the batch is sent.
Land(p, outcome) ==
  /\ pc[p] = "adrift"
  /\ Record(current[p], outcome)
  /\ pc' = [pc EXCEPT ![p] = "idle"]
  /\ current' = [current EXCEPT ![p] = NoRow]
  /\ UNCHANGED <<db, conf, claimed, todo, image, faults>>

-----------------------------------------------------------------------------
\* What the code does when nothing breaks.
CycleStep(p) ==
  \/ StartCycle(p)
  \/ ReadSettings(p)
  \/ Claim(p)
  \/ \E r \in Rows, outcome \in Outcomes : Send(p, r, outcome)
  \/ MarkSent(p)
  \/ MarkFailedOrDiscard(p)
  \/ Commit(p)
  \/ \E outcome \in Outcomes : Land(p, outcome)

Next ==
  \/ \E r \in Rows : Enqueue(r)
  \/ ChangeSettings
  \/ Tick
  \/ \E p \in Replicas : CycleStep(p) \/ CycleFails(p) \/ Crash(p)
  \/ \E p \in Replicas, r \in Rows : LoseSession(p, r)

Spec == Init /\ [][Next]_vars

\* Time passes, the timer of a replica fires and an awaited call returns.
Fairness == WF_vars(Tick) /\ \A p \in Replicas : WF_vars(CycleStep(p))

FairSpec == Spec /\ Fairness

-----------------------------------------------------------------------------
(* Properties. *)

\* Two open batches never hold the same row, whatever the replicas, and a row
\* someone holds is still pending: SKIP LOCKED divides the queue.
BatchesAreDisjoint ==
  \A p \in Replicas : \A r \in claimed[p] :
    /\ outbox[r].status = "pending"
    /\ \A q \in Replicas \ {p} : r \notin claimed[q]

\* A row is marked as sent only if the SMTP server took its mail.
SentWasMailed ==
  \A r \in Rows : outbox[r].status = "sent" => mailed[r] > 0

\* Every copy of a mail beyond the first is paid for: by a crash, a database
\* error or a lost session, at most one copy of a row each, or by a send that
\* failed after the server took the mail.  With none of these nobody gets the
\* same notification twice.
DuplicatesHaveACause ==
  \A r \in Rows : mailed[r] <= 1 + late[r] + faults

\* A row is given up only after as many failed sends as some value of the
\* maximum the operator has set, and a row that is still pending has not used
\* up the largest of them: attempts count sends that really failed.
AttemptsAreHonest ==
  \A r \in Rows :
    /\ outbox[r].attempts <= failures[r]
    /\ outbox[r].status = "discarded" =>
         \E max \in MaxAttemptsValues : failures[r] >= max
    /\ outbox[r].status = "pending" =>
         \E max \in MaxAttemptsValues : outbox[r].attempts < max

Forward ==
  \A r \in Rows :
    /\ outbox[r].status \in {"sent", "discarded"} =>
         outbox'[r].status = outbox[r].status
    /\ outbox[r].status = "pending" => outbox'[r].status # "absent"
    /\ outbox'[r].attempts - outbox[r].attempts \in {0, 1}

\* A row leaves the queue once and for all, and no step forgets a failed
\* attempt that was committed or counts two at once.
RowsOnlyMoveForward == [][Forward]_vars

\* Every enqueued notification is in the end sent or discarded, whatever the
\* replicas that die on the way.
EveryRowSettles ==
  \A r \in Rows : outbox[r].status = "pending" ~>
                    outbox[r].status \in {"sent", "discarded"}

-----------------------------------------------------------------------------
(* The inductive invariant behind the safety properties. *)

\* Where a cycle stands says what its transaction holds, and a row it has not
\* come to yet is in its view exactly as it is committed.
CycleInv ==
  \A p \in Replicas :
    /\ todo[p] \subseteq claimed[p]
    /\ pc[p] \in {"idle", "settings", "claim", "adrift"} => claimed[p] = {}
    /\ pc[p] \in {"mark", "fail"} => current[p] \in todo[p]
    /\ pc[p] = "adrift" => current[p] \in Rows
    /\ \A r \in todo[p] : image[p][r] = outbox[r]

\* A mail has left for every row that is sent, is sent in the view of an open
\* transaction, or is about to be.
MailInv ==
  /\ SentWasMailed
  /\ \A p \in Replicas :
       /\ pc[p] = "mark" => mailed[current[p]] > 0
       /\ \A r \in claimed[p] : image[p][r].status = "sent" => mailed[r] > 0

\* The attempts of a row, committed or not, are failures that took place.
Honest(row, failed) ==
  /\ row.status = "absent" => row.attempts = 0
  /\ row.attempts <= failed
  /\ row.status = "discarded" => \E max \in MaxAttemptsValues : failed >= max
  /\ row.status = "pending" =>
       \E max \in MaxAttemptsValues : row.attempts < max

AttemptsInv ==
  /\ \A r \in Rows : Honest(outbox[r], failures[r])
  /\ \A p \in Replicas : \A r \in claimed[p] :
       Honest(image[p][r], failures[r]) /\ image[p][r].status # "absent"
  /\ \A p \in Replicas : pc[p] = "fail" =>
       image[p][current[p]].attempts < failures[current[p]]

\* A batch adds at most one attempt to each of its rows.
OneAttemptInv ==
  \A p \in Replicas : \A r \in claimed[p] :
    image[p][r].attempts \in {outbox[r].attempts, outbox[r].attempts + 1}

\* The one copy a row needs has left and its record is not lost so far.
Delivered(r) ==
  \/ outbox[r].status = "sent"
  \/ \E p \in Replicas :
       /\ r \in claimed[p]
       /\ image[p][r].status = "sent" \/ (pc[p] = "mark" /\ current[p] = r)

\* The cycles that have lost their transaction with a mail of r on its way.
Adrift(r) == {p \in Replicas : pc[p] = "adrift" /\ current[p] = r}

\* A mail adrift is paid for before it lands.
CopiesInv ==
  \A r \in Rows :
    mailed[r] + Cardinality(Adrift(r)) <=
      late[r] + faults + (IF Delivered(r) THEN 1 ELSE 0)

IndInv ==
  /\ TypeOK
  /\ CycleInv
  /\ BatchesAreDisjoint
  /\ MailInv
  /\ AttemptsInv
  /\ OneAttemptInv
  /\ CopiesInv

-----------------------------------------------------------------------------
(* What the outbox implements. *)

Promise == INSTANCE NotificationPromise WITH
  Notifications <- Rows,
  Patience <- MaxAttemptsValues,
  state <- [r \in Rows |-> IF outbox[r].status = "pending"
                           THEN "queued" ELSE outbox[r].status],
  copies <- mailed,
  setbacks <- failures,
  strays <- [r \in Rows |-> Cardinality(Adrift(r))]

\* Whatever the replicas and their faults, a row settles as sent only if its
\* mail was taken and as discarded only after enough failures; no mail of a
\* row leaves before it is queued, and after it is settled only one that was
\* on its way when its batch lost its transaction.
KeepsPromise == Promise!PSpec
=============================================================================
