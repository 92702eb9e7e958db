-------------------------- MODULE RequirementMails ---------------------------
(***************************************************************************)
(* Who gets a mail of what happens to a requirement: its subscribers       *)
(* (core/src/commands/requirements), and what core/src/notifications makes *)
(* of them when a command that announces something is about to commit.     *)
(*                                                                         *)
(* A command is one READ COMMITTED transaction, and nearly every question  *)
(* it asks is a query of its own: what the requirement is, who is          *)
(* subscribed, who has an address, who has a permission.  Each sees what   *)
(* is committed at that moment, and what the transaction itself has        *)
(* written.                                                                *)
(*                                                                         *)
(* An INSERT waits for whoever is inserting or deleting the same key, an   *)
(* UPDATE for whoever is updating the row, a DELETE for whoever is         *)
(* deleting what it has found.                                             *)
(*                                                                         *)
(* Abstractions.  There is one requirement.  What an edit announces -      *)
(* resolved, reopened or nothing - is RequirementLifecycle's business and  *)
(* a choice here; resolve is an edit that does not touch the visibility.   *)
(* What a mail says is left out, as are events and files.                  *)
(***************************************************************************)
EXTENDS Integers, FiniteSets

CONSTANTS
  Txs,         \* the transactions
  People,      \* users
  Earlier,     \* those who are subscribed at first, if there is a requirement
  Commands,    \* what they may ask for
  MaxChanges,  \* of permissions and addresses
  MaxFaults,   \* transactions that fail
  None

Levels  == {"public", "internal"}
Answers == {"success", "failure"}
\* `level` is that of the requirement or of the comment, `people` whom to
\* subscribe or not; without an envelope there is no actor.
Command ==
  [kind : {"new", "edit", "comment", "subscribe", "unsubscribe"},
   actor : People \union {None}, level : Levels \union {None}, people : SUBSET People]

ASSUME MailsAssumption ==
  /\ Commands \subseteq Command /\ Earlier \subseteq People
  /\ None \notin People \union Txs \union Levels \union Answers /\ None \notin Commands
  /\ \A c \in Commands :
       /\ c.kind \in {"new", "comment"} => c.level # None
       /\ c.kind \in {"subscribe", "unsubscribe"} => \E p \in People : c.people = {p}
  /\ MaxChanges \in Nat /\ MaxFaults \in Nat

VARIABLES
  level,       \* visibilityLevel of the requirement, None while there is none
  subscribed,  \* the rows of requirement_subscriptors: who, and by which transaction
  permitted,   \* people with a permission on the project
  addressed,   \* people with an email
  mails,       \* the rows of the outbox: to whom, and of which transaction
  pc,          \* where each transaction stands
  command,     \* what it does
  copy,        \* the level it has read at first
  own,         \* what it has written: the row, its level, rows added, found and deleted
  announces,   \* whether it declares a notification
  chosen,      \* the recipients so far
  answer,      \* what the caller is told
  changes, faults,
  ever,        \* history: what was true at some moment after its declaration
  always       \* history: what was true from then on

dbVars  == <<level, subscribed, permitted, addressed, mails>>
txVars  == <<pc, command, copy, own, announces, chosen, answer>>
history == <<ever, always>>
vars    == <<dbVars, txVars, changes, faults, history>>

Subscription == [person : People, by : Txs \union {None}]
Untouched == [row |-> FALSE, level |-> None, added |-> {}, found |-> {}, deleted |-> {}]

Init ==
  /\ level \in Levels \union {None}
  /\ subscribed = IF level = None THEN {} ELSE [person : Earlier, by : {None}]
  /\ permitted = People /\ addressed = People /\ mails = {}
  /\ pc = [t \in Txs |-> "idle"] /\ command = [t \in Txs |-> None]
  /\ copy = [t \in Txs |-> None] /\ own = [t \in Txs |-> Untouched]
  /\ announces = [t \in Txs |-> FALSE] /\ chosen = [t \in Txs |-> {}]
  /\ answer = [t \in Txs |-> None]
  /\ changes = 0 /\ faults = 0
  /\ ever = [t \in Txs |-> {}] /\ always = [t \in Txs |-> {}]

-----------------------------------------------------------------------------
(* What a transaction sees.                                                *)

LevelSeen(t) == IF own[t].level = None THEN level ELSE own[t].level

RowsSeen(t) == (subscribed \union own[t].added) \ own[t].deleted
Subscribers(rows) == {r.person : r \in rows}

\* What may make somebody a recipient.
Facts(t) ==
  (IF LevelSeen(t) = "public" THEN {<<"public", None>>} ELSE {})
  \union {<<"subscribed", p>> : p \in Subscribers(RowsSeen(t))}
  \union {<<"permitted", p>> : p \in permitted}
  \union {<<"addressed", p>> : p \in addressed}

\* From its declaration to the commit.
Telling(t) ==
  announces[t] /\ pc[t] \in {"visible", "candidates", "users", "permission", "commit"}

\* What is remembered of a transaction: something new while it is telling, for good
\* once it has succeeded, and nothing of the others.
Recall(t, new, old) ==
  IF Telling(t)' THEN new ELSE IF answer'[t] = "success" THEN old ELSE {}

\* With every step.
Remember ==
  /\ ever'   = [t \in Txs |-> Recall(t, ever[t] \union Facts(t)', ever[t])]
  /\ always' = [t \in Txs |->
       Recall(t, IF Telling(t) THEN always[t] \intersect Facts(t)' ELSE Facts(t)', always[t])]

Goes(t, to) == pc' = [pc EXCEPT ![t] = to]

-----------------------------------------------------------------------------
(* Permissions and addresses change.                                       *)

Toggle(p, S) == IF p \in S THEN S \ {p} ELSE S \union {p}

Change(p) ==
  /\ changes < MaxChanges
  /\ changes' = changes + 1
  /\ \/ permitted' = Toggle(p, permitted) /\ UNCHANGED addressed
     \/ addressed' = Toggle(p, addressed) /\ UNCHANGED permitted
  /\ UNCHANGED <<level, subscribed, mails, txVars, faults>>

-----------------------------------------------------------------------------
(* The commands.                                                           *)

\* Nobody knows the requirement before it is committed, nor is it created twice.
Begin(t, c) ==
  /\ pc[t] = "idle"
  /\ c.kind = "new" => /\ level = None
                       /\ \A u \in Txs : command[u] # None => command[u].kind # "new"
  /\ Goes(t, IF c.kind = "new" THEN "write" ELSE IF c.kind = "unsubscribe" THEN "find"
             ELSE "read")
  /\ command' = [command EXCEPT ![t] = c]
  /\ UNCHANGED <<dbVars, copy, own, announces, chosen, answer, changes, faults>>

\* The transaction ends, and so do its locks.
Forget(t) ==
  /\ own' = [own EXCEPT ![t] = Untouched]
  /\ copy' = [copy EXCEPT ![t] = None] /\ chosen' = [chosen EXCEPT ![t] = {}]

Rollback(t) ==
  /\ Goes(t, "done")
  /\ answer' = [answer EXCEPT ![t] = "failure"]
  /\ Forget(t)
  /\ UNCHANGED <<dbVars, command, announces, changes>>

\* requirement_not_found
NotFound(t) == pc[t] = "read" /\ level = None /\ Rollback(t) /\ UNCHANGED faults

Read(t) ==
  /\ pc[t] = "read" /\ level # None
  /\ copy' = [copy EXCEPT ![t] = level]
  /\ Goes(t, IF command[t].kind = "subscribe" THEN "check" ELSE "write")
  /\ UNCHANGED <<dbVars, command, own, announces, chosen, answer, changes, faults>>

\* already_subscribed
Check(t) ==
  /\ pc[t] = "check"
  /\ IF command[t].people \subseteq Subscribers(subscribed)
       THEN Rollback(t)
       ELSE /\ Goes(t, "write")
            /\ UNCHANGED <<dbVars, command, copy, own, announces, chosen, answer, changes>>
  /\ UNCHANGED faults

\* After execute(): a declaration goes to writeNotifications().
Declare(t, declares) ==
  /\ announces' = [announces EXCEPT ![t] = declares]
  /\ Goes(t, IF declares THEN "visible" ELSE "commit")
  /\ UNCHANGED <<dbVars, command, copy, chosen, answer, changes, faults>>

Wrote(t, what) == own' = [own EXCEPT ![t] = what]

Create(t) ==
  /\ pc[t] = "write" /\ command[t].kind = "new"
  /\ Wrote(t, [Untouched EXCEPT !.level = command[t].level,
                                !.added = [person : command[t].people, by : {t}]])
  /\ Declare(t, TRUE)

\* The comment and the copy of the requirement are to be public.
Comment(t) ==
  /\ pc[t] = "write" /\ command[t].kind = "comment"
  /\ Declare(t, command[t].level = "public" /\ copy[t] = "public")
  /\ UNCHANGED own

\* Two edits that write the row do so one after the other.
RowIsFree(t) == \A u \in Txs \ {t} : ~ own[u].row

\* update(), of what differs from the copy; an edit that declares anything has
\* changed the state.
Edit(t, declares) ==
  /\ pc[t] = "write" /\ command[t].kind = "edit"
  /\ LET differs == command[t].level \notin {None, copy[t]} IN
       /\ declares \/ differs => RowIsFree(t)
       /\ Wrote(t, [Untouched EXCEPT !.row = declares \/ differs,
                                     !.level = IF differs THEN command[t].level ELSE None])
  /\ Declare(t, declares)

\* Nobody is inserting or deleting a row of the same person.
KeyIsFree(t) ==
  \A u \in Txs \ {t} : command[t].people \intersect
                         Subscribers(own[u].added \union own[u].deleted) = {}

Taken(t) == command[t].people \intersect Subscribers(subscribed) # {}

\* create(), which throws if the row is there by now.
Subscribe(t) ==
  /\ pc[t] = "write" /\ command[t].kind = "subscribe" /\ KeyIsFree(t)
  /\ IF Taken(t)
       THEN Rollback(t) /\ UNCHANGED faults
       ELSE /\ Wrote(t, [Untouched EXCEPT !.added = [person : command[t].people, by : {t}]])
            /\ Declare(t, TRUE)

\* destroy(): the rows it sees ...
Find(t) ==
  /\ pc[t] = "find"
  /\ Wrote(t, [Untouched EXCEPT !.found = {r \in subscribed : r.person \in command[t].people}])
  /\ Goes(t, "delete")
  /\ UNCHANGED <<dbVars, command, copy, announces, chosen, answer, changes, faults>>

\* Fault: what was found counts as deleted.
AllFound(t) == own[t].found

StillThere(t) == own[t].found \intersect subscribed

\* ... and what is left of them once nobody else is deleting one.
\* subscription_not_found if there is nothing left.
Unsubscribe(t) ==
  /\ pc[t] = "delete"
  /\ \A u \in Txs \ {t} : own[u].deleted \intersect own[t].found = {}
  /\ IF StillThere(t) = {}
       THEN Rollback(t) /\ UNCHANGED faults
       ELSE /\ Wrote(t, [own[t] EXCEPT !.deleted = StillThere(t)])
            /\ Declare(t, FALSE)

-----------------------------------------------------------------------------
(* The notification.                                                       *)

\* Fault: the transaction is not passed to the query.
passesVisibilityOutside(t) ==
  level = "public" /\ (command[t].kind = "comment" => command[t].level = "public")

passesVisibility(t) ==
  /\ LevelSeen(t) = "public"
  /\ command[t].kind = "comment" => command[t].level = "public"

Visible(t) ==
  /\ pc[t] = "visible"
  /\ Goes(t, IF passesVisibility(t) THEN "candidates" ELSE "commit")
  /\ UNCHANGED <<dbVars, command, copy, own, announces, chosen, answer, changes, faults>>

Chooses(t, people, next) ==
  /\ chosen' = [chosen EXCEPT ![t] = people]
  /\ Goes(t, IF people = {} THEN "commit" ELSE next)
  /\ UNCHANGED <<dbVars, command, copy, own, announces, answer, changes, faults>>

\* Fault: the override names who acts.
CandidatesByActor(t) ==
  /\ pc[t] = "candidates"
  /\ Chooses(t, IF command[t].kind = "subscribe" THEN {command[t].actor}
                ELSE Subscribers(RowsSeen(t)), "users")

\* recipientOverride: exactly the new subscriber.
Candidates(t) ==
  /\ pc[t] = "candidates"
  /\ Chooses(t, IF command[t].kind = "subscribe" THEN command[t].people
                ELSE Subscribers(RowsSeen(t)), "users")

\* Fault: whoever acts is told too.
WithAddress(t, people) == people \intersect addressed

excludeActorDedupAndRequireEmail(t, people) ==
  (people \intersect addressed) \ {command[t].actor}

Users(t) ==
  /\ pc[t] = "users"
  /\ Chooses(t, excludeActorDedupAndRequireEmail(t, chosen[t]), "permission")

Permission(t) ==
  /\ pc[t] = "permission"
  /\ Chooses(t, chosen[t] \intersect permitted, "commit")

\* bulkCreate() and COMMIT.
Commit(t) ==
  /\ pc[t] = "commit"
  /\ Goes(t, "done")
  /\ answer' = [answer EXCEPT ![t] = "success"]
  /\ level' = LevelSeen(t) /\ subscribed' = RowsSeen(t)
  /\ mails' = mails \union [to : chosen[t], by : {t}]
  /\ Forget(t)
  /\ UNCHANGED <<permitted, addressed, command, announces, changes, faults>>

\* A query rejects, or the process ends.
Fail(t) ==
  /\ pc[t] \notin {"idle", "done"} /\ faults < MaxFaults
  /\ faults' = faults + 1
  /\ Rollback(t)

Next ==
  \/ \E t \in Txs :
       \/ \E c \in Commands : Begin(t, c) /\ Remember
       \/ NotFound(t) /\ Remember
       \/ Read(t) /\ Remember
       \/ Check(t) /\ Remember
       \/ Create(t) /\ Remember
       \/ Comment(t) /\ Remember
       \/ \E declares \in BOOLEAN : Edit(t, declares) /\ Remember
       \/ Subscribe(t) /\ Remember
       \/ Find(t) /\ Remember
       \/ Unsubscribe(t) /\ Remember
       \/ Visible(t) /\ Remember
       \/ Candidates(t) /\ Remember
       \/ Users(t) /\ Remember
       \/ Permission(t) /\ Remember
       \/ Commit(t) /\ Remember
       \/ Fail(t) /\ Remember
  \/ \E p \in People : Change(p) /\ Remember

Spec == Init /\ [][Next]_vars

-----------------------------------------------------------------------------
\* The type of every variable.
TypeOK ==
  /\ level \in Levels \union {None} /\ subscribed \subseteq Subscription
  /\ permitted \subseteq People /\ addressed \subseteq People
  /\ mails \subseteq [to : People, by : Txs]
  /\ pc \in [Txs -> {"idle", "read", "check", "write", "find", "delete", "visible",
                     "candidates", "users", "permission", "commit", "done"}]
  /\ command \in [Txs -> Commands \union {None}]
  /\ copy \in [Txs -> Levels \union {None}]
  /\ own \in [Txs -> [row : BOOLEAN, level : Levels \union {None}, added : SUBSET Subscription,
                      found : SUBSET Subscription, deleted : SUBSET Subscription]]
  /\ announces \in [Txs -> BOOLEAN] /\ chosen \in [Txs -> SUBSET People]
  /\ answer \in [Txs -> Answers \union {None}]
  /\ changes \in 0..MaxChanges /\ faults \in 0..MaxFaults

\* What has to be true for p to be told: a new subscriber need not have been one.
Needed(t, p) ==
  {<<"public", None>>, <<"permitted", p>>, <<"addressed", p>>}
  \union IF command[t].kind = "subscribe" THEN {} ELSE {<<"subscribed", p>>}
Meant(t) ==
  {p \in People \ {command[t].actor} :
     /\ command[t].kind = "subscribe" => p \in command[t].people
     /\ command[t].kind = "comment" => command[t].level = "public"}

\* A mail goes only to people it is meant for, and who were subscribed, allowed
\* and within reach, each at some moment between the writes of the command and its
\* commit; nothing of what was internal all that time is mailed, and nothing that
\* was not done.
OnlyWhoMay ==
  \A m \in mails : /\ answer[m.by] = "success" /\ announces[m.by]
                   /\ m.to \in Meant(m.by) /\ Needed(m.by, m.to) \subseteq ever[m.by]

\* Nobody is left out who was all that from the writes of the command on, these
\* included, whatever happens to others and in whatever order the questions are asked.
NobodyForgotten ==
  \A t \in Txs : answer[t] = "success" /\ announces[t] =>
    \A p \in Meant(t) : Needed(t, p) \subseteq always[t] => [to |-> p, by |-> t] \in mails

Told(kind, p) ==
  Cardinality({t \in Txs : answer[t] = "success" /\ command[t].kind = kind
                             /\ p \in command[t].people})

Created == \E t \in Txs : answer[t] = "success" /\ command[t].kind = "new"
Initially == IF level = None \/ Created THEN {} ELSE Earlier

\* The answers add up to the subscriptions: each that was said to be made was
\* made, and each that was said to be removed was the one there was.
AnswersAddUp ==
  \A p \in People :
    Cardinality({r \in subscribed : r.person = p}) =
      (IF p \in Initially THEN 1 ELSE 0)
      + Told("new", p) + Told("subscribe", p) - Told("unsubscribe", p)
=============================================================================
