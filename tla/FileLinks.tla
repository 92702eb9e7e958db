----------------------------- MODULE FileLinks -----------------------------
(***************************************************************************)
(* Files and the entities they are linked to: the request of an upload,    *)
(* the upload itself, and the commands that create or edit a card (a task  *)
(* or a requirement) or a comment with the list of its files               *)
(* (core/src/commands/link-files.ts), or that undo one link.               *)
(*                                                                         *)
(* Every command is a READ COMMITTED transaction.  A read sees what is     *)
(* committed when it starts; an UPDATE waits for the transactions that     *)
(* have updated the row, a DELETE for those that are deleting it, and then *)
(* deletes what is left of the rows it has found.                          *)
(*                                                                         *)
(* An edit updates the row of its entity before it reads the links, but    *)
(* only if something in it changes: comments always do (editedAt), cards   *)
(* when a field differs from the value that was read.  That update is all  *)
(* that keeps two edits of one entity apart.                               *)
(*                                                                         *)
(* Abstractions.  A card has one field, a text that may be emptied like    *)
(* the description of a task.  A link is known by the transaction that     *)
(* created it and its position in the list.  Refusals for the size or the  *)
(* type of a file change nothing and are left out; no code of the          *)
(* repository takes a file out of retention.                               *)
(***************************************************************************)
EXTENDS Integers, FiniteSets, Sequences, SequencesExt

CONSTANTS
  Txs,        \* the transactions
  Files,      \* the files that may be uploaded
  People,     \* who uploads and edits
  Careful,    \* those whose client links a file after its upload: the web
  Cards,      \* tasks and requirements
  Comments,   \* comments of them
  Old,        \* those there are already
  Values,     \* values of the field of a card
  Empty,      \* the empty ones: null and ''
  Initial,    \* its value when it is created
  MaxFiles,   \* the longest list of a command
  None        \* nobody, nothing

ASSUME FilesAssumption ==
  /\ Careful \subseteq People /\ None \notin People
  /\ Cards \intersect Comments = {} /\ None \notin Cards \union Comments
  /\ Old \subseteq Cards \union Comments
  /\ Empty \subseteq Values /\ Initial \in Values /\ MaxFiles \in Nat

VARIABLES
  owner,    \* uploadedBy of each file, None while it does not exist
  status,   \* its byteStatus
  stored,   \* the files whose bytes are in the store
  exists,   \* the committed entities
  value,    \* the field of each card
  log,      \* its activities, oldest first
  rows,     \* the committed links
  pc,       \* where each transaction stands
  job,      \* the command it runs
  was,      \* the field of the card when it was read
  seen,     \* the links it has read, or the one it undoes
  deleted,  \* the links it has deleted, until it ends
  before    \* history: the commands that had succeeded when it began

fileVars == <<owner, status, stored>>
dbVars   == <<exists, value, log, rows>>
vars     == <<fileVars, dbVars, pc, job, was, seen, deleted, before>>

Entities == Cards \union Comments

\* fileIds of a command: a list, in which a file may be twice.
Lists == UNION {[1..n -> Files] : n \in 0..MaxFiles}

\* A creation and an edit, by whom, with which files; in an edit, the field
\* may be absent.
Save == [cmd : {"new", "edit"}, entity : Entities, who : People,
         files : Lists, field : Values \union {None}]
Link == [by : Txs, pos : 1..MaxFiles, file : Files, entity : Entities]
Job  == Save \union [cmd : {"unlink"}, link : Link]

NoJob == [cmd |-> "none"]

Init ==
  /\ owner = [f \in Files |-> None]
  /\ status = [f \in Files |-> "pending"]
  /\ stored = {}
  /\ exists = Old
  /\ value = [c \in Cards |-> Initial] /\ log = [c \in Cards |-> <<>>]
  /\ rows = {}
  /\ pc = [t \in Txs |-> "idle"] /\ job = [t \in Txs |-> NoJob]
  /\ was = [t \in Txs |-> None]
  /\ seen = [t \in Txs |-> {}] /\ deleted = [t \in Txs |-> {}]
  /\ before = [t \in Txs |-> {}]

-----------------------------------------------------------------------------
(* Uploads.                                                                *)

\* files.request-upload: the row of the file, and an URL that is signed before
\* anything is in the store.
RequestUpload(f, p) ==
  /\ owner[f] = None
  /\ owner' = [owner EXCEPT ![f] = p]
  /\ UNCHANGED <<status, stored, dbVars, pc, job, was, seen, deleted, before>>

\* The client puts the bytes; or never does, or too late for the URL.
Put(f) ==
  /\ owner[f] # None /\ f \notin stored
  /\ stored' = stored \union {f}
  /\ UNCHANGED <<owner, status, dbVars, pc, job, was, seen, deleted, before>>

-----------------------------------------------------------------------------
Is(t, cmds) == job[t].cmd \in cmds

Goes(t, from, to) == pc[t] = from /\ pc' = [pc EXCEPT ![t] = to]

\* The file ids of a command, each once.
Asked(t) == ToSet(job[t].files)

\* The web lists files it knows of, those of its user when they have been put.
Uploaded(j) ==
  j.who \in Careful => \A i \in DOMAIN j.files :
    /\ owner[j.files[i]] # None
    /\ owner[j.files[i]] = j.who => j.files[i] \in stored

\* The entity of a creation gets an id nobody else has.
Fresh(j) ==
  /\ j.entity \notin exists
  /\ \A u \in Txs : Is(u, {"new"}) => job[u].entity # j.entity

\* The command starts, and reads the row of its entity.
BeginSave(t, j) ==
  /\ Uploaded(j)
  /\ IF j.cmd = "new" THEN Fresh(j) /\ j.field = None ELSE j.entity \in exists
  /\ j.entity \in Comments => j.field = None
  /\ Goes(t, "idle", "begun")
  /\ job' = [job EXCEPT ![t] = j]
  /\ was' = [was EXCEPT ![t] = IF j.entity \in Cards THEN value[j.entity] ELSE None]
  /\ before' = [before EXCEPT ![t] = {u \in Txs : pc[u] = "done"}]
  /\ UNCHANGED <<fileVars, dbVars, seen, deleted>>

\* attachments.{id}.delete, for a link its client has seen.
BeginUnlink(t, r) ==
  /\ Goes(t, "idle", "read")
  /\ job' = [job EXCEPT ![t] = [cmd |-> "unlink", link |-> r]]
  /\ seen' = [seen EXCEPT ![t] = {r}]
  /\ before' = [before EXCEPT ![t] = {u \in Txs : pc[u] = "done"}]
  /\ UNCHANGED <<fileVars, dbVars, was, deleted>>

-----------------------------------------------------------------------------
\* Fault: comments are compared like cards.
WritesField(t) ==
  Is(t, {"edit"}) /\ job[t].entity \in Cards /\ job[t].field \notin {None, was[t]}
\* The edit has an UPDATE for its row.
Writes(t) ==
  /\ Is(t, {"edit"})
  /\ job[t].entity \in Cards => job[t].field \notin {None, was[t]}

\* The row is updated and nobody else updates it until the transaction ends.
Holds(t) == pc[t] \in {"updated", "read", "written"} /\ Writes(t)

RowIsFree(t) == \A u \in Txs \ {t} : Holds(u) => job[u].entity # job[t].entity

UpdateRow(t) ==
  /\ Writes(t) /\ RowIsFree(t)
  /\ Goes(t, "begun", "updated")
  /\ UNCHANGED <<fileVars, dbVars, job, was, seen, deleted, before>>

NothingToUpdate(t) ==
  /\ Is(t, {"new", "edit"}) /\ ~ Writes(t)
  /\ Goes(t, "begun", "updated")
  /\ UNCHANGED <<fileVars, dbVars, job, was, seen, deleted, before>>

\* An edit reads the links of its entity; a new one has none.
ReadLinks(t) ==
  /\ Goes(t, "updated", "read")
  /\ seen' = [seen EXCEPT ![t] =
                IF Is(t, {"edit"}) THEN {r \in rows : r.entity = job[t].entity}
                                   ELSE {}]
  /\ UNCHANGED <<fileVars, dbVars, job, was, deleted, before>>

FilesOf(S) == {r.file : r \in S}

\* The files that get a link, and are validated for it: those without one.
ToAdd(t) == IF Is(t, {"unlink"}) THEN {} ELSE Asked(t) \ FilesOf(seen[t])

\* Fault: who uploaded the file is not asked.
Exist(t) == \A f \in ToAdd(t) : owner[f] # None
\* They exist, and whoever links them has uploaded them.
Valid(t) == \A f \in ToAdd(t) : owner[f] = job[t].who

\* The transaction ends without a trace.
Fail(t) ==
  /\ pc' = [pc EXCEPT ![t] = "failed"]
  /\ job' = [job EXCEPT ![t] = NoJob]
  /\ was' = [was EXCEPT ![t] = None]
  /\ seen' = [seen EXCEPT ![t] = {}] /\ deleted' = [deleted EXCEPT ![t] = {}]
  /\ before' = [before EXCEPT ![t] = {}]
  /\ UNCHANGED <<fileVars, dbVars>>

Invalid(t) == pc[t] = "read" /\ ~ Valid(t) /\ Fail(t)

\* Fault: nothing is removed.
OnlyUnlinked(t) == IF Is(t, {"unlink"}) THEN seen[t] ELSE {}
\* The links that go: those of files that are not in the list any more.
ToRemove(t) ==
  IF Is(t, {"unlink"}) THEN seen[t] ELSE {r \in seen[t] : r.file \notin Asked(t)}

\* destroy() waits for those who are deleting the same links, and deletes what
\* they leave.
RemoveLinks(t) ==
  /\ pc[t] = "read" /\ Valid(t)
  /\ \A u \in Txs \ {t} : deleted[u] \intersect ToRemove(t) = {}
  /\ Is(t, {"unlink"}) => seen[t] \subseteq rows
  /\ deleted' = [deleted EXCEPT ![t] = ToRemove(t) \intersect rows]
  /\ Goes(t, "read", "written")
  /\ UNCHANGED <<fileVars, dbVars, job, was, seen, before>>

\* To undo a link that is gone is an error.
NotFound(t) ==
  /\ pc[t] = "read" /\ Is(t, {"unlink"}) /\ ~ seen[t] \subseteq rows
  /\ Fail(t)

\* The first place of each file in the list: [...new Set(fileIds)].
FirstPlaces(list) ==
  {i \in DOMAIN list : \A k \in 1..(i - 1) : list[k] # list[i]}

Inserted(t) ==
  IF Is(t, {"unlink"}) THEN {}
  ELSE {[by |-> t, pos |-> i, file |-> job[t].files[i], entity |-> job[t].entity]
          : i \in {k \in FirstPlaces(job[t].files) : job[t].files[k] \in ToAdd(t)}}

\* The edit changes the field of its card.
ChangesField(t) == Writes(t) /\ job[t].entity \in Cards

\* That leaves an activity, but not if the text is emptied.
Logged(t) == ChangesField(t) /\ job[t].field \notin Empty

\* Fault: the whole row is saved, with the values that were read.
WholeRow(t) == IF ChangesField(t) THEN job[t].field ELSE was[t]
\* The field of its card after an edit: UPDATE writes what changes.
NewValue(t) == IF ChangesField(t) THEN job[t].field ELSE value[job[t].entity]

Entry(t) == [by |-> t, from |-> was[t], to |-> job[t].field]

\* Then the files are marked as uploaded and get their links: nothing is read
\* any more, and nobody sees it before the transaction ends.
Commit(t) ==
  /\ Goes(t, "written", "done")
  /\ rows' = (rows \ deleted[t]) \union Inserted(t)
  /\ seen' = [seen EXCEPT ![t] = {}] /\ deleted' = [deleted EXCEPT ![t] = {}]
  /\ status' = [f \in Files |-> IF f \in ToAdd(t) THEN "uploaded" ELSE status[f]]
  /\ exists' = IF Is(t, {"new"}) THEN exists \union {job[t].entity} ELSE exists
  /\ value' = IF Is(t, {"edit"}) /\ job[t].entity \in Cards
              THEN [value EXCEPT ![job[t].entity] = NewValue(t)] ELSE value
  /\ log' = IF Logged(t)
            THEN [log EXCEPT ![job[t].entity] = Append(@, Entry(t))] ELSE log
  /\ UNCHANGED <<owner, stored, job, was, before>>

\* An error, or the end of the process.
RollBack(t) == pc[t] \in {"begun", "updated", "read", "written"} /\ Fail(t)

Next ==
  \/ \E f \in Files : Put(f) \/ \E p \in People : RequestUpload(f, p)
  \/ \E t \in Txs :
       \/ pc[t] = "idle" /\ (\/ \E j \in Save : BeginSave(t, j)
                             \/ \E r \in rows : BeginUnlink(t, r))
       \/ UpdateRow(t) \/ NothingToUpdate(t) \/ ReadLinks(t) \/ Invalid(t)
       \/ RemoveLinks(t) \/ NotFound(t) \/ Commit(t) \/ RollBack(t)

Spec == Init /\ [][Next]_vars

-----------------------------------------------------------------------------
\* The type of every variable.
TypeOK ==
  /\ owner \in [Files -> People \union {None}]
  /\ status \in [Files -> {"pending", "uploaded"}] /\ stored \subseteq Files
  /\ exists \subseteq Entities /\ rows \subseteq Link
  /\ value \in [Cards -> Values]
  /\ log \in [Cards -> Seq([by : Txs, from : Values, to : Values])]
  /\ pc \in [Txs -> {"idle", "begun", "updated", "read", "written", "done", "failed"}]
  /\ job \in [Txs -> Job \union {NoJob}]
  /\ was \in [Txs -> Values \union {None}]
  /\ seen \in [Txs -> SUBSET Link] /\ deleted \in [Txs -> SUBSET Link]
  /\ before \in [Txs -> SUBSET Txs]

Overlap(t, u) == t \notin before[u] /\ u \notin before[t]

\* "Un archivo, un vinculo", to the extent that the code keeps it: an entity has
\* two links of one file only if the edits that made them overlapped and one of
\* the two changed nothing in the row, so that nobody waited.  Never on a
\* comment, whose edits always change it.
OneLinkPerFile ==
  \A r, q \in rows : r # q /\ r.entity = q.entity /\ r.file = q.file =>
    /\ Overlap(r.by, q.by)
    /\ ~ (Writes(r.by) /\ Writes(q.by))
    /\ r.entity \in Cards

\* What makes this inductive.  Links come from transactions that succeeded, one
\* for each place of their list, on entities that exist.
Open(t) == pc[t] \in {"begun", "updated", "read", "written"}

RowsOfDone ==
  \A r \in rows : /\ pc[r.by] = "done" /\ Is(r.by, {"new", "edit"})
                  /\ r.entity = job[r.by].entity /\ r.entity \in exists
                  /\ r.pos \in FirstPlaces(job[r.by].files)
                  /\ r.file = job[r.by].files[r.pos]

\* Nobody is remembered who has not succeeded; only commands have a past; only an
\* undone link is known before it is read; and an edit of a card has read it.
OnlyDoneBefore ==
  \A t \in Txs : /\ \A u \in before[t] : pc[u] = "done"
                 /\ ~ Open(t) /\ pc[t] # "done" => before[t] = {} /\ job[t] = NoJob
                 /\ Open(t) => job[t] # NoJob
                 /\ pc[t] \in {"begun", "updated"} => ~ Is(t, {"unlink"})
                 /\ Is(t, {"edit"}) /\ job[t].entity \in Cards => was[t] \in Values

\* An entity is created once, and what edits it began after that.
OneCreator ==
  /\ \A t \in Txs : /\ Open(t) /\ Is(t, {"new"}) => job[t].entity \notin exists
                    /\ Is(t, {"edit"}) => job[t].entity \in exists
  /\ \A t, u \in Txs : t # u /\ Is(t, {"new"}) /\ Is(u, {"new"})
       => job[t].entity # job[u].entity
  /\ \A t, u \in Txs : Is(t, {"edit"}) /\ Is(u, {"new"}) /\ job[t].entity = job[u].entity
       => u \in before[t]

OneHolder ==
  \A t, u \in Txs : t # u /\ Holds(t) /\ Holds(u) => job[t].entity # job[u].entity

\* What an edit has not seen of the links of its entity was made by somebody who
\* overlapped with it, while one of the two did not hold the row.
Reading(t) == pc[t] \in {"read", "written"} /\ Is(t, {"edit"})

NothingUnseen ==
  \A t \in Txs : Reading(t) =>
    \A r \in rows : r.entity = job[t].entity /\ r \notin seen[t] =>
      Overlap(r.by, t) /\ ~ (Writes(r.by) /\ Writes(t))

LinkInv ==
  RowsOfDone /\ OnlyDoneBefore /\ OneCreator /\ OneHolder /\ NothingUnseen

\* What a successful edit says lasts: a file it lists is linked and one it does
\* not list is not, unless somebody who had not ended when it began has undone
\* the link or saved another list, and succeeded too.
EditLasts ==
  \A t \in Txs : pc[t] = "done" /\ Is(t, {"edit"}) =>
    LET e == job[t].entity
        Others == {u \in Txs \ (before[t] \union {t}) : pc[u] = "done"}
    IN /\ \A f \in Asked(t) :
            \/ \E r \in rows : r.entity = e /\ r.file = f
            \/ \E u \in Others :
                 \/ Is(u, {"unlink"}) /\ job[u].link.entity = e /\ job[u].link.file = f
                 \/ Is(u, {"edit"}) /\ job[u].entity = e /\ f \notin Asked(u)
       /\ \A r \in rows : r.entity = e /\ r.file \notin Asked(t) => r.by \in Others

\* D-13, "el cliente reporto el PUT y se le cree": the bytes of a linked file are
\* in the store if the client of whoever uploaded it waits for them, whoever
\* else lists the file and whoever keeps the link.
LinkedIsStored ==
  \A r \in rows : owner[r.file] \in Careful => r.file \in stored

Clears(t, c) == Is(t, {"edit"}) /\ job[t].entity = c /\ job[t].field \in Empty

\* What the log of a card says of its field.
LastLogged(c) == IF log[c] = <<>> THEN Initial ELSE Last(log[c]).to

\* The log of a card leaves out that its text was emptied, and nothing else: the
\* card has the value of the last entry, or none, and then an edit has emptied
\* it.  Each entry starts where the one before ended, unless their transactions
\* overlapped or the text had been emptied by somebody who had ended when the
\* entry's edit began.
LogIsHistory ==
  \A c \in Cards :
    /\ \/ value[c] = LastLogged(c)
       \/ value[c] \in Empty /\ \E u \in Txs : pc[u] = "done" /\ Clears(u, c)
    /\ \A i \in 2..Len(log[c]) :
         LET entry == log[c][i]
             prior == log[c][i - 1]
         IN \/ entry.from = prior.to
            \/ Overlap(entry.by, prior.by)
            \/ entry.from \in Empty /\ \E u \in before[entry.by] : Clears(u, c)
=============================================================================
