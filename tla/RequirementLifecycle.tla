------------------------ MODULE RequirementLifecycle ------------------------
(***************************************************************************)
(* The workflow of one requirement: what requirements.{id}.edit and        *)
(* requirements.{id}.resolve make of its state, its type, its resolution   *)
(* and its time stamps, what they write to its history, and which mails    *)
(* they queue (core/src/commands/requirements, and the BeforeUpdate hook   *)
(* of packages/models/src/requirement.model.ts).                           *)
(*                                                                         *)
(* Each command runs in a transaction of its own: it reads the row without *)
(* a lock, decides and updates an instance in memory, and writes the       *)
(* columns that changed with respect to what it read.  Its UPDATE locks    *)
(* the row until the COMMIT, other transactions read the old row until     *)
(* then, and what it writes depends on its own read alone: so a            *)
(* transaction is two steps here, the read, and all the rest.              *)
(*                                                                         *)
(* Abstractions.  scheduledAt stands for the three write-once stamps; a    *)
(* stamp is the number of the transaction that set it, 0 for null.  The    *)
(* comment of a resolution is treated as its conclusion is.  Title,        *)
(* description, responsibles, files and who receives a mail do not depend  *)
(* on this state and are left out.                                         *)
(***************************************************************************)
EXTENDS Integers, Sequences, FiniteSets

CONSTANTS
  Writers, \* the transactions
  States,  \* the states of the enum the model distinguishes
  Types,   \* the types of the enum the model distinguishes
  Texts,   \* the texts a resolution may have, null among them
  Absent,  \* a key the payload does not have
  Null

ASSUME WritersAssumption == IsFiniteSet(Writers)
ASSUME StatesAssumption ==
  {"analisis", "planificacion", "resuelto", "cancelado"} \subseteq States
ASSUME TypesAssumption == "incidencia" \in Types
ASSUME TextsAssumption == Null \in Texts
ASSUME AbsentAssumption == Absent \notin States \union Types \union Texts

VARIABLES
  row,       \* the committed row of the requirement
  stage,     \* where each transaction stands
  read,      \* the row as each transaction has read it
  log,       \* committed rows of requirement_activity about the state
  declared,  \* notifications declared by committed transactions, by type
  reply      \* what each transaction has answered

workflowVars == <<row, stage, read, log, declared, reply>>

Row == [type : Types \union {Null}, state : States, resolutionType : Texts,
        resolutionConclusion : Texts, scheduledAt : Nat, finishedAt : Nat]

Entry == [from : States, to : States, at : Nat]

EditPayload == [type : Types \union {Null, Absent},
                state : States \union {Absent},
                resolutionType : (Texts \union {Absent}) \ {""},
                resolutionConclusion : Texts \union {Absent}]
ResolvePayload == [type : Texts \ {Null, ""},
                   conclusion : Texts \union {Absent}]

\* A requirement as requirements.new creates it: any state, no hook, no
\* resolution.
WorkflowInit ==
  /\ row \in [type : Types \union {Null}, state : States, resolutionType : {Null},
              resolutionConclusion : {Null}, scheduledAt : {0},
              finishedAt : {0}]
  /\ stage = [t \in Writers |-> "idle"]
  /\ read = [t \in Writers |-> row]
  /\ log = <<>>
  /\ declared = [resolved |-> 0, reopened |-> 0]
  /\ reply = [t \in Writers |-> "none"]

-----------------------------------------------------------------------------
(* From a payload to an instance.                                          *)

Falsy(v) == v \in {Null, ""}

\* payload ?? stored
Coalesce(v, stored) == IF v \in {Absent, Null} THEN stored ELSE v
\* pickPresent(): a key that is present wins, even when it is null.
Pick(v, stored) == IF v = Absent THEN stored ELSE v

\* The number of the step that is being taken: time goes by.
Now == 1 + Cardinality({t \in Writers : stage[t] = "done"})

\* Fault: finishedAt is write-once as well, as it was before REQ-012.
FinishedOnce(new) == IF new.finishedAt = 0 THEN Now ELSE new.finishedAt
FinishedAt(new) == Now

ScheduledAt(new) == IF new.scheduledAt = 0 THEN Now ELSE new.scheduledAt

\* logFieldActivityAndSetTimestamps(): the hook, on a change of state.
Stamped(old, new) ==
  IF new.state = old.state THEN new
  ELSE CASE new.state = "planificacion" ->
              [new EXCEPT !.scheduledAt = ScheduledAt(new)]
         [] new.state = "resuelto" ->
              [new EXCEPT !.finishedAt = FinishedAt(new)]
         [] OTHER -> new

\* The entry the hook leaves for the history.
Logged(old, new) ==
  IF new.state = old.state THEN <<>>
  ELSE <<[from |-> old.state, to |-> new.state, at |-> Now]>>

\* Fault: the UPDATE has every column of the instance.
SavedWhole(old, new) == new
\* save(): the UPDATE has the columns in which the instance differs from what
\* was read, and leaves the others of the row alone.
Saved(old, new) ==
  [f \in DOMAIN row |-> IF new[f] # old[f] THEN new[f] ELSE row[f]]

\* Fault: resolving a resolved requirement is announced again.
EntersAlways(old, new) == new.state = "resuelto"
Enters(old, new) == new.state = "resuelto" /\ old.state # "resuelto"

LeavesResolved(old, state) ==
  old.state = "resuelto" /\ state \notin {Absent, "resuelto", "cancelado"}

\* Fault: a reopened requirement keeps its resolution.
KeptByReopening(v, stored) == Pick(v, stored)
\* Reopening clears a field unless the payload says otherwise.
ClearedByReopening(v, stored) == Coalesce(v, Null)

\* The mails declared in the branches of the events.
Queued(old, new) ==
  [resolved |-> declared.resolved + (IF Enters(old, new) THEN 1 ELSE 0),
   reopened |-> declared.reopened
                  + (IF LeavesResolved(old, new.state) THEN 1 ELSE 0)]

\* UPDATE, history, mails and COMMIT.
Write(t, new) ==
  /\ row' = Saved(read[t], new)
  /\ log' = log \o Logged(read[t], new)
  /\ declared' = Queued(read[t], new)

-----------------------------------------------------------------------------
(* The transactions.                                                       *)

\* Requirement.findByPk(), without a lock.
ReadRow(t) ==
  /\ stage[t] = "idle"
  /\ stage' = [stage EXCEPT ![t] = "read"]
  /\ read' = [read EXCEPT ![t] = row]
  /\ UNCHANGED <<row, log, declared, reply>>

Finish(t, a) ==
  /\ stage[t] = "read"
  /\ stage' = [stage EXCEPT ![t] = "done"]
  /\ reply' = [reply EXCEPT ![t] = a]
  /\ UNCHANGED read

\* The rule about incidents, on the stored type and on the payload or, where
\* that has nothing or null, the stored resolution.
EditNeedsResolution(old, p) ==
  /\ p.state = "resuelto" /\ old.state # "resuelto"
  /\ old.type = "incidencia"
  /\ \/ Falsy(Coalesce(p.resolutionType, old.resolutionType))
     \/ Falsy(Coalesce(p.resolutionConclusion, old.resolutionConclusion))

Edited(old, p) ==
  LET Resolution(v, stored) ==
        IF LeavesResolved(old, p.state)
          THEN ClearedByReopening(v, stored) ELSE Pick(v, stored)
  IN  [old EXCEPT
         !.type = Pick(p.type, @),
         !.state = Pick(p.state, @),
         !.resolutionType = Resolution(p.resolutionType, @),
         !.resolutionConclusion = Resolution(p.resolutionConclusion, @)]

EditRow(t, p) ==
  \/ /\ EditNeedsResolution(read[t], p)
     /\ Finish(t, "refused")
     /\ UNCHANGED <<row, log, declared>>
  \/ /\ ~ EditNeedsResolution(read[t], p)
     /\ Finish(t, "edited")
     /\ Write(t, Stamped(read[t], Edited(read[t], p)))

ResolveNeedsResolution(old, p) ==
  /\ old.type = "incidencia"
  /\ Falsy(Coalesce(p.conclusion, old.resolutionConclusion))

Resolved(old, p) ==
  [old EXCEPT !.state = "resuelto",
              !.resolutionType = p.type,
              !.resolutionConclusion = Coalesce(p.conclusion, @)]

Resolve(t, p) ==
  \/ /\ ResolveNeedsResolution(read[t], p)
     /\ Finish(t, "refused")
     /\ UNCHANGED <<row, log, declared>>
  \/ /\ ~ ResolveNeedsResolution(read[t], p)
     /\ Finish(t, "resolved")
     /\ Write(t, Stamped(read[t], Resolved(read[t], p)))

\* Anything else fails, or the process dies: the transaction is rolled back.
RollBack(t) ==
  /\ Finish(t, "failed")
  /\ UNCHANGED <<row, log, declared>>

WorkflowNext ==
  \E t \in Writers :
    \/ ReadRow(t) \/ RollBack(t)
    \/ /\ stage[t] = "read"
       /\ \/ \E p \in EditPayload : EditRow(t, p)
          \/ \E p \in ResolvePayload : Resolve(t, p)

WorkflowSpec == WorkflowInit /\ [][WorkflowNext]_workflowVars

-----------------------------------------------------------------------------
(* Properties that hold however the transactions interleave.               *)

\* The type of every variable.
WorkflowTypeOK ==
  /\ row \in Row
  /\ stage \in [Writers -> {"idle", "read", "done"}]
  /\ read \in [Writers -> Row]
  /\ log \in Seq(Entry)
  /\ declared \in [resolved : Nat, reopened : Nat]
  /\ reply \in [Writers -> {"none", "refused", "failed", "edited", "resolved"}]

\* The history ends in the state the requirement has, however stale what the
\* transactions had read: a state and its entry are committed together, and an
\* UPDATE that is not about the state leaves it alone.
HistoryEndsInState == log # <<>> => log[Len(log)].to = row.state

\* The entries of the history into a state, and those that reopen.
Into(state) == {i \in DOMAIN log : log[i].to = state}
Reopenings == {i \in DOMAIN log : log[i].from = "resuelto"
                                    /\ log[i].to # "cancelado"}

\* One mail of resolution for every entry of the history into `resuelto`, one
\* of reopening for every entry that leaves it for a state that is not
\* terminal ("la declaracion va en la misma rama que el evento").
MailsMatchHistory ==
  /\ declared.resolved = Cardinality(Into("resuelto"))
  /\ declared.reopened = Cardinality(Reopenings)

\* The stamps of the row are dates of the history: finishedAt that of the last
\* resolution, scheduledAt that of some entry into `planificacion`, and null
\* only when there is none.
StampsMatchHistory ==
  /\ IF Into("resuelto") = {} THEN row.finishedAt = 0
     ELSE \E i \in Into("resuelto") : /\ row.finishedAt = log[i].at
                                      /\ \A j \in Into("resuelto") : j <= i
  /\ IF Into("planificacion") = {} THEN row.scheduledAt = 0
     ELSE \E i \in Into("planificacion") : row.scheduledAt = log[i].at

\* Transaction t writes now, and nobody has written since it read.
WritesFresh(t) == stage[t] = "read" /\ stage'[t] = "done" /\ read[t] = row

\* The step takes a resolved requirement back into work.
Reopens == row.state = "resuelto" /\ row'.state \notin {"resuelto", "cancelado"}

\* What a transaction that nobody overtook keeps: the first date of entry; and
\* when it reopens, the date of the resolution and nothing else of it but what
\* its own payload says, so that no resolution stays half behind, and it is
\* announced.
FreshWritesKeepTheRules ==
  \A t \in Writers : WritesFresh(t) =>
    /\ row.scheduledAt # 0 => row'.scheduledAt = row.scheduledAt
    /\ Reopens =>
         /\ row'.finishedAt = row.finishedAt
         /\ declared'.reopened = declared.reopened + 1
         /\ \A p \in EditPayload : p.state = row'.state /\ EditRow(t, p) =>
              /\ row'.resolutionType \in {Null, p.resolutionType}
              /\ row'.resolutionConclusion \in {Null, p.resolutionConclusion}

SequentialRules == [][FreshWritesKeepTheRules]_workflowVars

-----------------------------------------------------------------------------
(* What the documents say and the code does not keep.                      *)

\* "Resolver un requisito: lo pasa a `resuelto` y guarda el motivo"
\* (requirements-resolve.ts): after a success the requirement is resolved.
ResolveResolves ==
  [][ \A t \in Writers : reply[t] = "none" /\ reply'[t] = "resolved"
        => row'.state = "resuelto" ]_workflowVars
=============================================================================
