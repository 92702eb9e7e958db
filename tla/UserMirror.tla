----------------------------- MODULE UserMirror ------------------------------
(***************************************************************************)
(* The row of `users` of one person and its two writers                    *)
(* (core/src/user-mirror.ts): the identity events of the auth-callout,     *)
(* which a replica handles one after the other, and the commands that come *)
(* with an envelope.  Each reads the row and then creates it or updates    *)
(* it, in a transaction of its own.                                        *)
(*                                                                         *)
(* The identity provider knows the person under successive versions.  An   *)
(* event goes to any replica, and carries the roles of the token the       *)
(* person connected with and the profile that the auth-callout has cached, *)
(* each of a version that may be older than the current one and than those *)
(* of an earlier event.  A command carries what a token that has not       *)
(* expired says, and is bare if the token has no claims of the profile.    *)
(*                                                                         *)
(* update() writes the columns that differ from what was read, and nothing *)
(* at all if none does.  What a transaction writes nobody sees before its  *)
(* commit, and who writes the row or its key waits for that: a transaction *)
(* is two steps, the read and all the rest.                                *)
(*                                                                         *)
(* Abstractions.  `name` stands for the three columns of the profile and   *)
(* `roles` for the two of the authorization.  Events that are discarded    *)
(* before the transaction opens change nothing and are left out.           *)
(***************************************************************************)
EXTENDS Integers, Sequences
LOCAL INSTANCE Functions

CONSTANTS
  Replicas,   \* of core
  Cmds,       \* handlers of commands
  Identity,   \* name and roles of each version
  Versions,   \* how many there are
  Bare,       \* whether a token may be bare
  Fallback,   \* `email ?? id`, when it is not the name
  MaxInbox,   \* events that wait, over all the replicas
  MaxFaults,  \* errors and crashes
  None        \* nothing

ASSUME MirrorAssumption ==
  /\ Replicas \intersect Cmds = {}
  /\ Versions \in Nat \ {0} /\ DOMAIN Identity = 1..Versions
  /\ \A v \in 1..Versions :
       /\ Identity[v] = [name |-> Identity[v].name, roles |-> Identity[v].roles]
       /\ Identity[v].name # Fallback
  /\ Bare \subseteq BOOLEAN
  /\ MaxInbox \in Nat /\ MaxFaults \in Nat

VARIABLES
  current,  \* the version the identity provider knows
  oldest,   \* the oldest a token or the cache of profiles may still have
  inbox,    \* events of each replica
  row,      \* the row of the person, or None
  pc,       \* of each writer
  msg,      \* what it carries, and whether it is bare
  read,     \* the row it read
  faults

mirrorVars == <<current, oldest, inbox, row, pc, msg, read, faults>>

Writers == Replicas \union Cmds
Names   == {Identity[v].name : v \in 1..Versions} \union {Fallback}
Roles   == {Identity[v].roles : v \in 1..Versions}
Row     == [name : Names, roles : Roles]
Message == [roles : 1..Versions, profile : 1..Versions, bare : BOOLEAN]
Event   == {m \in Message : ~ m.bare}
Token   == {m \in Message : m.roles = m.profile /\ m.bare \in Bare}

ASSUME NoneAssumption == None \notin Row \union Message \union Writers

Init ==
  /\ current = 1 /\ oldest = 1
  /\ inbox = [r \in Replicas |-> <<>>]
  /\ row = None
  /\ pc = [w \in Writers |-> "idle"]
  /\ msg = [w \in Writers |-> None] /\ read = [w \in Writers |-> None]
  /\ faults = 0

-----------------------------------------------------------------------------
(* The identity provider and the bus.                                      *)

ChangeIdentity ==
  /\ current < Versions
  /\ current' = current + 1
  /\ UNCHANGED <<oldest, inbox, row, pc, msg, read, faults>>

\* The tokens of a version that is not current expire, and so does what was
\* cached of it.
Expire ==
  /\ oldest < current
  /\ oldest' = oldest + 1
  /\ UNCHANGED <<current, inbox, row, pc, msg, read, faults>>

\* What still may be sent of somebody.
Valid(m) == m.roles \in oldest..current /\ m.profile \in oldest..current

\* The events that wait for a replica.
Backlog == FoldFunction(LAMBDA events, n : Len(events) + n, 0, inbox)

\* The person connects to the bus with a token, and the queue group chooses a
\* replica.
Authenticate(r, e) ==
  /\ Valid(e)
  /\ Backlog < MaxInbox
  /\ inbox' = [inbox EXCEPT ![r] = Append(@, e)]
  /\ UNCHANGED <<current, oldest, row, pc, msg, read, faults>>

-----------------------------------------------------------------------------
Busy(w) == pc[w] = "read"

\* consumeEvents() takes the next message, and the handler reads the row.
BeginEvent(r) ==
  /\ pc[r] = "idle" /\ inbox[r] # <<>>
  /\ inbox' = [inbox EXCEPT ![r] = Tail(@)]
  /\ msg' = [msg EXCEPT ![r] = Head(inbox[r])]
  /\ read' = [read EXCEPT ![r] = row]
  /\ pc' = [pc EXCEPT ![r] = "read"]
  /\ UNCHANGED <<current, oldest, row, faults>>

\* mirrorActor() of a command.
BeginMirror(c, m) ==
  /\ pc[c] = "idle"
  /\ Valid(m)
  /\ msg' = [msg EXCEPT ![c] = m]
  /\ read' = [read EXCEPT ![c] = row]
  /\ pc' = [pc EXCEPT ![c] = "read"]
  /\ UNCHANGED <<current, oldest, inbox, row, faults>>

\* The identity a message brings.
Brought(m) == [name |-> Identity[m.profile].name, roles |-> Identity[m.roles].roles]

\* A bare message has something else for a name.
FieldsForCreate(w) ==
  [Brought(msg[w]) EXCEPT !.name = IF msg[w].bare THEN Fallback ELSE @]

\* Fault: the roles are not written again.
ProfileOnly(w) ==
  [f \in {"name"} |-> IF msg[w].bare THEN row.name ELSE Brought(msg[w]).name]
\* Fault: the name of a creation is written again.
NameAgain(w) == FieldsForCreate(w)
\* A bare message leaves the profile alone.
FieldsForUpdate(w) ==
  [f \in IF msg[w].bare THEN {"roles"} ELSE {"name", "roles"} |-> Brought(msg[w])[f]]

\* The columns an UPDATE writes.
Changes(w) == {f \in DOMAIN FieldsForUpdate(w) : FieldsForUpdate(w)[f] # read[w][f]}

\* A handler of events goes on with the next one; a command goes on by itself.
After(w, outcome) ==
  /\ pc' = [pc EXCEPT ![w] = IF w \in Replicas THEN "idle" ELSE outcome]
  /\ msg' = [msg EXCEPT ![w] = IF w \in Replicas THEN None ELSE @]
  /\ read' = [read EXCEPT ![w] = None]

\* Fault: the transaction of a creation is not committed.
NotCommitted(w) == row
\* What a creation leaves behind.
Created(w) == FieldsForCreate(w)

Create(w) ==
  /\ pc[w] = "read" /\ read[w] = None /\ row = None
  /\ row' = Created(w)
  /\ After(w, "mirrored")
  /\ UNCHANGED <<current, oldest, inbox, faults>>

\* The key is there since the read: the transaction is rolled back.
Collide(w) ==
  /\ pc[w] = "read" /\ read[w] = None /\ row # None
  /\ After(w, "collided")
  /\ UNCHANGED <<current, oldest, inbox, row, faults>>

Update(w) ==
  /\ pc[w] = "read" /\ read[w] # None
  /\ row' = [f \in {"name", "roles"} |->
                IF f \in Changes(w) THEN FieldsForUpdate(w)[f] ELSE row[f]]
  /\ After(w, "mirrored")
  /\ UNCHANGED <<current, oldest, inbox, faults>>

\* Any other error: a command goes on without its mirror, an event is lost.
Fail(w) ==
  /\ Busy(w) /\ faults < MaxFaults
  /\ faults' = faults + 1
  /\ After(w, "failed")
  /\ UNCHANGED <<current, oldest, inbox, row>>

\* The process of a replica dies with the events it had.
Crash(r) ==
  /\ faults < MaxFaults
  /\ faults' = faults + 1
  /\ inbox' = [inbox EXCEPT ![r] = <<>>]
  /\ After(r, "failed")
  /\ UNCHANGED <<current, oldest, row>>

Proceed(w) == Create(w) \/ Collide(w) \/ Update(w)

MirrorStep ==
  \/ ChangeIdentity \/ Expire
  \/ \E r \in Replicas :
       BeginEvent(r) \/ Crash(r) \/ \E e \in Event : Authenticate(r, e)
  \/ \E w \in Writers : Proceed(w) \/ Fail(w)

\* The handler of a command has ended.
Forget(c) ==
  /\ pc' = [pc EXCEPT ![c] = "idle"] /\ msg' = [msg EXCEPT ![c] = None]
  /\ UNCHANGED <<current, oldest, inbox, row, read, faults>>

Ended(c) == pc[c] \in {"mirrored", "collided", "failed"}

Next ==
  \/ MirrorStep
  \/ \E c \in Cmds : \/ \E m \in Token : BeginMirror(c, m)
                     \/ Ended(c) /\ Forget(c)

Spec == Init /\ [][Next]_mirrorVars

\* The person keeps coming back to the bus, what is stale expires, and some
\* replica goes on: the database answers or fails.  Faults are bounded, and so are
\* the changes of the identity; nobody has to send commands.
FairSpec ==
  /\ Spec
  /\ WF_mirrorVars(Expire)
  /\ WF_mirrorVars(\E r \in Replicas : \E e \in Event : Authenticate(r, e))
  /\ WF_mirrorVars(\E r \in Replicas : BeginEvent(r))
  /\ WF_mirrorVars(\E r \in Replicas : Proceed(r))

-----------------------------------------------------------------------------
\* The type of every variable.
TypeOK ==
  /\ current \in 1..Versions /\ oldest \in 1..current
  /\ inbox \in [Replicas -> Seq(Event)]
  /\ row \in Row \union {None}
  /\ pc \in [Writers -> {"idle", "read", "mirrored", "collided", "failed"}]
  /\ msg \in [Writers -> Message \union {None}]
  /\ read \in [Writers -> Row \union {None}]
  /\ faults \in 0..MaxFaults

\* "un campo de perfil que falta [...] al ACTUALIZAR simplemente no se toca":
\* whoever writes the row, and whatever overlaps, a name that is known is never
\* replaced by the fallback.
KnownNameStays ==
  [][row # None /\ row.name # Fallback => row' # None /\ row'.name # Fallback]_mirrorVars

\* What a command writes refers to its author: the row is there if the mirror has
\* succeeded, and also if it has failed because somebody else was first.
AuthorExists == \A w \in Writers : pc[w] \in {"mirrored", "collided"} => row # None

\* "reemplazo total": after an event the row is the identity it brought, unless
\* somebody has written between its read and its commit.
EventsReplaceAll ==
  [][\A r \in Replicas : Create(r) \/ Update(r) =>
       row' = Brought(msg[r]) \/ row # read[r]]_mirrorVars

\* What makes this inductive: a row once read is still there; who is at work has
\* a message, and that of an event is not bare.
MirrorInv ==
  /\ AuthorExists
  /\ \A w \in Writers : /\ read[w] # None => row # None
                        /\ Busy(w) => msg[w] # None
  /\ \A r \in Replicas : msg[r] # None => msg[r] \in Event

\* Nothing orders the events of a person: even in one replica a later one may
\* carry older roles, and the row goes back to them.  But once the identity stays
\* as it is, the row becomes that identity for good: whatever was lost, stale, or
\* mixed by two writers that overlapped, is mended.
RowConverges == <>[](row = Identity[current])
=============================================================================
