---------------------------- MODULE AccessProofs -----------------------------
(* Proofs about UserMirror and CommandAccess.                              *)
EXTENDS CommandAccess, SequenceTheorems, TLAPS

USE MirrorAssumption, NoneAssumption, RequestsAssumption

-----------------------------------------------------------------------------
(* The row of a person.                                                    *)

\* What a message brings.
LEMMA BroughtType ==
  ASSUME NEW m \in Message
  PROVE  /\ Brought(m) \in Row /\ Brought(m).name # Fallback
         /\ Brought(m).name \in Names /\ Brought(m).roles \in Roles
<1>1. m.roles \in 1..Versions /\ m.profile \in 1..Versions BY DEF Message
<1>2. Identity[m.profile].name \in Names /\ Identity[m.roles].roles \in Roles
  BY <1>1 DEF Names, Roles
<1> QED BY <1>1, <1>2 DEF Brought, Row

\* What a writer carries and reads has its type, and so has what it writes.
LEMMA WrittenType ==
  ASSUME TypeOK, NEW w \in Writers, Busy(w), msg[w] # None
  PROVE  /\ msg[w] \in Message
         /\ Created(w) \in Row /\ Created(w) # None
         /\ Create(w) => row' \in Row /\ row' # None
         /\ Update(w) => row' \in Row \/ row = None
<1>1. msg[w] \in Message BY DEF TypeOK
<1>2. Brought(msg[w]) \in Row /\ Brought(msg[w]).name \in Names /\ Brought(msg[w]).roles \in Roles
  BY <1>1, BroughtType
<1>4. Created(w) \in Row
  BY <1>2 DEF Created, FieldsForCreate, Row, Names
<1>5. Update(w) => row' \in Row \/ row = None
  <2> SUFFICES ASSUME Update(w), row # None PROVE row' \in Row OBVIOUS
  <2>1. row \in Row BY DEF TypeOK
  <2>2. row.name \in Names /\ row.roles \in Roles BY <2>1 DEF Row
  <2>3. /\ "name" \in Changes(w) => FieldsForUpdate(w)["name"] = Brought(msg[w])["name"]
        /\ "roles" \in Changes(w) => FieldsForUpdate(w)["roles"] = Brought(msg[w])["roles"]
    BY DEF Changes, FieldsForUpdate
  <2>4. row' = [f \in {"name", "roles"} |->
                  IF f \in Changes(w) THEN FieldsForUpdate(w)[f] ELSE row[f]]
    BY DEF Update
  <2>5. row'["name"] \in Names /\ row'["roles"] \in Roles
    BY <1>2, <2>2, <2>3, <2>4
  <2> QED BY <2>4, <2>5 DEF Row
<1> QED BY <1>1, <1>4, <1>5 DEF Create

\* A transaction of the mirror that ends.
LEMMA AfterType ==
  ASSUME TypeOK, NEW w \in Writers, NEW o \in {"mirrored", "collided", "failed"},
         After(w, o)
  PROVE  /\ pc' \in [Writers -> {"idle", "read", "mirrored", "collided", "failed"}]
         /\ msg' \in [Writers -> Message \union {None}]
         /\ read' \in [Writers -> Row \union {None}]
BY DEF TypeOK, After

MirrorBegins == \E c \in Cmds : \E m \in Token : BeginMirror(c, m)
Forgets      == \E c \in Cmds : Forget(c)

LEMMA MirrorKeepsTypes ==
  ASSUME TypeOK, MirrorInv, MirrorStep \/ MirrorBegins \/ Forgets
  PROVE  TypeOK'
<1>1. CASE ChangeIdentity BY <1>1 DEF ChangeIdentity, TypeOK
<1>2. CASE Expire BY <1>2 DEF Expire, TypeOK
<1>3. ASSUME NEW r \in Replicas, NEW e \in Event, Authenticate(r, e) PROVE TypeOK'
  BY <1>3 DEF Authenticate, TypeOK
<1>4. ASSUME NEW r \in Replicas, BeginEvent(r) PROVE TypeOK'
  <2>1. inbox[r] \in Seq(Event) /\ inbox[r] # <<>> BY <1>4 DEF TypeOK, BeginEvent
  <2>2. Head(inbox[r]) \in Event /\ Tail(inbox[r]) \in Seq(Event)
    BY <2>1, HeadTailProperties
  <2>3. Head(inbox[r]) \in Message BY <2>2 DEF Event
  <2> QED BY <1>4, <2>2, <2>3 DEF BeginEvent, TypeOK, Writers
<1>5. ASSUME NEW r \in Replicas, Crash(r) PROVE TypeOK'
  <2>1. r \in Writers BY DEF Writers
  <2> QED BY <1>5, <2>1, AfterType DEF Crash, TypeOK
<1>6. ASSUME NEW w \in Writers, Fail(w) PROVE TypeOK'
  BY <1>6, AfterType DEF Fail, TypeOK
<1>7. ASSUME NEW w \in Writers, Proceed(w) PROVE TypeOK'
  <2>1. Busy(w) /\ msg[w] # None
    BY <1>7 DEF Proceed, Create, Collide, Update, Busy, MirrorInv
  <2>3. CASE Create(w) BY <2>1, <2>3, WrittenType, AfterType DEF Create, TypeOK
  <2>4. CASE Collide(w) BY <2>4, AfterType DEF Collide, TypeOK
  <2>5. CASE Update(w)
    <3>1. row' \in Row BY <2>1, <2>5, WrittenType DEF Update, MirrorInv
    <3> QED BY <2>5, <3>1, AfterType DEF Update, TypeOK
  <2> QED BY <1>7, <2>3, <2>4, <2>5 DEF Proceed
<1>8. ASSUME NEW c \in Cmds, NEW m \in Token, BeginMirror(c, m) PROVE TypeOK'
  <2>1. m \in Message BY DEF Token, Message
  <2> QED BY <1>8, <2>1 DEF BeginMirror, TypeOK, Writers
<1>9. ASSUME NEW c \in Cmds, Forget(c) PROVE TypeOK'
  BY <1>9 DEF Forget, TypeOK, Writers
<1> QED BY <1>1, <1>2, <1>3, <1>4, <1>5, <1>6, <1>7, <1>8, <1>9
        DEF MirrorStep, MirrorBegins, Forgets

\* The part of MirrorInv that is about one writer.
Remembers(w) ==
  /\ pc[w] \in {"mirrored", "collided"} => row # None
  /\ read[w] # None => row # None
  /\ Busy(w) => msg[w] # None
  /\ w \in Replicas /\ msg[w] # None => msg[w] \in Event

LEMMA MirrorInvParts == MirrorInv <=> \A w \in Writers : Remembers(w)
BY DEF MirrorInv, AuthorExists, Remembers, Writers

\* A row that is there stays there.
LEMMA RowStays ==
  ASSUME TypeOK, MirrorInv, row # None,
         \/ MirrorStep \/ MirrorBegins \/ Forgets \/ UNCHANGED mirrorVars
  PROVE  row' # None
<1>1. ASSUME NEW w \in Writers, Proceed(w) PROVE row' # None
  <2>1. Busy(w) /\ msg[w] # None
    BY <1>1 DEF Proceed, Create, Collide, Update, Busy, MirrorInv
  <2> QED BY <1>1, <2>1, WrittenType DEF Proceed, Collide
<1> QED BY <1>1 DEF MirrorStep, ChangeIdentity, Expire, Authenticate, BeginEvent, Crash, Fail,
        MirrorBegins, BeginMirror, Forgets, Forget, mirrorVars

LEMMA RemembersStep ==
  ASSUME TypeOK, MirrorInv, MirrorStep \/ MirrorBegins \/ Forgets, NEW w \in Writers
  PROVE  Remembers(w)'
<1> USE DEF Remembers, Busy
<1>0. Remembers(w) /\ (row # None => row' # None)
  BY RowStays, MirrorInvParts
<1>1. CASE pc'[w] = pc[w] /\ msg'[w] = msg[w] /\ read'[w] = read[w]
  BY <1>0, <1>1
<1>2. ASSUME NEW r \in Replicas, BeginEvent(r) PROVE Remembers(w)'
  <2>1. inbox[r] \in Seq(Event) /\ inbox[r] # <<>> BY <1>2 DEF TypeOK, BeginEvent
  <2>2. Head(inbox[r]) \in Event /\ Head(inbox[r]) \in Message
    BY <2>1, HeadTailProperties DEF Event
  <2>3. CASE w = r BY <1>2, <2>2, <2>3 DEF BeginEvent, TypeOK
  <2>4. CASE w # r BY <1>0, <1>2, <2>4 DEF BeginEvent, TypeOK
  <2> QED BY <2>3, <2>4
<1>3. ASSUME NEW u \in Writers, NEW o \in {"mirrored", "collided", "failed"}, After(u, o),
             o # "failed" => row' # None
      PROVE  Remembers(w)'
  <2>1. CASE w = u BY <1>0, <1>3, <2>1 DEF After, TypeOK
  <2>2. CASE w # u BY <1>0, <1>3, <2>2 DEF After, TypeOK
  <2> QED BY <2>1, <2>2
<1>4. ASSUME NEW u \in Writers, Proceed(u) PROVE Remembers(w)'
  <2>1. Busy(u) /\ msg[u] # None
    BY <1>4 DEF Proceed, Create, Collide, Update, MirrorInv
  <2>2. row' # None
    BY <1>4, <2>1, WrittenType DEF Proceed, Create, Collide, Update, MirrorInv
  <2> QED BY <1>3, <1>4, <2>2 DEF Proceed, Create, Collide, Update
<1>5. ASSUME NEW c \in Cmds, NEW m \in Token, BeginMirror(c, m) PROVE Remembers(w)'
  <2>1. m # None /\ c \notin Replicas BY DEF Token
  <2>2. CASE w = c BY <1>5, <2>1, <2>2 DEF BeginMirror, TypeOK
  <2>3. CASE w # c BY <1>0, <1>5, <2>3 DEF BeginMirror, TypeOK
  <2> QED BY <2>2, <2>3
<1>6. ASSUME NEW c \in Cmds, Forget(c) PROVE Remembers(w)'
  <2>1. CASE w = c BY <1>0, <1>6, <2>1 DEF Forget, TypeOK
  <2>2. CASE w # c BY <1>0, <1>6, <2>2 DEF Forget, TypeOK
  <2> QED BY <2>1, <2>2
<1>7. ASSUME NEW u \in Writers, Fail(u) PROVE Remembers(w)'
  BY <1>3, <1>7 DEF Fail
<1>8. ASSUME NEW r \in Replicas, Crash(r) PROVE Remembers(w)'
  BY <1>3, <1>8 DEF Crash, Writers
<1> QED BY <1>1, <1>2, <1>4, <1>5, <1>6, <1>7, <1>8
        DEF MirrorStep, MirrorBegins, Forgets, ChangeIdentity, Expire, Authenticate

LEMMA MirrorInvStep ==
  ASSUME TypeOK, MirrorInv, MirrorStep \/ MirrorBegins \/ Forgets
  PROVE  TypeOK' /\ MirrorInv'
<1>1. TypeOK' BY MirrorKeepsTypes
<1>2. \A w \in Writers : Remembers(w)' BY RemembersStep
<1> QED BY <1>1, <1>2 DEF MirrorInv, AuthorExists, Remembers, Writers

LEMMA MirrorInvInit == Init => TypeOK /\ MirrorInv
<1> SUFFICES ASSUME Init PROVE TypeOK /\ MirrorInv OBVIOUS
<1>1. TypeOK BY DEF Init, TypeOK
<1>2. MirrorInv BY DEF Init, MirrorInv, AuthorExists, Busy, Writers
<1> QED BY <1>1, <1>2

\* The inductive invariant of UserMirror, for any number of replicas, commands and
\* versions of the identity.
THEOREM MirrorInvariant == Spec => [](TypeOK /\ MirrorInv)
<1>1. TypeOK /\ MirrorInv /\ [Next]_mirrorVars => TypeOK' /\ MirrorInv'
  <2> SUFFICES ASSUME TypeOK, MirrorInv, [Next]_mirrorVars PROVE TypeOK' /\ MirrorInv'
    OBVIOUS
  <2>1. CASE Next
    <3>1. MirrorStep \/ MirrorBegins \/ Forgets BY <2>1 DEF Next, MirrorBegins, Forgets
    <3> QED BY <3>1, MirrorInvStep
  <2>2. CASE UNCHANGED mirrorVars
    BY <2>2 DEF mirrorVars, TypeOK, MirrorInv, AuthorExists, Busy
  <2> QED BY <2>1, <2>2
<1> QED BY <1>1, MirrorInvInit, PTL DEF Spec

\* The type of every variable of UserMirror.
THEOREM MirrorTypes == Spec => []TypeOK
BY MirrorInvariant, PTL

\* The row of whoever a command writes for is there, also after a collision.
THEOREM AuthorIsThere == Spec => []AuthorExists
<1>1. MirrorInv => AuthorExists BY DEF MirrorInv
<1> QED BY <1>1, MirrorInvariant, PTL

\* What one step of a writer does to the row.
LEMMA WriteStep ==
  ASSUME TypeOK, MirrorInv, NEW w \in Writers, Proceed(w), row # None
  PROVE  /\ row' # None
         /\ row.name # Fallback => row'.name # Fallback
<1>1. Busy(w) /\ msg[w] # None
  BY DEF Proceed, Create, Collide, Update, Busy, MirrorInv
<1>2. row' # None BY <1>1, WrittenType DEF Proceed, Create, Collide, MirrorInv
<1>3. CASE row' = row BY <1>2, <1>3
<1>4. CASE Update(w)
  <2>1. row'["name"] = IF "name" \in Changes(w) THEN FieldsForUpdate(w)["name"] ELSE row.name
    BY <1>4 DEF Update
  <2>2. "name" \in Changes(w) => FieldsForUpdate(w)["name"] = Brought(msg[w]).name
    BY DEF Changes, FieldsForUpdate
  <2>3. Brought(msg[w]).name # Fallback BY <1>1, WrittenType, BroughtType
  <2> QED BY <1>2, <2>1, <2>2, <2>3
<1> QED BY <1>3, <1>4 DEF Proceed, Create, Collide

\* A name that is known is never replaced by the fallback.
THEOREM NameStays == Spec => KnownNameStays
<1>1. TypeOK /\ MirrorInv /\ [Next]_mirrorVars =>
        [row # None /\ row.name # Fallback => row' # None /\ row'.name # Fallback]_mirrorVars
  <2> SUFFICES ASSUME TypeOK, MirrorInv, Next, row # None, row.name # Fallback
               PROVE  row' # None /\ row'.name # Fallback
    OBVIOUS
  <2>1. ASSUME NEW w \in Writers, Proceed(w) PROVE row' # None /\ row'.name # Fallback
    BY <2>1, WriteStep
  <2> QED BY <2>1 DEF Next, MirrorStep, ChangeIdentity, Expire, Authenticate, BeginEvent, Crash,
          Fail, BeginMirror, Forget
<1> QED BY <1>1, MirrorInvariant, PTL DEF KnownNameStays, Spec

\* After an event the row is what it brought, if nobody wrote since it was read.
THEOREM EventsReplace == Spec => EventsReplaceAll
<1>1. TypeOK /\ MirrorInv /\ [Next]_mirrorVars =>
        [\A r \in Replicas : Create(r) \/ Update(r) =>
           row' = Brought(msg[r]) \/ row # read[r]]_mirrorVars
  <2> SUFFICES ASSUME TypeOK, MirrorInv, Next, NEW r \in Replicas, Create(r) \/ Update(r),
                      row = read[r]
               PROVE  row' = Brought(msg[r])
    OBVIOUS
  <2>1. msg[r] # None /\ Busy(r) /\ r \in Writers
    BY DEF Create, Update, Busy, MirrorInv, Writers
  <2>2. msg[r].bare = FALSE /\ Brought(msg[r]) \in Row
    BY <2>1, BroughtType DEF MirrorInv, Event, Message
  <2>3. Brought(msg[r]) = [name |-> Brought(msg[r]).name, roles |-> Brought(msg[r]).roles]
    BY DEF Brought
  <2>4. CASE Create(r) BY <2>2, <2>3, <2>4 DEF Create, Created, FieldsForCreate
  <2>5. CASE Update(r)
    <3>1. row \in Row BY <2>5 DEF Update, TypeOK
    <3>2. DOMAIN FieldsForUpdate(r) = {"name", "roles"} BY <2>2 DEF FieldsForUpdate
    <3>3. \A f \in {"name", "roles"} : FieldsForUpdate(r)[f] = Brought(msg[r])[f]
      BY <2>2 DEF FieldsForUpdate
    <3>4. \A f \in {"name", "roles"} : row'[f] = Brought(msg[r])[f]
      BY <2>5, <3>2, <3>3 DEF Update, Changes
    <3>5. row' = [name |-> row'["name"], roles |-> row'["roles"]]
      BY <2>5 DEF Update
    <3> QED BY <2>3, <3>4, <3>5
  <2> QED BY <2>4, <2>5
<1> QED BY <1>1, MirrorInvariant, PTL DEF EventsReplaceAll, Spec

-----------------------------------------------------------------------------
(* Commands at the gate.                                                   *)

\* An entity belongs to one of the projects, or nowhere.
LEMMA ProjectOfType ==
  ASSUME NEW type, NEW i
  PROVE  ProjectOf(type, i) \in Projects \union {Nowhere}
<1>1. OfRequirement(i) \in Projects \union {Nowhere} /\ OfObjective(i) \in Projects \union {Nowhere}
  BY EntitiesAssumption DEF OfRequirement, OfObjective
<1>2. /\ OfRequirementComment(i) \in Projects \union {Nowhere}
      /\ OfObjectiveComment(i) \in Projects \union {Nowhere}
  BY EntitiesAssumption DEF OfRequirement, OfObjective, OfRequirementComment, OfObjectiveComment
<1> QED BY <1>1, <1>2 DEF ProjectOf, First

\* The projects that count for a request are projects, and with more attachments
\* there are no fewer of them.
LEMMA ProjectsForType ==
  ASSUME NEW q, NEW S
  PROVE  ProjectsFor(q, S) \subseteq Projects
<1>1. \A T : Where(T) \subseteq Projects BY ProjectOfType DEF Where
<1>2. ProjectOf(CommandEntity(q.command), q.id) \in Projects \union {Nowhere} BY ProjectOfType
<1> QED BY <1>1, <1>2 DEF ProjectsFor

LEMMA ProjectsForGrows ==
  ASSUME NEW q, NEW S, NEW T, S \subseteq T
  PROVE  ProjectsFor(q, S) \subseteq ProjectsFor(q, T)
<1>1. Where(Links(q.id, S)) \subseteq Where(Links(q.id, T)) BY DEF Where, Links
<1>2. Where(S \intersect {q.id}) \subseteq Where(T \intersect {q.id}) BY DEF Where
<1>3. CASE q.command = "files.{fileId}.request-download" 
  BY <1>1, <1>3, Zenon DEF ProjectsFor, CommandEntity
<1>4. CASE q.command = "attachments.{id}.delete" 
  BY <1>2, <1>4, Zenon DEF ProjectsFor, CommandEntity
<1>5. CASE q.command \notin {"files.{fileId}.request-download", "attachments.{id}.delete"}
  <2>1. ProjectsFor(q, S) = ProjectsFor(q, T) BY <1>5, Zenon DEF ProjectsFor
  <2> QED BY <2>1
<1> QED BY <1>3, <1>4, <1>5

\* The part of the invariant that is about one command.
Within(c) ==
  LET q == request[c] IN
  stage[c] = "granted" /\ "external-user" \in roles[c] /\ CommandEntity(q.command) # "null"
    => \/ ProjectsFor(q, had[c]) \intersect held[c] # {}
       \/ q.command = "files.{fileId}.request-download" /\ q.id \in Uploaded

Gated(c) ==
  /\ Within(c)
  /\ stage[c] # "idle" => /\ request[c] \in Requests
                         /\ permissions \subseteq held[c] /\ attached \subseteq had[c]
  /\ stage[c] = "check" => todo[c] \subseteq ProjectsFor(request[c], had[c])
  /\ stage[c] = "begun" /\ request[c].channel = "envelope" => msg[c] # None

LEMMA GateInvParts == GateInv <=> \A c \in Cmds : Gated(c)
BY DEF GateInv, ActsWithinPermission, Gated, Within

\* Nothing is forgotten of a command that stays where it is.
LEMMA GatedStays ==
  ASSUME NEW d \in Cmds, Gated(d),
         stage'[d] = stage[d], request'[d] = request[d], roles'[d] = roles[d],
         todo'[d] = todo[d], held[d] \subseteq held'[d], had[d] \subseteq had'[d],
         stage[d] # "idle" => permissions' \subseteq held'[d] /\ attached' \subseteq had'[d],
         stage[d] = "begun" => msg'[d] = msg[d] \/ msg'[d] # None
  PROVE  Gated(d)'
<1>1. ProjectsFor(request[d], had[d]) \subseteq ProjectsFor(request'[d], had'[d])
  BY ProjectsForGrows
<1>2. Within(d)'
  <2>1. CASE ~ (stage[d] = "granted" /\ "external-user" \in roles[d]
                /\ CommandEntity(request[d].command) # "null")
    BY <2>1 DEF Within
  <2>2. CASE ProjectsFor(request[d], had[d]) \intersect held[d] # {}
    BY <1>1, <2>2 DEF Within
  <2>3. CASE request[d].command = "files.{fileId}.request-download" /\ request[d].id \in Uploaded
    BY <2>3 DEF Within
  <2> QED BY <2>1, <2>2, <2>3 DEF Gated, Within
<1> QED BY <1>1, <1>2 DEF Gated

\* Every step of the composition is a step of the mirror, or none.
LEMMA MirrorSide ==
  ASSUME [AccessNext]_accessVars
  PROVE  MirrorStep \/ MirrorBegins \/ Forgets \/ UNCHANGED mirrorVars
<1>1. ASSUME NEW c \in Cmds, Gate(c) PROVE Forgets \/ UNCHANGED mirrorVars
  BY <1>1 DEF Gate, Authorize, Resolve, CheckPermission, Execute, Denied, Finish, Goes, Forgets
<1>2. ASSUME NEW c \in Cmds, NEW q \in Requests, Begin(c, q)
      PROVE  MirrorBegins \/ UNCHANGED mirrorVars
  BY <1>2 DEF Begin, MirrorBegins
<1> QED BY <1>1, <1>2 DEF AccessNext, accessVars, Permit, Revoke, Attach, Detach

AccessInv == AccessTypeOK /\ MirrorInv /\ GateInv

LEMMA MirrorSideStep ==
  ASSUME AccessInv, [AccessNext]_accessVars
  PROVE  TypeOK' /\ MirrorInv'
<1>1. CASE UNCHANGED mirrorVars
  BY <1>1 DEF mirrorVars, AccessInv, AccessTypeOK, TypeOK, MirrorInv, AuthorExists, Busy
<1>2. CASE MirrorStep \/ MirrorBegins \/ Forgets
  BY <1>2, MirrorInvStep DEF AccessInv, AccessTypeOK
<1> QED BY <1>1, <1>2, MirrorSide

\* The variables of the gate have their type, and what they say of a command holds.
GateTypeOK ==
  /\ stage \in [Cmds -> {"idle", "begun", "resolve", "check", "granted"}]
  /\ request \in [Cmds -> Requests \union {None}]
  /\ roles \in [Cmds -> Roles \union {{}}]
  /\ todo \in [Cmds -> SUBSET Projects]
  /\ permissions \subseteq Projects /\ attached \subseteq DOMAIN Attachments
  /\ held \in [Cmds -> SUBSET Projects]
  /\ had \in [Cmds -> SUBSET DOMAIN Attachments]

LEMMA FinishStep ==
  ASSUME GateTypeOK, TypeOK, \A d \in Cmds : Gated(d), NEW c \in Cmds, Finish(c),
         attached' \subseteq attached
  PROVE  GateTypeOK' /\ \A d \in Cmds : Gated(d)'
<1>1. GateTypeOK' BY DEF Finish, GateTypeOK
<1>2. Gated(c)' BY DEF Finish, GateTypeOK, Gated, Within
<1>3. ASSUME NEW d \in Cmds, d # c PROVE Gated(d)'
  <2>1. /\ stage'[d] = stage[d] /\ request'[d] = request[d] /\ roles'[d] = roles[d]
        /\ todo'[d] = todo[d] /\ held'[d] = held[d] /\ had'[d] = had[d]
        /\ msg'[d] = msg[d] /\ permissions' = permissions
    BY <1>3 DEF Finish, GateTypeOK, Forget, TypeOK, Writers
  <2> QED BY <2>1, GatedStays DEF Gated
<1> QED BY <1>1, <1>2, <1>3

\* A command goes to another stage: what has to be true there.
LEMMA GoesStep ==
  ASSUME GateTypeOK, TypeOK, \A d \in Cmds : Gated(d), NEW c \in Cmds,
         NEW to \in {"resolve", "check", "granted"}, Goes(c, to), stage[c] # "idle",
         NEW R \in Roles \union {{}}, roles' = [roles EXCEPT ![c] = R],
         NEW P \in SUBSET Projects, todo' = [todo EXCEPT ![c] = P],
         to = "check" => P \subseteq ProjectsFor(request[c], had[c]),
         to = "granted" /\ "external-user" \in R /\ CommandEntity(request[c].command) # "null" =>
           \/ ProjectsFor(request[c], had[c]) \intersect held[c] # {}
           \/ /\ request[c].command = "files.{fileId}.request-download"
              /\ request[c].id \in Uploaded
  PROVE  GateTypeOK' /\ \A d \in Cmds : Gated(d)'
<1>1. GateTypeOK'
  <2>1. /\ stage' = [stage EXCEPT ![c] = to]
        /\ stage \in [Cmds -> {"idle", "begun", "resolve", "check", "granted"}]
    BY DEF Goes, GateTypeOK
  <2>2. stage' \in [Cmds -> {"idle", "begun", "resolve", "check", "granted"}] BY <2>1
  <2>3. roles' \in [Cmds -> Roles \union {{}}] /\ todo' \in [Cmds -> SUBSET Projects]
    BY DEF GateTypeOK
  <2>4. UNCHANGED <<request, held, had, permissions, attached>> BY DEF Goes, stateVars
  <2> QED BY <2>2, <2>3, <2>4 DEF GateTypeOK
<1>2. /\ stage'[c] = to /\ roles'[c] = R /\ todo'[c] = P
      /\ UNCHANGED <<request, held, had, permissions, attached, msg>>
  BY DEF Goes, GateTypeOK, stateVars, mirrorVars
<1>3. Within(c)' BY <1>2 DEF Within
<1>4. Gated(c)' BY <1>2, <1>3 DEF Gated
<1>5. ASSUME NEW d \in Cmds, d # c PROVE Gated(d)'
  <2>1. stage'[d] = stage[d] /\ roles'[d] = roles[d] /\ todo'[d] = todo[d]
    BY <1>5 DEF Goes, GateTypeOK
  <2> QED BY <1>2, <2>1, GatedStays DEF Gated
<1> QED BY <1>1, <1>4, <1>5

LEMMA RolesOfType ==
  ASSUME TypeOK, NEW c \in Cmds, Gated(c), stage[c] = "begun"
  PROVE  RolesOf(c) \in Roles \union {{}}
<1>1. CASE request[c].channel = "envelope"
  <2>1. msg[c] \in Message
    BY <1>1 DEF Gated, TypeOK, Writers
  <2> QED BY <1>1, <2>1, BroughtType DEF RolesOf
<1>2. CASE request[c].channel = "direct" /\ row # None
  BY <1>2 DEF RolesOf, TypeOK, Row
<1>3. CASE ~ (request[c].channel = "envelope" \/ (request[c].channel = "direct" /\ row # None))
  <2>1. RolesOf(c) = {} BY <1>3, Zenon DEF RolesOf
  <2> QED BY <2>1
<1> QED BY <1>1, <1>2, <1>3

\* A step of the mirror leaves the messages of commands alone.
LEMMA MirrorKeepsCommands ==
  ASSUME TypeOK, MirrorStep, NEW d \in Cmds
  PROVE  msg'[d] = msg[d]
<1>1. d \in Writers /\ d \notin Replicas /\ msg \in [Writers -> Message \union {None}]
  BY DEF Writers, TypeOK
<1>2. ASSUME NEW w \in Writers, NEW o, After(w, o) PROVE msg'[d] = msg[d]
  <2>1. msg' = [msg EXCEPT ![w] = IF w \in Replicas THEN None ELSE @] BY <1>2 DEF After
  <2>2. CASE w \in Replicas BY <1>1, <2>1, <2>2
  <2>3. CASE w \notin Replicas BY <1>1, <2>1, <2>3
  <2> QED BY <2>2, <2>3
<1>3. ASSUME NEW w \in Writers, Proceed(w) \/ Fail(w) PROVE msg'[d] = msg[d]
  BY <1>2, <1>3 DEF Proceed, Create, Collide, Update, Fail
<1>4. ASSUME NEW r \in Replicas, Crash(r) PROVE msg'[d] = msg[d]
  BY <1>2, <1>4 DEF Crash, Writers
<1>5. ASSUME NEW r \in Replicas, BeginEvent(r) PROVE msg'[d] = msg[d]
  BY <1>1, <1>5 DEF BeginEvent
<1> QED BY <1>3, <1>4, <1>5 DEF MirrorStep, ChangeIdentity, Expire, Authenticate

GateStays == GateTypeOK' /\ \A d \in Cmds : Gated(d)'

\* A command begins.
LEMMA BeginStep ==
  ASSUME GateTypeOK, TypeOK, \A d \in Cmds : Gated(d), NEW c \in Cmds,
         NEW q \in Requests, Begin(c, q)
  PROVE  GateStays
<1>1. GateTypeOK'
  <2>1. stage' \in [Cmds -> {"idle", "begun", "resolve", "check", "granted"}]
        /\ request' \in [Cmds -> Requests \union {None}]
    BY DEF Begin, GateTypeOK
  <2>2. held' \in [Cmds -> SUBSET Projects] /\ had' \in [Cmds -> SUBSET DOMAIN Attachments]
    BY DEF Begin, GateTypeOK
  <2> QED BY <2>1, <2>2 DEF Begin, stateVars, GateTypeOK
<1>2. /\ stage'[c] = "begun" /\ request'[c] = q /\ held'[c] = permissions
      /\ had'[c] = attached /\ permissions' = permissions /\ attached' = attached
  BY DEF Begin, stateVars, GateTypeOK
<1>3. q.channel = "envelope" => msg'[c] # None
  <2> SUFFICES ASSUME q.channel = "envelope" PROVE msg'[c] # None OBVIOUS
  <2>1. PICK m \in Token : BeginMirror(c, m) BY DEF Begin
  <2>2. m \in Message BY DEF Token, Message
  <2>3. msg'[c] = m BY <2>1 DEF BeginMirror, TypeOK, Writers
  <2> QED BY <2>2, <2>3
<1>4. Gated(c)' BY <1>2, <1>3 DEF Gated, Within
<1>5. ASSUME NEW d \in Cmds, d # c PROVE Gated(d)'
  <2>1. /\ stage'[d] = stage[d] /\ request'[d] = request[d] /\ roles'[d] = roles[d]
        /\ todo'[d] = todo[d] /\ held'[d] = held[d] /\ had'[d] = had[d]
    BY <1>5 DEF Begin, GateTypeOK
  <2>2. msg'[d] = msg[d]
    BY <1>5 DEF Begin, BeginMirror, mirrorVars, TypeOK, Writers
  <2> QED BY <1>2, <2>1, <2>2, GatedStays DEF Gated
<1> QED BY <1>1, <1>4, <1>5 DEF GateStays

\* The gate lets a command go on or not.
LEMMA GateStep ==
  ASSUME GateTypeOK, TypeOK, \A d \in Cmds : Gated(d), NEW c \in Cmds, Gate(c)
  PROVE  GateStays
<1>1. ASSUME Denied(c) PROVE GateStays
  BY <1>1, FinishStep DEF Denied, GateStays
<1>2. CASE Authorize(c)
  <2>1. CASE ~ MayRun(c) BY <1>1, <1>2, <2>1 DEF Authorize
  <2>2. CASE MayRun(c)
    <3>1. stage[c] = "begun" /\ RolesOf(c) \in Roles \union {{}}
      BY <1>2, RolesOfType DEF Authorize
    <3>2. roles' = [roles EXCEPT ![c] = RolesOf(c)] /\ todo' = [todo EXCEPT ![c] = todo[c]]
      BY <1>2, <2>2 DEF Authorize, GateTypeOK
    <3>3. todo[c] \in SUBSET Projects BY DEF GateTypeOK
    <3>4. CASE resolveCallerClass(RolesOf(c)) = "external"
      <4>1. Goes(c, "resolve") BY <1>2, <2>2, <3>4 DEF Authorize
      <4> QED BY <3>1, <3>2, <3>3, <4>1, GoesStep DEF GateStays
    <3>5. CASE resolveCallerClass(RolesOf(c)) # "external"
      <4>1. Goes(c, "granted") BY <1>2, <2>2, <3>5 DEF Authorize
      <4>2. "external-user" \notin RolesOf(c) BY <3>5 DEF resolveCallerClass
      <4> QED BY <3>1, <3>2, <3>3, <4>1, <4>2, GoesStep DEF GateStays
    <3> QED BY <3>4, <3>5
  <2> QED BY <2>1, <2>2
<1>3. CASE Resolve(c) \/ \E p \in Projects : CheckPermission(c, p)
  <2>1. /\ roles[c] \in Roles \union {{}} /\ todo[c] \in SUBSET Projects
        /\ UNCHANGED roles => roles' = [roles EXCEPT ![c] = roles[c]]
        /\ UNCHANGED todo => todo' = [todo EXCEPT ![c] = todo[c]]
    BY DEF GateTypeOK
  <2>2. /\ stage[c] \in {"resolve", "check"} /\ permissions \subseteq held[c]
        /\ attached \subseteq had[c]
    BY <1>3 DEF Resolve, CheckPermission, Gated
  <2>3. ProjectsFor(request[c], attached) \subseteq ProjectsFor(request[c], had[c])
    BY <2>2, ProjectsForGrows
  <2>4. CASE Resolve(c)
    <3>1. CASE NeedsNone(request[c], attached)
      <4>1. Goes(c, "granted") /\ UNCHANGED <<roles, todo>>
        BY <2>4, <3>1 DEF Resolve
      <4>2. CommandEntity(request[c].command) # "null" =>
              /\ request[c].command = "files.{fileId}.request-download"
              /\ request[c].id \in Uploaded
        BY <3>1 DEF NeedsNone, OwnUpload
      <4> QED BY <2>1, <2>2, <4>1, <4>2, GoesStep DEF GateStays
    <3>2. CASE /\ ~ NeedsNone(request[c], attached)
               /\ ProjectsFor(request[c], attached) = {}
      BY <1>1, <2>4, <3>2 DEF Resolve
    <3>3. CASE /\ ~ NeedsNone(request[c], attached)
               /\ ProjectsFor(request[c], attached) # {}
      <4>1. /\ Goes(c, "check") /\ UNCHANGED roles
            /\ todo' = [todo EXCEPT ![c] = ProjectsFor(request[c], attached)]
        BY <2>4, <3>3 DEF Resolve
      <4>2. ProjectsFor(request[c], attached) \in SUBSET Projects BY ProjectsForType
      <4> QED BY <2>1, <2>2, <2>3, <4>1, <4>2, GoesStep DEF GateStays
    <3> QED BY <3>1, <3>2, <3>3
  <2>5. ASSUME NEW p \in Projects, CheckPermission(c, p) PROVE GateStays
    <3>1. stage[c] = "check" /\ p \in todo[c] BY <2>5 DEF CheckPermission
    <3>2. todo[c] \subseteq ProjectsFor(request[c], had[c]) BY <3>1 DEF Gated
    <3>3. CASE p \in permissions
      <4>1. Goes(c, "granted") /\ UNCHANGED <<roles, todo>>
        BY <2>5, <3>3 DEF CheckPermission
      <4>2. ProjectsFor(request[c], had[c]) \intersect held[c] # {}
        BY <2>2, <3>1, <3>2, <3>3
      <4> QED BY <2>1, <2>2, <4>1, <4>2, GoesStep DEF GateStays
    <3>4. CASE p \notin permissions /\ todo[c] = {p}
      BY <1>1, <2>5, <3>4 DEF CheckPermission
    <3>5. CASE p \notin permissions /\ todo[c] # {p}
      <4>1. /\ Goes(c, "check") /\ UNCHANGED roles
            /\ todo' = [todo EXCEPT ![c] = todo[c] \ {p}]
        BY <2>5, <3>5 DEF CheckPermission
      <4>2. /\ todo[c] \ {p} \in SUBSET Projects
            /\ todo[c] \ {p} \subseteq ProjectsFor(request[c], had[c])
        BY <2>1, <3>2
      <4> QED BY <2>1, <2>2, <4>1, <4>2, GoesStep DEF GateStays
    <3> QED BY <3>3, <3>4, <3>5
  <2> QED BY <1>3, <2>4, <2>5
<1>4. CASE Execute(c)
  <2>1. Finish(c) /\ attached' \subseteq attached BY <1>4 DEF Execute
  <2> QED BY <2>1, FinishStep DEF GateStays
<1> QED BY <1>2, <1>3, <1>4 DEF Gate

\* Others change the permissions and the links.
LEMMA OthersStep ==
  ASSUME GateTypeOK, TypeOK, \A d \in Cmds : Gated(d),
         \/ \E p \in Projects : Permit(p) \/ Revoke(p)
         \/ \E a \in DOMAIN Attachments : Attach(a) \/ Detach(a)
  PROVE  GateStays
<1>1. UNCHANGED <<stage, request, roles, todo, msg>>
  BY DEF Permit, Revoke, Attach, Detach, mirrorVars, gateVars
<1>2. /\ permissions' \subseteq Projects /\ attached' \subseteq DOMAIN Attachments
      /\ held' \in [Cmds -> SUBSET Projects] /\ had' \in [Cmds -> SUBSET DOMAIN Attachments]
  <2>1. ASSUME NEW p \in Projects, Permit(p)
        PROVE  held' \in [Cmds -> SUBSET Projects] /\ UNCHANGED <<had, attached>>
               /\ permissions' \subseteq Projects
    BY <2>1 DEF Permit, GateTypeOK
  <2>2. ASSUME NEW a \in DOMAIN Attachments, Attach(a)
        PROVE  had' \in [Cmds -> SUBSET DOMAIN Attachments] /\ UNCHANGED <<held, permissions>>
               /\ attached' \subseteq DOMAIN Attachments
    BY <2>2 DEF Attach, GateTypeOK
  <2>3. ASSUME NEW p \in Projects, Revoke(p)
        PROVE  UNCHANGED <<held, had, attached>> /\ permissions' \subseteq Projects
    BY <2>3 DEF Revoke, GateTypeOK, gateVars
  <2>4. ASSUME NEW a \in DOMAIN Attachments, Detach(a)
        PROVE  UNCHANGED <<held, had, permissions>> /\ attached' \subseteq DOMAIN Attachments
    BY <2>4 DEF Detach, GateTypeOK, gateVars
  <2> QED BY <2>1, <2>2, <2>3, <2>4 DEF GateTypeOK
<1>3. GateTypeOK' BY <1>1, <1>2 DEF GateTypeOK
<1>4. ASSUME NEW d \in Cmds PROVE Gated(d)'
  <2>1. CASE stage[d] = "idle" BY <1>1, <2>1 DEF Gated, Within
  <2>2. CASE stage[d] # "idle"
    <3>1. /\ held[d] \subseteq held'[d] /\ had[d] \subseteq had'[d]
          /\ permissions' \subseteq held'[d] /\ attached' \subseteq had'[d]
      <4>1. permissions \subseteq held[d] /\ attached \subseteq had[d] BY <2>2 DEF Gated
      <4>2. CASE \E p \in Projects : Permit(p) BY <2>2, <4>1, <4>2 DEF Permit
      <4>3. CASE \E a \in DOMAIN Attachments : Attach(a) BY <2>2, <4>1, <4>3 DEF Attach
      <4>4. CASE \/ \E p \in Projects : Revoke(p)
                 \/ \E a \in DOMAIN Attachments : Detach(a)
        BY <4>1, <4>4 DEF Revoke, Detach, gateVars
      <4> QED BY <4>2, <4>3, <4>4
    <3> QED BY <1>1, <3>1, GatedStays
  <2> QED BY <2>1, <2>2
<1> QED BY <1>3, <1>4 DEF GateStays

LEMMA AccessInvParts ==
  AccessInv <=> TypeOK /\ MirrorInv /\ GateTypeOK /\ \A c \in Cmds : Gated(c)
BY GateInvParts DEF AccessInv, AccessTypeOK, GateTypeOK

LEMMA AccessInvNext ==
  ASSUME TypeOK', MirrorInv', GateTypeOK', \A c \in Cmds : Gated(c)'
  PROVE  AccessInv'
BY DEF AccessInv, AccessTypeOK, GateTypeOK, GateInv, ActsWithinPermission, Gated, Within

LEMMA AccessInvStep ==
  ASSUME AccessInv, [AccessNext]_accessVars
  PROVE  AccessInv'
<1> USE AccessInvParts
<1>1. CASE MirrorStep /\ UNCHANGED <<gateVars, stateVars>>
  <2>1. UNCHANGED <<stage, request, roles, todo, held, had, permissions, attached>>
    BY <1>1 DEF gateVars, stateVars
  <2>2. GateTypeOK' BY <2>1 DEF GateTypeOK
  <2>3. ASSUME NEW d \in Cmds PROVE Gated(d)'
    BY <1>1, <2>1, MirrorKeepsCommands, GatedStays DEF Gated
  <2> QED BY <2>2, <2>3, MirrorSideStep, AccessInvNext
<1>2. CASE UNCHANGED accessVars
  <2>1. UNCHANGED <<stage, request, roles, todo, held, had, permissions, attached, msg>>
    BY <1>2 DEF gateVars, stateVars, accessVars, mirrorVars
  <2>2. GateTypeOK' BY <2>1 DEF GateTypeOK
  <2>3. ASSUME NEW d \in Cmds PROVE Gated(d)' BY <2>1, GatedStays DEF Gated
  <2> QED BY <2>2, <2>3, MirrorSideStep, AccessInvNext
<1>3. CASE \/ \E c \in Cmds : Gate(c) \/ \E q \in Requests : Begin(c, q)
           \/ \E p \in Projects : Permit(p) \/ Revoke(p)
           \/ \E a \in DOMAIN Attachments : Attach(a) \/ Detach(a)
  <2>1. GateStays BY <1>3, BeginStep, GateStep, OthersStep
  <2> QED BY <2>1, MirrorSideStep, AccessInvNext DEF GateStays
<1> QED BY <1>1, <1>2, <1>3 DEF AccessNext

\* What holds of the mirror and of the gate together.
THEOREM AccessInvariant == AccessSpec => []AccessInv
<1>1. AccessInit => AccessInv
  <2> SUFFICES ASSUME AccessInit PROVE AccessInv OBVIOUS
  <2>1. TypeOK /\ MirrorInv BY MirrorInvInit DEF AccessInit
  <2>2. GateTypeOK BY DEF AccessInit, GateTypeOK
  <2>3. \A c \in Cmds : Gated(c) BY DEF AccessInit, Gated, Within
  <2> QED BY <2>1, <2>2, <2>3, AccessInvParts
<1> QED BY <1>1, AccessInvStep, PTL DEF AccessSpec

\* The variables of the mirror and of the gate keep their types.
THEOREM AccessTypes == AccessSpec => []AccessTypeOK
<1>1. AccessInv => AccessTypeOK BY DEF AccessInv
<1> QED BY <1>1, AccessInvariant, PTL

\* No external person acts on an entity without a permission on its project.
THEOREM PermissionHolds == AccessSpec => []ActsWithinPermission
<1>1. AccessInv => ActsWithinPermission BY DEF AccessInv, GateInv
<1> QED BY <1>1, AccessInvariant, PTL

\* Commands at the gate remember what was permitted and attached.
THEOREM GateRemembers == AccessSpec => []GateInv
<1>1. AccessInv => GateInv BY DEF AccessInv
<1> QED BY <1>1, AccessInvariant, PTL
=============================================================================
