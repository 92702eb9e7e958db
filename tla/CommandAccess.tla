---------------------------- MODULE CommandAccess ----------------------------
(***************************************************************************)
(* How core decides on the commands of one person, between their arrival   *)
(* and their transaction (core/src/bus/dispatcher.ts): the identity of the *)
(* person is mirrored, the roles are looked at, and for an external person *)
(* so is the project of the entity.  Each is a read of its own: roles,     *)
(* permissions and links may change before the next.                       *)
(*                                                                         *)
(* A command comes by the api with an envelope, by the api without one     *)
(* (exempt: it speaks for itself), or directly from a client of the bus,   *)
(* whose roles are those of its row.  An envelope of anybody else is       *)
(* refused at once, as is one without an id or roles; neither is modelled. *)
(***************************************************************************)
EXTENDS UserMirror, Authorization

CONSTANTS
  Requests,     \* what a command may ask for: channel, command and id
  Attachments,  \* type, entity and file of the attachments there may be
  Uploaded      \* the files the person has uploaded

ASSUME RequestsAssumption ==
  Requests \subseteq [channel : {"envelope", "direct", "exempt"}, command : ALL, id : Nat]

VARIABLES
  stage,        \* of each command
  request,      \* what it asks for
  roles,        \* the roles it was allowed with
  todo,         \* the projects whose permission has still to be read
  permissions,  \* the projects the person has a permission for
  attached,     \* the attachments there are
  held,         \* history: the permissions there were since the command began
  had           \* history: and the attachments

gateVars   == <<stage, request, roles, todo, held, had>>
stateVars  == <<permissions, attached>>
accessVars == <<mirrorVars, gateVars, stateVars>>

AccessInit ==
  /\ Init
  /\ stage = [c \in Cmds |-> "idle"]
  /\ request = [c \in Cmds |-> None] /\ roles = [c \in Cmds |-> {}]
  /\ todo = [c \in Cmds |-> {}]
  /\ permissions = {} /\ attached = {}
  /\ held = [c \in Cmds |-> {}] /\ had = [c \in Cmds |-> {}]

-----------------------------------------------------------------------------
(* An operator changes the permissions, and other commands the links.      *)

Permit(p) ==
  /\ p \notin permissions
  /\ permissions' = permissions \union {p}
  /\ held' = [c \in Cmds |-> IF stage[c] = "idle" THEN {} ELSE held[c] \union {p}]
  /\ UNCHANGED <<mirrorVars, stage, request, roles, todo, attached, had>>

Revoke(p) ==
  /\ p \in permissions
  /\ permissions' = permissions \ {p}
  /\ UNCHANGED <<mirrorVars, gateVars, attached>>

Attach(a) ==
  /\ a \notin attached
  /\ attached' = attached \union {a}
  /\ had' = [c \in Cmds |-> IF stage[c] = "idle" THEN {} ELSE had[c] \union {a}]
  /\ UNCHANGED <<mirrorVars, stage, request, roles, todo, permissions, held>>

Detach(a) ==
  /\ a \in attached
  /\ attached' = attached \ {a}
  /\ UNCHANGED <<mirrorVars, gateVars, permissions>>

-----------------------------------------------------------------------------
\* dispatch() starts; with an envelope, it mirrors its actor first.
Begin(c, q) ==
  /\ stage[c] = "idle"
  /\ stage' = [stage EXCEPT ![c] = "begun"]
  /\ request' = [request EXCEPT ![c] = q]
  /\ held' = [held EXCEPT ![c] = permissions] /\ had' = [had EXCEPT ![c] = attached]
  /\ IF q.channel = "envelope" THEN \E m \in Token : BeginMirror(c, m)
                               ELSE UNCHANGED mirrorVars
  /\ UNCHANGED <<roles, todo, stateVars>>

\* The handler is done, well or badly.
Finish(c) ==
  /\ stage' = [stage EXCEPT ![c] = "idle"]
  /\ request' = [request EXCEPT ![c] = None] /\ roles' = [roles EXCEPT ![c] = {}]
  /\ todo' = [todo EXCEPT ![c] = {}]
  /\ held' = [held EXCEPT ![c] = {}] /\ had' = [had EXCEPT ![c] = {}]
  /\ Forget(c)
  /\ UNCHANGED permissions

Denied(c) == Finish(c) /\ UNCHANGED attached

Goes(c, to) ==
  /\ stage' = [stage EXCEPT ![c] = to]
  /\ UNCHANGED <<mirrorVars, request, held, had, stateVars>>

\* The envelope brings the roles; a direct caller has those of its row, now.
RolesOf(c) ==
  CASE request[c].channel = "envelope" -> Brought(msg[c]).roles
    [] request[c].channel = "direct" /\ row # None -> row.roles
    [] OTHER -> {}

\* authorizeWithRoles(), and a class for whoever passes it.
MayRun(c) ==
  \/ request[c].channel = "exempt"
  \/ /\ rolesAuthorize(RolesOf(c), request[c].command, request[c].channel)
     /\ resolveCallerClass(RolesOf(c)) # "none"

Authorize(c) ==
  /\ stage[c] = "begun" /\ ~ Busy(c)
  /\ IF MayRun(c)
       THEN /\ Goes(c, IF resolveCallerClass(RolesOf(c)) = "external" THEN "resolve"
                                                                      ELSE "granted")
            /\ roles' = [roles EXCEPT ![c] = RolesOf(c)]
            /\ UNCHANGED todo
       ELSE Denied(c)

Links(file, S) == {a \in S : Attachments[a].file = file}
Where(S) == {ProjectOf(Attachments[a].type, Attachments[a].entity) : a \in S} \ {Nowhere}

\* The projects that count for a request, if the attachments are S.
ProjectsFor(q, S) ==
  CASE q.command = "files.{fileId}.request-download" -> Where(Links(q.id, S))
    [] q.command = "attachments.{id}.delete" -> Where(S \intersect {q.id})
    [] CommandEntity(q.command) \in {"null", "unknown"} -> {}
    [] OTHER -> {ProjectOf(CommandEntity(q.command), q.id)} \ {Nowhere}

\* A file nobody has linked yet is of whoever uploaded it.
OwnUpload(q, S) ==
  /\ q.command = "files.{fileId}.request-download"
  /\ Links(q.id, S) = {} /\ q.id \in Uploaded

\* No permission is needed.
NeedsNone(q, S) == CommandEntity(q.command) = "null" \/ OwnUpload(q, S)

\* authorizeEntityAccess(), up to the project or projects.
Resolve(c) ==
  /\ stage[c] = "resolve"
  /\ IF NeedsNone(request[c], attached) THEN Goes(c, "granted") /\ UNCHANGED <<roles, todo>>
     ELSE IF ProjectsFor(request[c], attached) = {} THEN Denied(c)
     ELSE /\ Goes(c, "check")
          /\ todo' = [todo EXCEPT ![c] = ProjectsFor(request[c], attached)]
          /\ UNCHANGED roles

\* hasProjectPermission(), one project after the other.
CheckPermission(c, p) ==
  /\ stage[c] = "check" /\ p \in todo[c]
  /\ IF p \in permissions THEN Goes(c, "granted") /\ UNCHANGED <<roles, todo>>
     ELSE IF todo[c] = {p} THEN Denied(c)
     ELSE /\ Goes(c, "check") /\ todo' = [todo EXCEPT ![c] = @ \ {p}]
          /\ UNCHANGED roles

\* The transaction of the command; of those in question one changes the links.
Execute(c) ==
  /\ stage[c] = "granted"
  /\ attached' = IF request[c].command = "attachments.{id}.delete"
                 THEN attached \ {request[c].id} ELSE attached
  /\ Finish(c)

Gate(c) == Authorize(c) \/ Resolve(c) \/ Execute(c) \/ \E p \in Projects : CheckPermission(c, p)

AccessNext ==
  \/ MirrorStep /\ UNCHANGED <<gateVars, stateVars>>
  \/ \E c \in Cmds : Gate(c) \/ \E q \in Requests : Begin(c, q)
  \/ \E p \in Projects : Permit(p) \/ Revoke(p)
  \/ \E a \in DOMAIN Attachments : Attach(a) \/ Detach(a)

AccessSpec == AccessInit /\ [][AccessNext]_accessVars

-----------------------------------------------------------------------------
\* The type of every variable.
AccessTypeOK ==
  /\ TypeOK
  /\ stage \in [Cmds -> {"idle", "begun", "resolve", "check", "granted"}]
  /\ request \in [Cmds -> Requests \union {None}]
  /\ roles \in [Cmds -> Roles \union {{}}]
  /\ todo \in [Cmds -> SUBSET Projects]
  /\ permissions \subseteq Projects /\ attached \subseteq DOMAIN Attachments
  /\ held \in [Cmds -> SUBSET Projects]
  /\ had \in [Cmds -> SUBSET DOMAIN Attachments]

\* Whoever has the role of an external person acts on an entity only with a
\* permission on its project that there was while the command ran, whatever other
\* roles they have and wherever these come from; and gets a file they have not
\* uploaded only by a link there was.
ActsWithinPermission ==
  \A c \in Cmds :
    LET q == request[c] IN
    stage[c] = "granted" /\ "external-user" \in roles[c] /\ CommandEntity(q.command) # "null"
      => \/ ProjectsFor(q, had[c]) \intersect held[c] # {}
         \/ q.command = "files.{fileId}.request-download" /\ q.id \in Uploaded

\* What makes this inductive: what was permitted and attached is remembered, and
\* only projects that count are looked at.
GateInv ==
  /\ ActsWithinPermission
  /\ \A c \in Cmds :
       /\ stage[c] # "idle" => /\ request[c] \in Requests
                              /\ permissions \subseteq held[c] /\ attached \subseteq had[c]
       /\ stage[c] = "check" => todo[c] \subseteq ProjectsFor(request[c], had[c])
       /\ stage[c] = "begun" /\ request[c].channel = "envelope" => msg[c] # None
=============================================================================
