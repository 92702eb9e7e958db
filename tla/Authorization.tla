---------------------------- MODULE Authorization ----------------------------
(***************************************************************************)
(* Who may run which command: the roles (core/src/authorize-caller.ts),    *)
(* the class of a caller (caller-class.ts) and the project an entity       *)
(* belongs to (entity-project.ts).  Pure definitions; CommandAccess says   *)
(* when they are evaluated, and on what.                                   *)
(*                                                                         *)
(* A command is known by its pattern.  The rows that say where an entity   *)
(* belongs are constants: no command moves one to another project.         *)
(***************************************************************************)
EXTENDS FiniteSets

CONSTANTS
  Projects,           \* the ids of projects
  RequirementProject, \* the project of each requirement, by id
  ObjectiveProject,   \* of each task
  RequirementOf,      \* the requirement of each of its comments
  ObjectiveOf,        \* the task of each of its comments
  Nowhere             \* no project

ASSUME EntitiesAssumption ==
  /\ Nowhere \notin Projects
  /\ \A i \in DOMAIN RequirementProject : RequirementProject[i] \in Projects
  /\ \A i \in DOMAIN ObjectiveProject : ObjectiveProject[i] \in Projects

-----------------------------------------------------------------------------
(* Commands and roles.                                                     *)

INTERNAL_COMMANDS ==
  {"clients.new", "clients.{id}.edit", "projects.new", "projects.{id}.edit",
   "tasks.new", "tasks.{id}.edit", "tasks.{id}.comment",
   "tasks.{id}.comment.{cid}.edit", "requirements.new", "requirements.{id}.edit",
   "requirements.{id}.resolve", "requirements.{id}.comment",
   "requirements.{id}.comment.{cid}.edit", "attachments.{id}.delete",
   "files.request-upload", "files.{fileId}.request-download", "worked-times.new",
   "worked-times.{id}.delete", "unworked-times.new", "unworked-times.{id}.delete"}

ADMIN_COMMANDS == INTERNAL_COMMANDS \union {"week-assigned-times.replace"}

USER_ENVELOPE_COMMANDS ==
  INTERNAL_COMMANDS \union {"requirements.{id}.subscriptors.new"}

EXTERNAL_ENVELOPE_COMMANDS ==
  {"requirements.new", "requirements.{id}.comment",
   "requirements.{id}.subscriptors.new",
   "requirements.{id}.subscriptors.{userId}.delete",
   "files.request-upload", "files.{fileId}.request-download"}

ALL == ADMIN_COMMANDS \union USER_ENVELOPE_COMMANDS \union EXTERNAL_ENVELOPE_COMMANDS

\* ROLE_METHODS with allowedFor(): what a role may do over each channel.
allowedFor(role, channel) ==
  CASE role = "internal-app" -> ALL
    [] role = "admin" -> ADMIN_COMMANDS
    [] role = "user" /\ channel = "envelope" -> USER_ENVELOPE_COMMANDS
    [] role = "user" /\ channel = "direct" -> INTERNAL_COMMANDS
    [] role = "external-user" /\ channel = "envelope" -> EXTERNAL_ENVELOPE_COMMANDS
    [] OTHER -> {}

\* Roles add up.
rolesAuthorize(roles, command, channel) ==
  \E role \in roles : command \in allowedFor(role, channel)

\* Fault: the class that may do most comes first.
InternalFirst(roles) ==
  IF roles \intersect {"user", "admin"} # {} THEN "internal"
  ELSE IF "external-user" \in roles THEN "external"
  ELSE IF "internal-app" \in roles THEN "connector" ELSE "none"

\* The class with most restrictions comes first.
resolveCallerClass(roles) ==
  IF "external-user" \in roles THEN "external"
  ELSE IF roles \intersect {"user", "admin"} # {} THEN "internal"
  ELSE IF "internal-app" \in roles THEN "connector" ELSE "none"

-----------------------------------------------------------------------------
(* Entities and their projects.                                            *)

OfRequirement(i) ==
  IF i \in DOMAIN RequirementProject THEN RequirementProject[i] ELSE Nowhere
OfObjective(i) ==
  IF i \in DOMAIN ObjectiveProject THEN ObjectiveProject[i] ELSE Nowhere
OfRequirementComment(i) ==
  IF i \in DOMAIN RequirementOf THEN OfRequirement(RequirementOf[i]) ELSE Nowhere
OfObjectiveComment(i) ==
  IF i \in DOMAIN ObjectiveOf THEN OfObjective(ObjectiveOf[i]) ELSE Nowhere

First(p, q) == IF p # Nowhere THEN p ELSE q

\* resolveEntityProject(): a type without a resolver belongs nowhere.
ProjectOf(type, i) ==
  CASE type \in {"project", "objective_draft", "requirement_draft"}
         -> IF i \in Projects THEN i ELSE Nowhere
    [] type = "requirement" -> OfRequirement(i)
    [] type = "objective" -> OfObjective(i)
    [] type = "requirement_comment" -> OfRequirementComment(i)
    [] type = "objective_comment" -> OfObjectiveComment(i)
    [] type = "comment" -> First(OfObjectiveComment(i), OfRequirementComment(i))
    [] type = "comment_draft" -> First(OfRequirement(i), OfObjective(i))
    [] OTHER -> Nowhere

\* COMMAND_ENTITY: what the id of a command is an id of; "null" for those the
\* layer does not look at, and "unknown" for those it has not heard of.
CommandEntity(command) ==
  CASE command \in {"clients.new", "clients.{id}.edit", "projects.new",
                    "projects.{id}.edit", "tasks.new", "tasks.{id}.edit",
                    "tasks.{id}.comment", "tasks.{id}.comment.{cid}.edit",
                    "files.request-upload", "worked-times.new",
                    "worked-times.{id}.delete", "unworked-times.new",
                    "unworked-times.{id}.delete", "week-assigned-times.replace"} -> "null"
    [] command = "requirements.new" -> "project"
    [] command \in {"requirements.{id}.edit", "requirements.{id}.resolve",
                    "requirements.{id}.comment", "requirements.{id}.comment.{cid}.edit",
                    "requirements.{id}.subscriptors.new",
                    "requirements.{id}.subscriptors.{userId}.delete"} -> "requirement"
    [] command \in {"attachments.{id}.delete", "files.{fileId}.request-download"}
         -> "polymorphic"
    [] OTHER -> "unknown"
=============================================================================
