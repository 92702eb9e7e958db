-------------------------- MODULE CommandPipeline ---------------------------
(***************************************************************************)
(* The road of a command: the request of the api over NATS                 *)
(* (api/lib/utils/bus), the micro service that receives it                 *)
(* (core/src/bus/service.ts), the dispatcher that mirrors the actor,       *)
(* authorizes, runs the command in one transaction, writes its             *)
(* notifications in that same transaction, commits and only then publishes *)
(* its events (core/src/bus/dispatcher.ts), and the way back.              *)
(*                                                                         *)
(* Every replica of `core` serves any number of requests at once: a        *)
(* handler is started without being awaited, and what bounds them is the   *)
(* pool of database connections.  Requests and replies may be lost, the    *)
(* caller gives up after a timeout while its command goes on, replicas     *)
(* crash, restart and shut down, and any access to the database may fail.  *)
(*                                                                         *)
(* Abstractions.  A command is one invocation.  Its effect is the set of   *)
(* {"write", "note"}: what execute() writes, and its rows of the outbox.   *)
(* All refusals before the transaction (malformed body, envelope not       *)
(* allowed, role, unknown command, invalid fields, no access to the        *)
(* entity) are one outcome, "failure".                                     *)
(***************************************************************************)
EXTENDS Integers, FiniteSets

CONSTANTS
  Commands,    \* the invocations
  Replicas,    \* the processes of core
  Nowhere,     \* "no replica"
  Enveloped,   \* commands that carry an actor, hence mirrored first
  External,    \* commands of external callers, checked against the entity
  Notifying,   \* commands whose success declares notifications
  Publishing,  \* commands whose success declares domain events
  Pool,        \* database connections of a replica
  MaxFaults    \* bound on database errors, crashes and shutdowns

ASSUME CommandsAssumption ==
  /\ Nowhere \notin Replicas
  /\ Enveloped \subseteq Commands   /\ External \subseteq Commands
  /\ Notifying \subseteq Commands   /\ Publishing \subseteq Commands

ASSUME BoundsAssumption == Pool \in Nat \ {0} /\ MaxFaults \in Nat

VARIABLES
  replica,    \* the life of each process
  client,     \* what the caller of each command sees
  pc,         \* where the handler of each command stands
  at,         \* the replica that handles it
  lease,      \* the transactions the handler holds a connection for
  dirty,      \* what the open transaction of the command has written
  db,         \* what is committed of each command
  reply,      \* the Reply the handler holds
  published,  \* commands whose event reached the stream
  ambiguous,  \* history: commands whose COMMIT was applied but reported lost
  faults      \* database errors, crashes and shutdowns so far

data == <<lease, dirty, db>>
vars == <<replica, client, pc, at, data, reply, published, ambiguous, faults>>

Waiting == {"receive", "mirror", "authorize", "entity", "open"}
Running == Waiting \union {"mirrorTx", "execute", "notify", "commit",
                           "rollback", "abort", "emit", "reply"}

Init ==
  /\ replica = [r \in Replicas |-> "up"]
  /\ client = [c \in Commands |-> "idle"]
  /\ pc = [c \in Commands |-> "none"]
  /\ at = [c \in Commands |-> Nowhere]
  /\ lease = [c \in Commands |-> {}]
  /\ dirty = [c \in Commands |-> {}]
  /\ db = [c \in Commands |-> {}]
  /\ reply = [c \in Commands |-> "none"]
  /\ published = {}
  /\ ambiguous = {}
  /\ faults = 0

-----------------------------------------------------------------------------
(* The caller and the bus.                                                 *)

\* A request is published; with a responder somewhere it travels.
Send(c) ==
  /\ client[c] = "idle"
  /\ \E r \in Replicas : replica[r] = "up"
  /\ client' = [client EXCEPT ![c] = "waiting"]
  /\ pc' = [pc EXCEPT ![c] = "flying"]
  /\ UNCHANGED <<replica, at, data, reply, published, ambiguous, faults>>

\* The api is not connected, or the NATS server answers "no responders".
Unavailable(c) ==
  /\ client[c] = "idle"
  /\ client' = [client EXCEPT ![c] = "503"]
  /\ UNCHANGED <<replica, pc, at, data, reply, published, ambiguous, faults>>

\* The queue group hands the request to one replica that still subscribes.
Deliver(c, r) ==
  /\ pc[c] = "flying" /\ replica[r] = "up"
  /\ pc' = [pc EXCEPT ![c] = "receive"]
  /\ at' = [at EXCEPT ![c] = r]
  /\ UNCHANGED <<replica, client, data, reply, published, ambiguous, faults>>

Lose(c) ==
  /\ pc[c] = "flying"
  /\ pc' = [pc EXCEPT ![c] = "dead"]
  /\ UNCHANGED <<replica, client, at, data, reply, published, ambiguous, faults>>

\* What send-command.ts makes of a request that ended without a reply.
NoReplyStatus == "504"

Timeout(c) ==
  /\ client[c] = "waiting"
  /\ client' = [client EXCEPT ![c] = NoReplyStatus]
  /\ UNCHANGED <<replica, pc, at, data, reply, published, ambiguous, faults>>

-----------------------------------------------------------------------------
(* Vocabulary of the handler.                                              *)

Goto(c, l)   == pc' = [pc EXCEPT ![c] = l]
Answer(c, v) == reply' = [reply EXCEPT ![c] = v]
Lease(c, L)  == lease' = [lease EXCEPT ![c] = L]
Fault        == faults < MaxFaults /\ faults' = faults + 1

Connections(r) ==
  {held \in Commands \X {"mirror", "command"} :
     at[held[1]] = r /\ held[2] \in lease[held[1]]}
Free(r) == Cardinality(Connections(r)) < Pool

\* What a success of command c consists of.
Effect(c) == {"write"} \union (IF c \in Notifying THEN {"note"} ELSE {})

\* Where a handler goes after execute() succeeded, and after the COMMIT.
AfterExecute(c) == IF c \in Notifying THEN "notify" ELSE "commit"

AfterCommit(c) == IF c \in Publishing THEN "emit" ELSE "reply"

\* Fault: writeNotifications() in a try/catch of its own, like emitEvents().
SwallowNotifyError(c) == "commit"
AfterNotifyError(c) == "abort"

\* Fault: emitEvents() without a try/catch of its own.
PropagateEmitError(c) == "abort"
AfterEmitError(c) == "reply"

BeforeCommit(c) == "commit"

\* Fault: a transaction that is neither committed nor rolled back.
StillOpen(c) == lease[c]
\* commit() and rollback() give the connection back, even when they fail.
Closed(c) == {}

MirrorClosed(c) == {}

-----------------------------------------------------------------------------
(* The handler: BusHost handle() around Dispatcher.dispatch().             *)

\* Any `return failure(...)` of dispatch() before it opens the transaction.
\* The error of a query of the gate is answered in the same way.
Refuse(c) ==
  /\ pc[c] \in {"receive", "authorize", "entity"}
  /\ Goto(c, "reply") /\ Answer(c, "failure")
  /\ UNCHANGED <<replica, client, at, data, published, ambiguous, faults>>

\* The body is JSON and extractActor() accepts it.
Receive(c) ==
  /\ pc[c] = "receive"
  /\ Goto(c, IF c \in Enveloped THEN "mirror" ELSE "authorize")
  /\ UNCHANGED <<replica, client, at, data, reply, published, ambiguous, faults>>

\* mirrorActor(): its own transaction, and no failure of it stops the command.
MirrorOpen(c) ==
  /\ pc[c] = "mirror" /\ Free(at[c])
  /\ Goto(c, "mirrorTx") /\ Lease(c, lease[c] \union {"mirror"})
  /\ UNCHANGED <<replica, client, at, dirty, db, reply, published, ambiguous,
                 faults>>

MirrorOpenFails(c) ==
  /\ pc[c] = "mirror" /\ Fault
  /\ Goto(c, "authorize")
  /\ UNCHANGED <<replica, client, at, data, reply, published, ambiguous>>

\* The upsert and its COMMIT, or their error and the ROLLBACK.
MirrorClose(c) ==
  /\ pc[c] = "mirrorTx"
  /\ Goto(c, "authorize") /\ Lease(c, MirrorClosed(c))
  /\ UNCHANGED <<replica, client, at, dirty, db, reply, published, ambiguous,
                 faults>>

\* Both gates, registry.resolve() and command.validate() let it through.
Authorize(c) ==
  /\ pc[c] = "authorize"
  /\ Goto(c, IF c \in External THEN "entity" ELSE "open")
  /\ UNCHANGED <<replica, client, at, data, reply, published, ambiguous, faults>>

\* authorizeEntityAccess() finds the permission of an external caller.
GrantEntity(c) ==
  /\ pc[c] = "entity"
  /\ Goto(c, "open")
  /\ UNCHANGED <<replica, client, at, data, reply, published, ambiguous, faults>>

\* sequelize.transaction() waits for a connection of the pool.
Open(c) ==
  /\ pc[c] = "open" /\ Free(at[c])
  /\ Goto(c, "execute") /\ Lease(c, lease[c] \union {"command"})
  /\ UNCHANGED <<replica, client, at, dirty, db, reply, published, ambiguous,
                 faults>>

\* It stands before the try: its error leaves dispatch(), and the catch of
\* handle() answers.
OpenFails(c) ==
  /\ pc[c] = "open" /\ Fault
  /\ Goto(c, "reply") /\ Answer(c, "failure")
  /\ UNCHANGED <<replica, client, at, data, published, ambiguous>>

ExecuteSucceeds(c) ==
  /\ pc[c] = "execute"
  /\ Goto(c, AfterExecute(c)) /\ Answer(c, "success")
  /\ dirty' = [dirty EXCEPT ![c] = {"write"}]
  /\ UNCHANGED <<replica, client, at, lease, db, published, ambiguous, faults>>

\* execute() returns a failure, perhaps after having written.
ExecuteRefuses(c) ==
  /\ pc[c] = "execute"
  /\ Goto(c, "rollback") /\ Answer(c, "failure")
  /\ dirty' \in {dirty, [dirty EXCEPT ![c] = {"write"}]}
  /\ UNCHANGED <<replica, client, at, lease, db, published, ambiguous, faults>>

ExecuteThrows(c) ==
  /\ pc[c] = "execute" /\ Fault
  /\ Goto(c, "abort")
  /\ dirty' \in {dirty, [dirty EXCEPT ![c] = {"write"}]}
  /\ UNCHANGED <<replica, client, at, lease, db, reply, published, ambiguous>>

Notify(c) ==
  /\ pc[c] = "notify"
  /\ Goto(c, BeforeCommit(c))
  /\ dirty' = [dirty EXCEPT ![c] = @ \union {"note"}]
  /\ UNCHANGED <<replica, client, at, lease, db, reply, published, ambiguous,
                 faults>>

NotifyFails(c) ==
  /\ pc[c] = "notify" /\ Fault
  /\ Goto(c, AfterNotifyError(c))
  /\ UNCHANGED <<replica, client, at, data, reply, published, ambiguous>>

Commit(c) ==
  /\ pc[c] = "commit"
  /\ Goto(c, AfterCommit(c)) /\ Lease(c, Closed(c))
  /\ db' = [db EXCEPT ![c] = dirty[c]]
  /\ dirty' = [dirty EXCEPT ![c] = {}]
  /\ UNCHANGED <<replica, client, at, reply, published, ambiguous, faults>>

\* commit() rejects; the database may have committed all the same.
CommitFails(c) ==
  /\ pc[c] = "commit" /\ Fault
  /\ Goto(c, "abort") /\ Lease(c, {})
  /\ dirty' = [dirty EXCEPT ![c] = {}]
  /\ \/ UNCHANGED <<db, ambiguous>>
     \/ /\ db' = [db EXCEPT ![c] = dirty[c]]
        /\ ambiguous' = ambiguous \union {c}
  /\ UNCHANGED <<replica, client, at, reply, published>>

\* The rollback of a failure that execute() returned.
Rollback(c) ==
  /\ pc[c] = "rollback"
  /\ Goto(c, "reply") /\ Lease(c, Closed(c))
  /\ dirty' = [dirty EXCEPT ![c] = {}]
  /\ UNCHANGED <<replica, client, at, db, reply, published, ambiguous, faults>>

RollbackFails(c) ==
  /\ pc[c] = "rollback" /\ Fault
  /\ Goto(c, "abort") /\ Lease(c, {})
  /\ dirty' = [dirty EXCEPT ![c] = {}]
  /\ UNCHANGED <<replica, client, at, db, reply, published, ambiguous>>

\* The catch of dispatch(): roll back and answer internal_error.
Abort(c) ==
  /\ pc[c] = "abort" /\ "command" \in lease[c]
  /\ Goto(c, "reply") /\ Answer(c, "failure") /\ Lease(c, Closed(c))
  /\ dirty' = [dirty EXCEPT ![c] = {}]
  /\ UNCHANGED <<replica, client, at, db, published, ambiguous, faults>>

\* The rollback() of the catch rejects, always so when the transaction is
\* already finished: the error leaves dispatch() and handle() answers.
AbortFails(c) ==
  /\ pc[c] = "abort"
  /\ \/ "command" \notin lease[c] /\ UNCHANGED faults
     \/ "command" \in lease[c] /\ Fault
  /\ Goto(c, "reply") /\ Answer(c, "failure") /\ Lease(c, {})
  /\ dirty' = [dirty EXCEPT ![c] = {}]
  /\ UNCHANGED <<replica, client, at, db, published, ambiguous>>

Emit(c) ==
  /\ pc[c] = "emit"
  /\ Goto(c, "reply")
  /\ published' = published \union {c}
  /\ UNCHANGED <<replica, client, at, data, reply, ambiguous, faults>>

\* The publish rejects, and the event is lost, or only its acknowledgement.
EmitFails(c) ==
  /\ pc[c] = "emit"
  /\ Goto(c, AfterEmitError(c))
  /\ published' \in {published, published \union {c}}
  /\ UNCHANGED <<replica, client, at, data, reply, ambiguous, faults>>

\* msg.respond(): the reply may be lost, and a caller that has given up does
\* not look at it.
Respond(c) ==
  /\ pc[c] = "reply"
  /\ Goto(c, "done")
  /\ \/ UNCHANGED client
     \/ /\ client[c] = "waiting"
        /\ client' = [client EXCEPT ![c] = reply[c]]
  /\ UNCHANGED <<replica, at, data, reply, published, ambiguous, faults>>

Handle(c) ==
  \/ Refuse(c) \/ Receive(c)
  \/ MirrorOpen(c) \/ MirrorOpenFails(c) \/ MirrorClose(c)
  \/ Authorize(c) \/ GrantEntity(c)
  \/ Open(c) \/ OpenFails(c)
  \/ ExecuteSucceeds(c) \/ ExecuteRefuses(c) \/ ExecuteThrows(c)
  \/ Notify(c) \/ NotifyFails(c)
  \/ Commit(c) \/ CommitFails(c)
  \/ Rollback(c) \/ RollbackFails(c) \/ Abort(c) \/ AbortFails(c)
  \/ Emit(c) \/ EmitFails(c)
  \/ Respond(c)

-----------------------------------------------------------------------------
(* The processes.                                                          *)

InFlight(r) == {c \in Commands : at[c] = r /\ pc[c] \in Running}

\* The process ends.  Its connections drop and PostgreSQL rolls back what was
\* open, except a COMMIT that had already reached it.
Die(r) ==
  /\ replica' = [replica EXCEPT ![r] = "down"]
  /\ pc' = [c \in Commands |-> IF c \in InFlight(r) THEN "dead" ELSE pc[c]]
  /\ lease' = [c \in Commands |-> IF c \in InFlight(r) THEN {} ELSE lease[c]]
  /\ dirty' = [c \in Commands |-> IF c \in InFlight(r) THEN {} ELSE dirty[c]]
  /\ \E C \in SUBSET {c \in InFlight(r) : pc[c] = "commit"} :
       db' = [c \in Commands |-> IF c \in C THEN dirty[c] ELSE db[c]]
  /\ UNCHANGED <<client, at, reply, published, ambiguous>>

Crash(r) ==
  /\ replica[r] # "down" /\ Fault
  /\ Die(r)

\* SIGTERM: host.stop() unsubscribes; the handlers at work go on.
Stop(r) ==
  /\ replica[r] = "up" /\ Fault
  /\ replica' = [replica EXCEPT ![r] = "stopping"]
  /\ UNCHANGED <<client, pc, at, data, reply, published, ambiguous>>

\* The bus is drained and process.exit(0) follows; no promise of a handler
\* is kept anywhere, so nobody waits for one.
Exit(r) ==
  /\ replica[r] = "stopping"
  /\ Die(r)
  /\ UNCHANGED faults

Restart(r) ==
  /\ replica[r] = "down"
  /\ replica' = [replica EXCEPT ![r] = "up"]
  /\ UNCHANGED <<client, pc, at, data, reply, published, ambiguous, faults>>

Next ==
  \/ \E c \in Commands :
       Send(c) \/ Unavailable(c) \/ Lose(c) \/ Timeout(c) \/ Handle(c)
  \/ \E c \in Commands, r \in Replicas : Deliver(c, r)
  \/ \E r \in Replicas : Crash(r) \/ Stop(r) \/ Exit(r) \/ Restart(r)

Spec == Init /\ [][Next]_vars

\* A handler that can go on does, and a shutdown reaches its end.
FairSpec ==
  /\ Spec
  /\ \A c \in Commands : WF_vars(Handle(c))
  /\ \A r \in Replicas : WF_vars(Exit(r))

-----------------------------------------------------------------------------
(* Safety.                                                                 *)

Places == Running \union {"none", "flying", "done", "dead"}
Answers == {"idle", "waiting", "success", "failure", "503", "504"}

\* The type of every variable.  The command has no event to publish unless
\* it declares one.
TypeOK ==
  /\ replica \in [Replicas -> {"up", "stopping", "down"}]
  /\ client \in [Commands -> Answers]
  /\ pc \in [Commands -> Places]
  /\ at \in [Commands -> Replicas \union {Nowhere}]
  /\ lease \in [Commands -> SUBSET {"mirror", "command"}]
  /\ dirty \in [Commands -> SUBSET {"write", "note"}]
  /\ db \in [Commands -> SUBSET {"write", "note"}]
  /\ reply \in [Commands -> {"none", "success", "failure"}]
  /\ published \in SUBSET Publishing
  /\ ambiguous \in SUBSET Commands
  /\ faults \in 0..MaxFaults

\* What a command writes and the outbox rows of its notifications become
\* visible together or not at all, whoever fails or dies in between ("si el
\* comando commiteo, el mail existe; si fallo, no queda mail fantasma").
AllOrNothing == \A c \in Commands : db[c] \in {{}, Effect(c)}

\* A caller told "success" has its whole effect in the database, and a domain
\* event is in the stream only if its command was committed.
SuccessIsDurable ==
  \A c \in Commands :
    client[c] = "success" \/ c \in published => db[c] = Effect(c)

\* A caller told "failure" finds nothing changed, except when the COMMIT was
\* applied and its acknowledgement was lost: no error after the commit, of the
\* emission or of the reply, may turn a success into a failure.
FailureChangedNothing ==
  \A c \in Commands :
    client[c] = "failure" /\ c \notin ambiguous => db[c] = {}

\* 503 means that the operation did not happen, and that it will not: repeating
\* it is safe (send-command.ts, "con 503 la operacion NO ocurrio").
RetryAfter503IsSafe ==
  \A c \in Commands : client[c] = "503" => db[c] = {} /\ pc[c] = "none"

\* A handler holds at most one connection of the pool, only between opening and
\* closing a transaction, and none once it answers: handlers cannot wait for
\* each other's connections, nor drain the pool.
ConnectionsAreReturned ==
  \A c \in Commands :
    /\ lease[c] # {"mirror", "command"}
    /\ "mirror" \in lease[c] => pc[c] = "mirrorTx"
    /\ "command" \in lease[c] =>
         pc[c] \in {"execute", "notify", "commit", "rollback", "abort"}

-----------------------------------------------------------------------------
(* The inductive invariant behind them.                                    *)

\* The handler begins when the caller asks, and its answer is the caller's.
CallerMatchesHandler(c) ==
  /\ pc[c] = "none" <=> client[c] \in {"idle", "503"}
  /\ client[c] \in {"success", "failure"} =>
       pc[c] = "done" /\ reply[c] = client[c]

\* What the open transaction holds, and since when the effect is committed.
EffectMatchesStep(c) ==
  /\ pc[c] = "notify" => dirty[c] = {"write"} /\ c \in Notifying
  /\ pc[c] = "commit" => dirty[c] = Effect(c)
  /\ db[c] \in {{}, Effect(c)}
  /\ db[c] # {} => \/ pc[c] \in {"emit", "reply", "done", "dead"}
                   \/ pc[c] = "abort" /\ c \in ambiguous
  /\ c \in published => db[c] # {}
  /\ pc[c] = "emit" => c \in Publishing /\ db[c] # {}

\* The Reply in hand is true from the moment it can be sent.
ReplyMatchesEffect(c) ==
  /\ pc[c] \in {"notify", "commit", "emit"} => reply[c] = "success"
  /\ pc[c] = "rollback" => reply[c] = "failure"
  /\ pc[c] \in {"reply", "done"} =>
       \/ reply[c] = "success" /\ db[c] # {}
       \/ reply[c] = "failure" /\ (db[c] = {} \/ c \in ambiguous)

\* For every command the caller, the handler, the database and the stream
\* tell the same story.
IndInv ==
  /\ TypeOK
  /\ ConnectionsAreReturned
  /\ \A c \in Commands : /\ CallerMatchesHandler(c)
                         /\ EffectMatchesStep(c)
                         /\ ReplyMatchesEffect(c)

-----------------------------------------------------------------------------
(* The promise to the caller.                                              *)

\* The code cannot tell a lost acknowledgement from a failed COMMIT, so an
\* internal_error that hides one promises no more than a timeout does.
Told(c) ==
  CASE client[c] = "idle" -> "none"
    [] client[c] = "504" -> "unknown"
    [] client[c] = "failure" /\ c \in ambiguous -> "unknown"
    [] OTHER -> client[c]

Promise ==
  INSTANCE CommandPromise WITH
    answer    <- [c \in Commands |-> Told(c)],
    Whole     <- [c \in Commands |-> Effect(c)],
    effect    <- db,
    announced <- published

\* The effect of a command, what it writes and the outbox rows of its
\* notifications, is applied once and as a whole, never after a refusal, its
\* event follows it, and what the caller is told is true.
KeepsCommandPromise == Promise!Spec

-----------------------------------------------------------------------------
(* Liveness.                                                               *)

\* No handler waits for ever: for a connection, for another handler or after
\* an error.
EveryHandlerEnds ==
  \A c \in Commands : pc[c] \in Running ~> pc[c] \in {"done", "dead"}
=============================================================================
