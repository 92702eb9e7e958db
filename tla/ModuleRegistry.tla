--------------------------- MODULE ModuleRegistry ---------------------------
(***************************************************************************)
(* How one replica of the api knows whether an optional module is          *)
(* installed and alive: the ModuleRegistry of api/lib/modules/registry.ts, *)
(* from start() on.                                                        *)
(*                                                                         *)
(* The module writes a record under its key of the bucket JIKU_MODULES.    *)
(* The registry reads the key, watches it, and pings the service the       *)
(* record names: when the record changes, every 30 seconds, and when a     *)
(* call found nobody there.  Every await is a point where the others go    *)
(* on: the timer, the loop of the watch, pings under way, calls.  What a   *)
(* handler does between two awaits is one action.                          *)
(*                                                                         *)
(* Abstractions.  An entry is a value: a record of the supported protocol, *)
(* one parseRecord() or the protocol refuses, or the marker of a DEL or a  *)
(* PURGE.  A record is alive when the service it names answers pings.  The *)
(* bus times out before the next tick, so that open() never overlaps with  *)
(* itself.  stop(), which only the tests call, is left out.                *)
(***************************************************************************)
EXTENDS Integers, Sequences, FiniteSets

CONSTANTS
  Records,     \* entries the registry understands
  Unreadable,  \* entries it refuses
  Deleted,     \* the marker of a deletion
  NoEntry,     \* nothing was ever written; no record
  MaxChanges,  \* bound on changes of the key and of what is alive
  MaxFaults    \* bound on errors of the bus

ASSUME EntriesAssumption ==
  /\ Records \cap Unreadable = {}
  /\ Deleted \notin Records \union Unreadable
  /\ NoEntry \notin Records \union Unreadable \union {Deleted}
ASSUME BoundsAssumption == MaxChanges \in Nat /\ MaxFaults \in Nat

Entries == Records \union Unreadable \union {Deleted}

VARIABLES
  key,          \* the last entry of the key in the bucket
  alive,        \* the records whose service has somebody listening
  opening,      \* where open() stands: "no", "get" or "watch"
  timer,        \* the interval of 30 seconds is set
  watching,     \* there is a watcher
  queue,        \* entries on their way to it
  awaiting,     \* the ping its loop waits for, by generation, 0 for none
  state,        \* the status of the module
  current,      \* its record, or NoEntry
  lastApplied,  \* the last entry applied, or NoEntry
  generation,   \* how many entries were applied
  pings,        \* the pings under way
  pinging,      \* the generation of the one others join, 0 for none
  call,         \* a call got "no responders" and has yet to say so
  answered,     \* history: the generations some ping answered
  changes, faults

bucket   == <<key, alive, changes>>
watch    == <<watching, queue, awaiting>>
registry == <<state, current, lastApplied, generation>>
inFlight == <<pings, pinging, answered>>
vars == <<bucket, opening, timer, watch, registry, inFlight, call, faults>>

Ping == [gen : Nat \ {0}, heard : BOOLEAN]

UnderWay(g) == \E p \in pings : p.gen = g

Init ==
  /\ key \in Entries \union {NoEntry}
  /\ alive \in SUBSET Records
  /\ opening = "get" /\ timer = FALSE
  /\ watching = FALSE /\ queue = <<>> /\ awaiting = 0
  /\ state = "not_installed" /\ current = NoEntry
  /\ lastApplied = NoEntry /\ generation = 0
  /\ pings = {} /\ pinging = 0 /\ answered = {}
  /\ call = FALSE /\ changes = 0 /\ faults = 0

Fault == faults < MaxFaults /\ faults' = faults + 1

-----------------------------------------------------------------------------
(* The module and the bucket.                                              *)

Change == changes < MaxChanges /\ changes' = changes + 1

\* A PUT, a DEL or a PURGE.  The bucket keeps one entry: those that have not
\* left for the watcher may be gone.
Write(e) ==
  /\ Change /\ e # key
  /\ key' = e
  /\ IF watching THEN \E q \in {queue, <<>>} : queue' = Append(q, e)
     ELSE UNCHANGED queue
  /\ UNCHANGED <<alive, opening, timer, watching, awaiting, registry,
                 inFlight, call, faults>>

StartOrDie(r) ==
  /\ Change
  /\ alive' = IF r \in alive THEN alive \ {r} ELSE alive \union {r}
  /\ UNCHANGED <<key, opening, timer, watch, registry, inFlight, call, faults>>

-----------------------------------------------------------------------------
(* Pings.                                                                  *)

\* ping() for record r at generation g: join the one under way, or send one.
\* What is not listening now will not hear it.
SendPing(r, g) ==
  IF pinging = g THEN UNCHANGED <<pings, pinging>>
  ELSE /\ pings' = pings \union {[gen |-> g, heard |-> r \in alive]}
       /\ pinging' = g

\* Fault: a ping of an older record decides.
CurrentOrNot(p) == TRUE
IsCurrent(p) == p.gen = generation

Handle(p) == IF pinging = p.gen THEN 0 ELSE pinging

\* A ping ends, and counts unless another entry was applied meanwhile.
Land(p, yes) ==
  /\ pings' = pings \ {p}
  /\ pinging' = Handle(p)
  /\ awaiting' = IF awaiting = p.gen THEN 0 ELSE awaiting
  /\ answered' = IF yes THEN answered \union {p.gen} ELSE answered
  /\ state' = IF ~ IsCurrent(p) THEN state
              ELSE IF yes THEN "available" ELSE "unavailable"
  /\ UNCHANGED <<bucket, opening, timer, watching, queue, current, lastApplied,
                 generation, call>>

\* The service that heard it answers, even while it is shutting down.
Pong(p) == p.heard /\ Land(p, TRUE) /\ UNCHANGED faults

\* No responders, a timeout, or another error.  It takes an error of the bus
\* to lose the answer of a service that is still there.
NoPong(p) ==
  /\ IF p.heard /\ current \in alive THEN Fault ELSE UNCHANGED faults
  /\ Land(p, FALSE)

-----------------------------------------------------------------------------
(* The registry.                                                           *)

\* apply(): the same entry again changes nothing; what cannot be used forgets
\* the record; a record is pinged.
Apply(e) ==
  IF e = lastApplied THEN UNCHANGED <<registry, pings, pinging>>
  ELSE /\ lastApplied' = e
       /\ generation' = generation + 1
       /\ IF e \in Records
            THEN current' = e /\ UNCHANGED state /\ SendPing(e, generation + 1)
            ELSE /\ current' = NoEntry
                 /\ state' = IF e = Deleted THEN "not_installed"
                                            ELSE "incompatible"
                 /\ UNCHANGED <<pings, pinging>>

\* open(): the key is read and applied, without waiting for the ping.
OpenGet ==
  /\ opening = "get"
  /\ opening' = "watch"
  /\ IF key = NoEntry THEN UNCHANGED <<registry, pings, pinging>>
                      ELSE Apply(key)
  /\ UNCHANGED <<bucket, timer, watch, answered, call, faults>>

\* Fault: the watch only delivers what is written from now on.
OnlyUpdates == <<>>
\* The watch begins with the entry there is.
Included == IF key = NoEntry THEN <<>> ELSE <<key>>

OpenWatch ==
  /\ opening = "watch"
  /\ opening' = "no" /\ timer' = TRUE
  /\ watching' = TRUE /\ queue' = Included
  /\ UNCHANGED <<bucket, awaiting, registry, inFlight, call, faults>>

\* An error of either: the next tick tries again.
OpenFails ==
  /\ opening # "no" /\ Fault
  /\ opening' = "no" /\ timer' = TRUE
  /\ UNCHANGED <<bucket, watch, registry, inFlight, call>>

\* The loop of the watch takes the next entry when the ping of the last one
\* has ended.
Deliver ==
  /\ watching /\ queue # <<>> /\ awaiting = 0
  /\ queue' = Tail(queue)
  /\ Apply(Head(queue))
  /\ awaiting' = IF Head(queue) \in Records /\ Head(queue) # lastApplied
                   THEN generation' ELSE 0
  /\ UNCHANGED <<bucket, opening, timer, watching, answered, call, faults>>

\* Fault: a watch that ends is not noticed.
StillWatching == TRUE
AfterClose == FALSE

\* The watch ends, with or without an error.
WatchEnds ==
  /\ watching /\ awaiting = 0 /\ opening = "no" /\ Fault
  /\ watching' = AfterClose /\ queue' = <<>>
  /\ UNCHANGED <<bucket, opening, timer, awaiting, registry, inFlight, call>>

\* tick(): reopen what was lost, or ping.
Tick ==
  /\ timer /\ opening = "no"
  /\ \/ /\ ~ watching
        /\ opening' = "get"
        /\ UNCHANGED <<pings, pinging>>
     \/ /\ watching /\ current # NoEntry /\ state # "incompatible"
        /\ SendPing(current, generation)
        /\ UNCHANGED opening
  /\ UNCHANGED <<bucket, timer, watch, registry, answered, call, faults>>

-----------------------------------------------------------------------------
(* Calls of the api to the module.                                         *)

\* record(): where a call may go.
Callable == state \in {"available", "unavailable"} /\ current # NoEntry

\* sendToModule(): the bus says that nobody listens.
NoResponders ==
  /\ ~ call /\ Callable /\ current \notin alive
  /\ call' = TRUE
  /\ UNCHANGED <<bucket, opening, timer, watch, registry, inFlight, faults>>

\* markUnavailable().
MarkUnavailable ==
  /\ call /\ call' = FALSE
  /\ state' = IF current # NoEntry /\ state = "available"
                THEN "unavailable" ELSE state
  /\ IF current = NoEntry THEN UNCHANGED <<pings, pinging>>
                          ELSE SendPing(current, generation)
  /\ UNCHANGED <<bucket, opening, timer, watch, current, lastApplied,
                 generation, answered, faults>>

-----------------------------------------------------------------------------
PingEnds == \E p \in pings : Pong(p) \/ NoPong(p)

Next ==
  \/ \E e \in Entries : Write(e)
  \/ \E r \in Records : StartOrDie(r)
  \/ PingEnds
  \/ OpenGet \/ OpenWatch \/ OpenFails
  \/ Deliver \/ WatchEnds \/ Tick
  \/ NoResponders \/ MarkUnavailable

Spec == Init /\ [][Next]_vars

\* setInterval() fires, requests of the bus end, by an answer or a timeout,
\* and the bus delivers.
Fairness ==
  /\ WF_vars(OpenGet) /\ WF_vars(OpenWatch)
  /\ WF_vars(Deliver) /\ WF_vars(Tick) /\ WF_vars(MarkUnavailable)
  /\ \A g \in 1..(MaxChanges + 1) :
       WF_vars(\E p \in pings : p.gen = g /\ (Pong(p) \/ NoPong(p)))

FairSpec == Spec /\ Fairness

-----------------------------------------------------------------------------
\* The type of every variable, and who may be joined.
TypeOK ==
  /\ key \in Entries \union {NoEntry} /\ alive \in SUBSET Records
  /\ opening \in {"no", "get", "watch"}
  /\ timer \in BOOLEAN /\ watching \in BOOLEAN /\ call \in BOOLEAN
  /\ queue \in Seq(Entries) /\ awaiting \in Nat
  /\ state \in {"not_installed", "incompatible", "unavailable", "available"}
  /\ current \in Records \union {NoEntry}
  /\ lastApplied \in Entries \union {NoEntry}
  /\ generation \in Nat
  /\ pings \in SUBSET Ping /\ pinging \in Nat /\ answered \in SUBSET Nat
  /\ pinging # 0 => UnderWay(pinging)
  /\ awaiting # 0 => UnderWay(awaiting)
  /\ changes \in 0..MaxChanges /\ faults \in 0..MaxFaults

\* The status is about the last entry applied, whatever pings of older ones
\* come in late ("un ping en vuelo cuya clave se borro dejaria available un
\* modulo desinstalado"): without a record the module is neither available nor
\* unavailable, and with one it is, unless its first ping is under way; and it
\* is not available unless a ping of this very record was answered.
StatusIsOfTheRecord ==
  /\ current = IF lastApplied \in Records THEN lastApplied ELSE NoEntry
  /\ state \in {"available", "unavailable"} => current # NoEntry
  /\ current # NoEntry /\ ~ UnderWay(generation) =>
       /\ state \in {"available", "unavailable"}
       /\ state = "available" => generation \in answered

\* No change of the key is lost, however it falls between the get and the
\* watch: once the watch has nothing to deliver, the registry has applied the
\* entry there is ("una escritura entre el get y el watch no se pierde").
NoChangeIsLost == watching /\ queue = <<>> => lastApplied = key

\* What makes these invariants inductive.  A ping is not of the future, and one
\* of the last entry is there only if that is a record.
PingsInv ==
  /\ \A p \in pings :
       p.gen <= generation /\ (p.gen = generation => current # NoEntry)
  /\ lastApplied # NoEntry => generation > 0 /\ key # NoEntry

\* The registry only opens without a watcher; a watcher that is behind has the
\* last entry at the end of its queue.
WatchInv ==
  /\ opening # "no" => ~ watching
  /\ watching /\ queue # <<>> => queue[Len(queue)] = key

IndInv == TypeOK /\ StatusIsOfTheRecord /\ NoChangeIsLost /\ PingsInv /\ WatchInv

\* What a user of the api should be told.
Truth ==
  IF key \in Records THEN (IF key \in alive THEN "available" ELSE "unavailable")
  ELSE IF key \in Unreadable THEN "incompatible" ELSE "not_installed"

\* When nothing changes any more the status becomes true and stays so,
\* although the watch may have died and any read may have failed ("sin esto,
\* un watch muerto dejaria el estado congelado para siempre").
StatusConverges == <>[](state = Truth)

=============================================================================
