------------------------ MODULE ModuleRegistryProofs ------------------------
(***************************************************************************)
(* The safety of ModuleRegistry for any entries and any bounds.  Each      *)
(* action is shown to keep the four parts of IndInv in turn: the types,    *)
(* what is said of the pings and of the status, and the position of the    *)
(* watcher.                                                                *)
(***************************************************************************)
EXTENDS ModuleRegistry, SequenceTheorems, TLAPS

USE DEF IndInv

-----------------------------------------------------------------------------
(* Pings.                                                                  *)

\* What ping() does: whoever asks, a ping of that generation is under way.
LEMMA SendPingEffect ==
  ASSUME TypeOK, NEW r, NEW g \in Nat \ {0}, SendPing(r, g)
  PROVE  /\ pings' \in SUBSET Ping /\ pinging' \in Nat
         /\ \A p \in pings' : p \in pings \/ p.gen = g
         /\ pings \subseteq pings'
         /\ \E p \in pings' : p.gen = g
         /\ (\E p \in pings' : p.gen = pinging') \/ pinging' = 0
<1>1. CASE pinging = g
  BY <1>1 DEF SendPing, TypeOK, UnderWay
<1>2. CASE pinging # g
  <2>. DEFINE new == [gen |-> g, heard |-> r \in alive]
  <2>1. (r \in alive) \in BOOLEAN
    OBVIOUS
  <2>2. new \in Ping /\ new.gen = g
    BY <2>1 DEF Ping
  <2>3. pings' = pings \union {new} /\ pinging' = g
    BY <1>2 DEF SendPing
  <2>. HIDE DEF new
  <2>. QED
    BY <2>2, <2>3 DEF TypeOK
<1>. QED
  BY <1>1, <1>2

\* The end of a ping.
LEMMA LandKeeps ==
  ASSUME IndInv, NEW p \in pings, NEW yes \in BOOLEAN, Land(p, yes),
         faults' \in 0..MaxFaults
  PROVE  IndInv'
<1>1. p \in Ping /\ p.gen \in Nat \ {0} /\ pings' = pings \ {p}
  BY DEF Land, TypeOK, Ping
<1>2. /\ UNCHANGED <<bucket, opening, timer, watching, queue, current,
                     lastApplied, generation, call>>
      /\ pinging' = IF pinging = p.gen THEN 0 ELSE pinging
      /\ awaiting' = IF awaiting = p.gen THEN 0 ELSE awaiting
      /\ answered' = IF yes THEN answered \union {p.gen} ELSE answered
      /\ state' = IF p.gen # generation THEN state
                  ELSE IF yes THEN "available" ELSE "unavailable"
  BY DEF Land, Handle, IsCurrent
<1>3. \A g \in Nat : g # p.gen => (UnderWay(g)' <=> UnderWay(g))
  BY <1>1 DEF UnderWay
<1>4. TypeOK'
  <2>1. pinging' # 0 => UnderWay(pinging)'
    BY <1>2, <1>3 DEF TypeOK
  <2>2. awaiting' # 0 => UnderWay(awaiting)'
    BY <1>2, <1>3 DEF TypeOK
  <2>3. answered' \in SUBSET Nat
    BY <1>1, <1>2 DEF TypeOK
  <2>4. pings' \in SUBSET Ping /\ pinging' \in Nat /\ awaiting' \in Nat
    BY <1>1, <1>2 DEF TypeOK
  <2>5. state' \in {"not_installed", "incompatible", "unavailable", "available"}
    BY <1>2 DEF TypeOK
  <2>. QED
    BY <1>2, <2>1, <2>2, <2>3, <2>4, <2>5 DEF TypeOK, bucket
<1>5. StatusIsOfTheRecord'
  <2>1. CASE p.gen = generation
    <3>1. current # NoEntry
      BY <2>1 DEF PingsInv
    <3>. QED
      BY <1>1, <1>2, <2>1, <3>1 DEF StatusIsOfTheRecord
  <2>2. CASE p.gen # generation
    <3>1. UnderWay(generation)' <=> UnderWay(generation)
      BY <1>2, <1>3, <2>2 DEF TypeOK
    <3>2. generation \in answered => generation' \in answered'
      BY <1>2
    <3>. QED
      BY <1>2, <2>2, <3>1, <3>2 DEF StatusIsOfTheRecord
  <2>. QED
    BY <2>1, <2>2
<1>6. PingsInv'
  BY <1>1, <1>2 DEF PingsInv, bucket
<1>7. NoChangeIsLost' /\ WatchInv'
  BY <1>2 DEF NoChangeIsLost, WatchInv, bucket
<1>. QED
  BY <1>4, <1>5, <1>6, <1>7

-----------------------------------------------------------------------------
(* Entries.                                                                *)

\* What apply() makes of the registry, on which get and watch agree.
LEMMA ApplyKeeps ==
  ASSUME IndInv, NEW e \in Entries, Apply(e), key # NoEntry,
         UNCHANGED <<key, answered>>
  PROVE  /\ state' \in {"not_installed", "incompatible", "unavailable",
                        "available"}
         /\ current' \in Records \union {NoEntry}
         /\ lastApplied' = e
         /\ generation' \in Nat
         /\ pings' \in SUBSET Ping /\ pinging' \in Nat
         /\ pings \subseteq pings'
         /\ pinging' # 0 => UnderWay(pinging)'
         /\ e \in Records /\ e # lastApplied => UnderWay(generation)'
         /\ StatusIsOfTheRecord'
         /\ PingsInv'
<1>1. CASE e = lastApplied
  <2>1. UNCHANGED <<registry, pings, pinging>>
    BY <1>1 DEF Apply
  <2>. QED
    BY <1>1, <2>1
       DEF registry, StatusIsOfTheRecord, PingsInv, TypeOK, UnderWay
<1>2. CASE e # lastApplied /\ e \in Records
  <2>1. /\ lastApplied' = e /\ generation' = generation + 1
        /\ current' = e /\ state' = state
        /\ SendPing(e, generation + 1)
    BY <1>2 DEF Apply
  <2>2. generation \in Nat /\ generation + 1 \in Nat \ {0}
    BY DEF TypeOK
  <2>3. /\ pings' \in SUBSET Ping /\ pinging' \in Nat
        /\ \A p \in pings' : p \in pings \/ p.gen = generation + 1
        /\ pings \subseteq pings'
        /\ \E p \in pings' : p.gen = generation + 1
        /\ (\E p \in pings' : p.gen = pinging') \/ pinging' = 0
    BY <2>1, <2>2, SendPingEffect
  <2>4. e # NoEntry
    BY <1>2, EntriesAssumption
  <2>5. UnderWay(generation)' /\ (pinging' # 0 => UnderWay(pinging)')
    BY <2>1, <2>3 DEF UnderWay
  <2>6. StatusIsOfTheRecord'
    BY <1>2, <2>1, <2>4, <2>5 DEF StatusIsOfTheRecord
  <2>7. \A p \in pings' :
          p.gen <= generation' /\ (p.gen = generation' => current' # NoEntry)
    <3>. SUFFICES ASSUME NEW p \in pings' PROVE p.gen <= generation'
      BY <2>1, <2>4
    <3>1. CASE p \in pings
      <4>1. p.gen <= generation /\ p.gen \in Nat
        BY <3>1 DEF PingsInv, TypeOK, Ping
      <4>. QED
        BY <2>1, <2>2, <4>1
    <3>2. CASE p.gen = generation + 1
      BY <2>1, <2>2, <3>2
    <3>. QED
      BY <2>3, <3>1, <3>2
  <2>8. PingsInv'
    BY <2>1, <2>2, <2>7 DEF PingsInv
  <2>9. state' \in {"not_installed", "incompatible", "unavailable", "available"}
    BY <2>1 DEF TypeOK
  <2>. QED
    BY <1>2, <2>1, <2>2, <2>3, <2>5, <2>6, <2>8, <2>9
<1>3. CASE e # lastApplied /\ e \notin Records
  <2>1. /\ lastApplied' = e /\ generation' = generation + 1
        /\ current' = NoEntry
        /\ state' = IF e = Deleted THEN "not_installed" ELSE "incompatible"
        /\ UNCHANGED <<pings, pinging>>
    BY <1>3 DEF Apply
  <2>2. generation \in Nat
    BY DEF TypeOK
  <2>3. \A p \in pings' : p.gen <= generation' /\ p.gen # generation'
    BY <2>1, <2>2 DEF PingsInv, TypeOK, Ping
  <2>4. PingsInv'
    BY <2>1, <2>2, <2>3 DEF PingsInv
  <2>5. StatusIsOfTheRecord'
    BY <1>3, <2>1 DEF StatusIsOfTheRecord
  <2>6. pinging' # 0 => UnderWay(pinging)'
    BY <2>1 DEF UnderWay, TypeOK
  <2>. QED
    BY <1>3, <2>1, <2>2, <2>4, <2>5, <2>6 DEF TypeOK
<1>. QED
  BY <1>1, <1>2, <1>3

-----------------------------------------------------------------------------
LEMMA InitInv == Init => IndInv
<1>. SUFFICES ASSUME Init PROVE IndInv
  OBVIOUS
<1>1. TypeOK
  <2>1. timer \in BOOLEAN /\ watching \in BOOLEAN /\ call \in BOOLEAN
    BY DEF Init
  <2>2. changes \in 0..MaxChanges /\ faults \in 0..MaxFaults
    BY BoundsAssumption DEF Init
  <2>3. /\ queue \in Seq(Entries) /\ generation \in Nat /\ awaiting \in Nat
        /\ pings \in SUBSET Ping /\ pinging \in Nat /\ answered \in SUBSET Nat
    BY DEF Init
  <2>. QED
    BY <2>1, <2>2, <2>3 DEF Init, TypeOK
<1>2. StatusIsOfTheRecord /\ PingsInv /\ NoChangeIsLost /\ WatchInv
  BY EntriesAssumption
     DEF Init, StatusIsOfTheRecord, PingsInv, NoChangeIsLost, WatchInv
<1>. QED
  BY <1>1, <1>2

\* A PUT, a DEL or a PURGE puts the new entry at the end of the queue.
LEMMA WriteKeeps == ASSUME IndInv, NEW e \in Entries, Write(e) PROVE IndInv'
<1>1. /\ key' = e /\ changes' = changes + 1 /\ changes < MaxChanges
      /\ UNCHANGED <<alive, opening, timer, watching, awaiting, registry,
                     inFlight, call, faults>>
  BY DEF Write, Change
<1>2. e # NoEntry
  BY EntriesAssumption DEF Entries
<1>3. queue \in Seq(Entries)
  BY DEF TypeOK
<1>4. \/ ~ watching /\ queue' = queue
      \/ \E q \in Seq(Entries) : watching /\ queue' = Append(q, e)
  <2>1. CASE watching
    BY <1>3, <2>1, <<>> \in Seq(Entries) DEF Write
  <2>2. CASE ~ watching
    BY <2>2 DEF Write
  <2>. QED
    BY <2>1, <2>2
<1>5. /\ queue' \in Seq(Entries)
      /\ watching => queue' # <<>> /\ queue'[Len(queue')] = e
  BY <1>3, <1>4
<1>6. TypeOK'
  BY <1>1, <1>5, BoundsAssumption
     DEF TypeOK, registry, inFlight, UnderWay, Entries
<1>7. StatusIsOfTheRecord'
  BY <1>1 DEF StatusIsOfTheRecord, registry, inFlight, UnderWay
<1>8. PingsInv'
  BY <1>1, <1>2 DEF PingsInv, registry, inFlight
<1>9. NoChangeIsLost' /\ WatchInv'
  BY <1>1, <1>5 DEF NoChangeIsLost, WatchInv
<1>. QED
  BY <1>6, <1>7, <1>8, <1>9

\* The get applies what it reads; nothing is said of the watch yet.
LEMMA OpenGetKeeps == ASSUME IndInv, OpenGet, ~ watching PROVE IndInv'
<1>1. /\ opening' = "watch"
      /\ UNCHANGED <<bucket, timer, watch, answered, call, faults>>
  BY DEF OpenGet
<1>2. CASE key = NoEntry
  <2>1. UNCHANGED <<registry, pings, pinging>>
    BY <1>2 DEF OpenGet
  <2>. QED
    BY <1>1, <2>1 DEF TypeOK, StatusIsOfTheRecord, PingsInv, NoChangeIsLost,
       WatchInv, bucket, watch, registry, UnderWay
<1>3. CASE key # NoEntry
  <2>1. Apply(key) /\ key \in Entries
    BY <1>3 DEF OpenGet, TypeOK
  <2>2. key' = key /\ answered' = answered
    BY <1>1 DEF bucket
  <2>3. /\ state' \in {"not_installed", "incompatible", "unavailable", "available"}
        /\ current' \in Records \union {NoEntry}
        /\ lastApplied' = key
        /\ generation' \in Nat
        /\ pings' \in SUBSET Ping /\ pinging' \in Nat
        /\ pings \subseteq pings'
        /\ pinging' # 0 => UnderWay(pinging)'
        /\ StatusIsOfTheRecord' /\ PingsInv'
    BY <1>3, <2>1, <2>2, ApplyKeeps
  <2>4. awaiting' # 0 => UnderWay(awaiting)'
    BY <1>1, <2>3 DEF TypeOK, UnderWay, watch
  <2>5. TypeOK'
    BY <1>1, <2>1, <2>3, <2>4 DEF TypeOK, bucket, watch
  <2>6. NoChangeIsLost' /\ WatchInv'
    BY <1>1 DEF NoChangeIsLost, WatchInv, watch
  <2>. QED
    BY <2>3, <2>5, <2>6
<1>. QED
  BY <1>2, <1>3

LEMMA OpenWatchKeeps == ASSUME IndInv, OpenWatch PROVE IndInv'
<1>1. /\ watching' = TRUE /\ opening' = "no" /\ timer' = TRUE
      /\ queue' = IF key = NoEntry THEN <<>> ELSE <<key>>
      /\ UNCHANGED <<bucket, awaiting, registry, inFlight, call, faults>>
  BY DEF OpenWatch, Included
<1>2. queue' \in Seq(Entries)
  BY <1>1 DEF TypeOK
<1>3. TypeOK'
  BY <1>1, <1>2 DEF TypeOK, bucket, registry, inFlight, UnderWay
<1>4. StatusIsOfTheRecord' /\ PingsInv'
  BY <1>1 DEF StatusIsOfTheRecord, PingsInv, bucket, registry, inFlight, UnderWay
<1>5. NoChangeIsLost' /\ WatchInv'
  BY <1>1 DEF NoChangeIsLost, WatchInv, PingsInv, bucket, registry
<1>. QED
  BY <1>3, <1>4, <1>5

\* The watcher applies the oldest entry it has.
LEMMA DeliverKeeps == ASSUME IndInv, Deliver PROVE IndInv'
<1>. DEFINE e == Head(queue)
<1>1. /\ watching /\ queue # <<>> /\ queue \in Seq(Entries)
      /\ queue' = Tail(queue)
      /\ Apply(e)
      /\ awaiting' = IF e \in Records /\ e # lastApplied THEN generation' ELSE 0
      /\ UNCHANGED <<bucket, opening, timer, watching, answered, call, faults>>
  BY DEF Deliver, TypeOK
<1>2. e \in Entries /\ queue' \in Seq(Entries)
  BY <1>1
<1>3. queue[Len(queue)] = key /\ key # NoEntry
  <2>1. queue[Len(queue)] \in Entries
    BY <1>1
  <2>. QED
    BY <1>1, <2>1, EntriesAssumption DEF WatchInv, Entries
<1>4. key' = key /\ answered' = answered
  BY <1>1 DEF bucket
<1>5. /\ state' \in {"not_installed", "incompatible", "unavailable", "available"}
      /\ current' \in Records \union {NoEntry}
      /\ lastApplied' = e
      /\ generation' \in Nat
      /\ pings' \in SUBSET Ping /\ pinging' \in Nat
      /\ pinging' # 0 => UnderWay(pinging)'
      /\ e \in Records /\ e # lastApplied => UnderWay(generation)'
      /\ StatusIsOfTheRecord' /\ PingsInv'
  <2>. HIDE DEF e
  <2>. QED
    BY <1>1, <1>2, <1>3, <1>4, ApplyKeeps
<1>6. awaiting' \in Nat /\ (awaiting' # 0 => UnderWay(awaiting)')
  BY <1>1, <1>5 DEF UnderWay
<1>7. TypeOK'
  BY <1>1, <1>2, <1>5, <1>6 DEF TypeOK, bucket, Entries
<1>8. NoChangeIsLost'
  <2>. SUFFICES ASSUME queue' = <<>> PROVE e = key
    BY <1>1, <1>4, <1>5 DEF NoChangeIsLost
  <2>1. Len(queue) = 1
    <3>1. Len(Tail(queue)) = Len(queue) - 1 /\ Len(queue) \in Nat
      BY <1>1, HeadTailProperties
    <3>2. Tail(queue) = <<>>
      BY <1>1
    <3>3. Len(<<>>) = 0
      BY EmptySeq
    <3>4. Len(Tail(queue)) = 0
      BY <3>2, <3>3, Zenon
    <3>. QED
      BY <3>1, <3>4
  <2>. QED
    BY <1>1, <1>3, <2>1
<1>9. WatchInv'
  <2>. SUFFICES ASSUME queue' # <<>> PROVE queue'[Len(queue')] = key
    BY <1>1, <1>4 DEF WatchInv
  <2>1. queue'[Len(queue')] = queue[Len(queue)]
    BY <1>1
  <2>. QED
    BY <1>3, <2>1
<1>. QED
  BY <1>5, <1>7, <1>8, <1>9

\* tick() and markUnavailable(): a ping of the record there is.
LEMMA PingAgainKeeps ==
  ASSUME IndInv, current # NoEntry, SendPing(current, generation),
         UNCHANGED <<bucket, opening, timer, watch, current, lastApplied,
                     generation, answered, faults>>,
         call' \in BOOLEAN,
         state' = state \/ state' = "unavailable"
  PROVE  IndInv'
<1>1. generation \in Nat \ {0}
  <2>1. lastApplied # NoEntry
    BY EntriesAssumption DEF StatusIsOfTheRecord
  <2>. QED
    BY <2>1 DEF PingsInv, TypeOK
<1>2. /\ pings' \in SUBSET Ping /\ pinging' \in Nat
      /\ \A p \in pings' : p \in pings \/ p.gen = generation
      /\ pings \subseteq pings'
      /\ \E p \in pings' : p.gen = generation
      /\ (\E p \in pings' : p.gen = pinging') \/ pinging' = 0
  BY <1>1, SendPingEffect
<1>3. /\ UnderWay(generation)'
      /\ pinging' # 0 => UnderWay(pinging)'
      /\ awaiting' # 0 => UnderWay(awaiting)'
  BY <1>2 DEF UnderWay, TypeOK, watch
<1>4. TypeOK'
  BY <1>2, <1>3 DEF TypeOK, bucket, watch
<1>5. StatusIsOfTheRecord'
  BY <1>3 DEF StatusIsOfTheRecord
<1>6. PingsInv'
  BY <1>1, <1>2 DEF PingsInv, bucket
<1>7. NoChangeIsLost' /\ WatchInv'
  BY DEF NoChangeIsLost, WatchInv, bucket, watch
<1>. QED
  BY <1>4, <1>5, <1>6, <1>7

\* What leaves the registry, the pings and the key alone.
LEMMA Untouched ==
  ASSUME IndInv, UNCHANGED <<key, awaiting, current, lastApplied, generation,
                             state, inFlight>>,
         alive' \in SUBSET Records, changes' \in 0..MaxChanges,
         opening' \in {"no", "get", "watch"}, timer' \in BOOLEAN,
         call' \in BOOLEAN, faults' \in 0..MaxFaults,
         watching' \in BOOLEAN, queue' \in Seq(Entries),
         watching' => watching /\ queue' = queue,
         opening' # "no" => ~ watching'
  PROVE  IndInv'
<1>1. TypeOK'
  <2>1. UnderWay(pinging)' <=> UnderWay(pinging)
    BY DEF inFlight, UnderWay
  <2>2. UnderWay(awaiting)' <=> UnderWay(awaiting)
    BY DEF inFlight, UnderWay
  <2>. QED
    BY <2>1, <2>2 DEF TypeOK, inFlight
<1>2. StatusIsOfTheRecord' /\ PingsInv'
  BY DEF StatusIsOfTheRecord, PingsInv, inFlight, UnderWay
<1>3. NoChangeIsLost' /\ WatchInv'
  BY DEF NoChangeIsLost, WatchInv
<1>. QED
  BY <1>1, <1>2, <1>3

-----------------------------------------------------------------------------
LEMMA NextInv == IndInv /\ [Next]_vars => IndInv'
<1>. SUFFICES ASSUME IndInv, [Next]_vars PROVE IndInv'
  OBVIOUS
<1>1. ASSUME NEW e \in Entries, Write(e) PROVE IndInv'
  BY <1>1, WriteKeeps
<1>2. ASSUME NEW r \in Records, StartOrDie(r) PROVE IndInv'
  <2>1. /\ alive' \in SUBSET Records /\ changes' \in 0..MaxChanges
        /\ UNCHANGED <<key, opening, timer, watch, registry, inFlight, call,
                       faults>>
    BY <1>2, BoundsAssumption DEF StartOrDie, Change, TypeOK
  <2>. QED
    BY <2>1, Untouched DEF TypeOK, WatchInv, watch, registry
<1>3. ASSUME NEW p \in pings, Pong(p) \/ NoPong(p) PROVE IndInv'
  <2>1. CASE Pong(p)
    <3>1. Land(p, TRUE) /\ faults' \in 0..MaxFaults
      BY <2>1 DEF Pong, TypeOK
    <3>. QED
      BY <3>1, LandKeeps
  <2>2. CASE NoPong(p)
    <3>1. Land(p, FALSE)
      BY <2>2 DEF NoPong
    <3>2. \/ faults' = faults
          \/ faults < MaxFaults /\ faults' = faults + 1
      BY <2>2 DEF NoPong, Fault
    <3>3. faults' \in 0..MaxFaults
      BY <3>2, BoundsAssumption DEF TypeOK
    <3>. QED
      BY <3>1, <3>3, LandKeeps
  <2>. QED
    BY <1>3, <2>1, <2>2
<1>4. CASE OpenGet
  <2>1. ~ watching
    BY <1>4 DEF OpenGet, WatchInv
  <2>. QED
    BY <1>4, <2>1, OpenGetKeeps
<1>5. CASE OpenWatch
  BY <1>5, OpenWatchKeeps
<1>6. CASE OpenFails
  <2>1. /\ opening' = "no" /\ timer' = TRUE /\ faults' \in 0..MaxFaults
        /\ UNCHANGED <<bucket, watch, registry, inFlight, call>>
    BY <1>6, BoundsAssumption DEF OpenFails, Fault, TypeOK
  <2>. QED
    BY <2>1, Untouched DEF TypeOK, bucket, watch, registry
<1>7. CASE Deliver
  BY <1>7, DeliverKeeps
<1>8. CASE WatchEnds
  <2>1. /\ watching' = FALSE /\ queue' = <<>> /\ faults' \in 0..MaxFaults
        /\ opening = "no"
        /\ UNCHANGED <<bucket, opening, timer, awaiting, registry, inFlight,
                       call>>
    BY <1>8, BoundsAssumption DEF WatchEnds, AfterClose, Fault, TypeOK
  <2>2. queue' \in Seq(Entries)
    BY <2>1
  <2>. QED
    BY <2>1, <2>2, Untouched DEF TypeOK, bucket, registry
<1>9. CASE Tick
  <2>1. UNCHANGED <<bucket, timer, watch, registry, answered, call, faults>>
    BY <1>9 DEF Tick
  <2>2. CASE /\ ~ watching /\ opening' = "get" /\ UNCHANGED <<pings, pinging>>
    BY <2>1, <2>2, Untouched DEF TypeOK, bucket, watch, registry, inFlight
  <2>3. CASE /\ watching /\ current # NoEntry /\ state # "incompatible"
             /\ SendPing(current, generation) /\ UNCHANGED opening
    BY <2>1, <2>3, PingAgainKeeps DEF TypeOK, registry
  <2>. QED
    BY <1>9, <2>2, <2>3 DEF Tick
<1>10. CASE NoResponders
  <2>1. /\ call' = TRUE
        /\ UNCHANGED <<bucket, opening, timer, watch, registry, inFlight, faults>>
    BY <1>10 DEF NoResponders
  <2>. QED
    BY <2>1, Untouched DEF TypeOK, WatchInv, bucket, watch, registry
<1>11. CASE MarkUnavailable
  <2>1. /\ call' = FALSE
        /\ UNCHANGED <<bucket, opening, timer, watch, current, lastApplied,
                       generation, answered, faults>>
        /\ state' = IF current # NoEntry /\ state = "available"
                      THEN "unavailable" ELSE state
    BY <1>11 DEF MarkUnavailable
  <2>2. CASE current = NoEntry
    <3>1. UNCHANGED <<pings, pinging, state>>
      BY <1>11, <2>1, <2>2 DEF MarkUnavailable
    <3>. QED
      BY <2>1, <3>1, Untouched DEF TypeOK, WatchInv, bucket, watch, inFlight
  <2>3. CASE current # NoEntry
    <3>1. SendPing(current, generation)
      BY <1>11, <2>3 DEF MarkUnavailable
    <3>. QED
      BY <2>1, <2>3, <3>1, PingAgainKeeps
  <2>. QED
    BY <2>2, <2>3
<1>12. CASE UNCHANGED vars
  BY <1>12, Untouched
     DEF vars, TypeOK, WatchInv, bucket, watch, registry, inFlight
<1>. QED
  BY <1>1, <1>2, <1>3, <1>4, <1>5, <1>6, <1>7, <1>8, <1>9, <1>10, <1>11, <1>12
     DEF Next, PingEnds

\* In every state the registry can reach, whatever the entries, the order of
\* pings and deliveries, and the errors of the bus.
THEOREM InductiveInvariant == Spec => []IndInv
<1>. QED
  BY InitInv, NextInv, PTL DEF Spec

\* Every variable keeps its type.
THEOREM TypesHold == Spec => []TypeOK
<1>1. IndInv => TypeOK
  OBVIOUS
<1>. QED
  BY <1>1, InductiveInvariant, PTL

\* The status never comes from a ping of an older record (ping(), which
\* compares the generation it started with).
THEOREM StatusHolds == Spec => []StatusIsOfTheRecord
<1>1. IndInv => StatusIsOfTheRecord
  OBVIOUS
<1>. QED
  BY <1>1, InductiveInvariant, PTL

\* No write is lost between the get and the watch of open(), nor by the watch.
THEOREM NothingLost == Spec => []NoChangeIsLost
<1>1. IndInv => NoChangeIsLost
  OBVIOUS
<1>. QED
  BY <1>1, InductiveInvariant, PTL
=============================================================================
