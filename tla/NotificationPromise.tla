------------------------ MODULE NotificationPromise ------------------------
(***************************************************************************)
(* What the outbox promises to the commands that enqueue notifications,    *)
(* without replicas, batches, transactions or locks: at-least-once         *)
(* delivery with a bounded patience.  A queued notification may be         *)
(* delivered any number of times while it is queued; it is settled as sent *)
(* only if a copy was delivered, and as discarded only after failures.     *)
(* Once it is settled only a stray may still arrive: a send, begun while   *)
(* it was queued, that nobody keeps account of any more.                   *)
(***************************************************************************)
EXTENDS Naturals

CONSTANTS Notifications, Patience

VARIABLES
  state,    \* "absent", "queued", "sent" or "discarded"
  copies,   \* copies of each notification handed to the mail server
  setbacks, \* sends of each notification that failed
  strays    \* sends of each notification out of reach, not resolved yet

pvars == <<state, copies, setbacks, strays>>

PInit ==
  /\ state = [n \in Notifications |-> "absent"]
  /\ copies = [n \in Notifications |-> 0]
  /\ setbacks = [n \in Notifications |-> 0]
  /\ strays = [n \in Notifications |-> 0]

Request(n) ==
  /\ state[n] = "absent"
  /\ state' = [state EXCEPT ![n] = "queued"]
  /\ UNCHANGED <<copies, setbacks, strays>>

\* A send leaves a copy, a failure, or both (the answer was lost).
Resolve(n, copied, failed) ==
  /\ copied + failed > 0
  /\ copies' = [copies EXCEPT ![n] = @ + copied]
  /\ setbacks' = [setbacks EXCEPT ![n] = @ + failed]
  /\ UNCHANGED state

Attempt(n, copied, failed) ==
  /\ state[n] = "queued"
  /\ Resolve(n, copied, failed)
  /\ UNCHANGED strays

\* A send gets out of reach, and later resolves or is never heard of again,
\* whatever has become of its notification.
Stray(n) ==
  /\ state[n] = "queued"
  /\ strays' = [strays EXCEPT ![n] = @ + 1]
  /\ UNCHANGED <<state, copies, setbacks>>

Arrive(n, copied, failed) ==
  /\ strays[n] > 0
  /\ strays' = [strays EXCEPT ![n] = @ - 1]
  /\ Resolve(n, copied, failed)

Vanish(n) ==
  /\ strays[n] > 0
  /\ strays' = [strays EXCEPT ![n] = @ - 1]
  /\ UNCHANGED <<state, copies, setbacks>>

\* A batch settles several notifications at once.
Settle(sent, discarded) ==
  /\ sent \cap discarded = {}
  /\ \A n \in sent : state[n] = "queued" /\ copies[n] > 0
  /\ \A n \in discarded :
       /\ state[n] = "queued"
       /\ \E limit \in Patience : setbacks[n] >= limit
  /\ state' = [n \in Notifications |->
                 IF n \in sent THEN "sent"
                 ELSE IF n \in discarded THEN "discarded" ELSE state[n]]
  /\ UNCHANGED <<copies, setbacks, strays>>

PNext ==
  \/ \E n \in Notifications : Request(n) \/ Stray(n) \/ Vanish(n)
  \/ \E n \in Notifications, copied, failed \in {0, 1} :
       Attempt(n, copied, failed) \/ Arrive(n, copied, failed)
  \/ \E sent, discarded \in SUBSET Notifications : Settle(sent, discarded)

PSpec == PInit /\ [][PNext]_pvars
=============================================================================
