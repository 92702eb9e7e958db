--------------------------- MODULE CommandPromise ---------------------------
(***************************************************************************)
(* What a caller of a command may rely on, whatever happens in between     *)
(* (core/src/bus/dispatcher.ts and api/lib/utils/bus/send-command.ts): the *)
(* effect of a command happens at most once and as a whole, and the answer *)
(* says what became of it.                                                 *)
(*                                                                         *)
(*   "success"  the effect is there                                        *)
(*   "failure"  the effect is not there and never will be                  *)
(*   "503"      the same, and the command never started                    *)
(*   "unknown"  either; an effect may still come                           *)
(***************************************************************************)
CONSTANTS
  Commands,
  Whole       \* the parts the effect of each command consists of

VARIABLES
  answer,     \* what the caller of each command has been told
  effect,     \* the parts of each effect that are in the database
  announced   \* the commands whose domain event was published

vars == <<answer, effect, announced>>

Init ==
  /\ answer = [c \in Commands |-> "none"]
  /\ effect = [c \in Commands |-> {}]
  /\ announced = {}

Ask(c) ==
  /\ answer[c] = "none"
  /\ answer' = [answer EXCEPT ![c] = "waiting"]
  /\ UNCHANGED <<effect, announced>>

\* All the parts of an effect appear at one instant, or none of them ever.
Apply(C) ==
  /\ \A c \in C : answer[c] \in {"waiting", "unknown"} /\ effect[c] = {}
  /\ effect' = [c \in Commands |-> IF c \in C THEN Whole[c] ELSE effect[c]]
  /\ UNCHANGED <<answer, announced>>

Announce(c) ==
  /\ effect[c] = Whole[c] /\ c \notin announced
  /\ announced' = announced \union {c}
  /\ UNCHANGED <<answer, effect>>

Refuse(c) ==
  /\ answer[c] = "none"
  /\ answer' = [answer EXCEPT ![c] = "503"]
  /\ UNCHANGED <<effect, announced>>

Answer(c) ==
  /\ answer[c] = "waiting"
  /\ \/ effect[c] = Whole[c] /\ answer' = [answer EXCEPT ![c] = "success"]
     \/ effect[c] = {}       /\ answer' = [answer EXCEPT ![c] = "failure"]
     \/ answer' = [answer EXCEPT ![c] = "unknown"]
  /\ UNCHANGED <<effect, announced>>

Next ==
  \/ \E C \in SUBSET Commands : Apply(C)
  \/ \E c \in Commands : Ask(c) \/ Announce(c) \/ Refuse(c) \/ Answer(c)

Spec == Init /\ [][Next]_vars
=============================================================================
