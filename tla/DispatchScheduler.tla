------------------------- MODULE DispatchScheduler --------------------------
(***************************************************************************)
(* What makes one process of `core` run the cycles of NotificationOutbox   *)
(* one after the other until it is told to stop                            *)
(* (core/src/notifications/dispatch/scheduler.ts, core/src/index.ts).      *)
(*                                                                         *)
(* tick() runs a cycle, reads the interval and sets a timer for the next   *)
(* tick(); stopDispatchLoop() sets a flag, clears the timer and waits for  *)
(* the cycle at work.  The functions interleave at every await.  Nothing   *)
(* in the code keeps two ticks apart but the order of these steps, so the  *)
(* model counts the ticks at each await instead of assuming one.  How long *)
(* a timer lasts does not matter here.                                     *)
(***************************************************************************)
EXTENDS Integers

VARIABLES
  phase,         \* of the process: "starting", "running" or "exited"
  stop,          \* of stopDispatchLoop(): "no", "waiting" or "resolved"
  early,         \* history: the signal came before the loop was started
  stopping,      \* the flag of the module
  timer,         \* the handle of the module: "null", "pending" or "stale"
  runningCycle,  \* the module remembers the promise of a cycle
  cycles,        \* ticks awaiting their cycle
  readers,       \* ticks awaiting the interval
  timers         \* timers that have still to fire

ticks    == <<cycles, readers, timers>>
flags    == <<stopping, timer, runningCycle>>
loopVars == <<phase, stop, early, flags, ticks>>

LoopInit ==
  /\ phase = "starting"
  /\ stop = "no" /\ early = FALSE
  /\ stopping = FALSE /\ timer = "null" /\ runningCycle = FALSE
  /\ cycles = 0 /\ readers = 0 /\ timers = 0

-----------------------------------------------------------------------------

\* tick() up to its first await.
BeginCycle ==
  /\ cycles' = cycles + 1
  /\ runningCycle' = TRUE

\* main() has connected and calls startDispatchLoop(), whatever was asked for
\* in the meantime.
Start ==
  /\ phase = "starting"
  /\ phase' = "running"
  /\ stopping' = FALSE
  /\ BeginCycle
  /\ UNCHANGED <<stop, early, timer, readers, timers>>

\* The cycle ends, well or badly: it never rejects.
CycleEnds ==
  /\ cycles > 0
  /\ cycles' = cycles - 1
  /\ runningCycle' = FALSE
  /\ readers' = IF stopping THEN readers ELSE readers + 1
  /\ UNCHANGED <<phase, stop, early, stopping, timer, timers>>

\* setTimeout(tick, seconds * 1000), and tick() returns.
Schedule ==
  /\ timer' = "pending"
  /\ timers' = timers + 1

\* Fault: the flag is not looked at again after the interval was read.
GoesOnAnyway == TRUE
\* A tick that has read the interval goes on.
Continues == ~ stopping

\* Fault: an error of the read ends the tick.
GiveUp == UNCHANGED <<timer, timers>>
\* readIntervalSeconds() rejects: try again soon.
AfterReadError == Schedule

ReadInterval ==
  /\ readers > 0
  /\ readers' = readers - 1
  /\ IF Continues
       THEN Schedule \/ AfterReadError
       ELSE UNCHANGED <<timer, timers>>
  /\ UNCHANGED <<phase, stop, early, stopping, runningCycle, cycles>>

\* The timer fires; its handle stays behind.
Fire ==
  /\ timers > 0
  /\ timers' = timers - 1
  /\ timer' = IF timer = "pending" THEN "stale" ELSE timer
  /\ BeginCycle
  /\ UNCHANGED <<phase, stop, early, stopping, readers>>

-----------------------------------------------------------------------------
\* SIGTERM or SIGINT, whose handlers are there before main() runs:
\* stopDispatchLoop().
Signal ==
  /\ phase # "exited" /\ stop = "no"
  /\ early' = (phase = "starting")
  /\ stopping' = TRUE
  /\ timers' = IF timer = "pending" THEN timers - 1 ELSE timers
  /\ timer' = "null"
  /\ stop' = IF runningCycle THEN "waiting" ELSE "resolved"
  /\ UNCHANGED <<phase, runningCycle, cycles, readers>>

\* `await runningCycle` is over: the cycle that was at work has ended.
StopResolves ==
  /\ stop = "waiting" /\ cycles = 0
  /\ stop' = "resolved"
  /\ UNCHANGED <<phase, early, flags, ticks>>

\* host.stop() is over, or has failed, and process.exit() is called; or main()
\* fails before it has started the loop.
Exit ==
  /\ phase # "exited"
  /\ phase = "starting" \/ stop = "resolved"
  /\ phase' = "exited"
  /\ cycles' = 0 /\ readers' = 0 /\ timers' = 0
  /\ UNCHANGED <<stop, early, flags>>

Running == Start \/ CycleEnds \/ ReadInterval \/ Fire \/ StopResolves

LoopNext == Running \/ Signal \/ Exit

LoopSpec == LoopInit /\ [][LoopNext]_loopVars

\* Promises and timers of a live process come to an end, and so does
\* host.stop(); nothing makes a signal come.
LoopFairSpec ==
  /\ LoopSpec
  /\ WF_loopVars(CycleEnds) /\ WF_loopVars(ReadInterval) /\ WF_loopVars(Fire)
  /\ WF_loopVars(StopResolves)
  /\ WF_loopVars(stop = "resolved" /\ Exit)

-----------------------------------------------------------------------------
\* The type of every variable.
LoopTypeOK ==
  /\ phase \in {"starting", "running", "exited"}
  /\ stop \in {"no", "waiting", "resolved"}
  /\ early \in BOOLEAN
  /\ stopping \in BOOLEAN
  /\ timer \in {"null", "pending", "stale"}
  /\ runningCycle \in BOOLEAN
  /\ cycles \in 0..1 /\ readers \in 0..1 /\ timers \in 0..1

\* Two cycles of one process never overlap, and the chain of timers never
\* breaks: while the process runs and is not told to stop, exactly one tick is
\* under way or scheduled, whatever failed before.
OneTick ==
  /\ cycles + readers + timers <= 1
  /\ phase = "running" /\ ~ stopping => cycles + readers + timers = 1

\* Once stopDispatchLoop() has resolved no cycle is at work and none will
\* start, at whatever await the signal met the tick, so that closing the process
\* cuts no batch in the middle.  A signal that comes while the process is still
\* connecting is undone by startDispatchLoop(), which resets the flag: then the
\* first cycle may be at work when process.exit() is called.
StopIsFinal ==
  stop = "resolved" /\ ~ early => cycles = 0 /\ timers = 0

\* The module's own variables tell the truth about its ticks, which is what
\* stopDispatchLoop() goes by.
FlagsAreTrue ==
  phase = "running" =>
    /\ runningCycle <=> cycles > 0
    /\ timer = "pending" <=> timers > 0

LoopInv ==
  /\ LoopTypeOK
  /\ OneTick
  /\ StopIsFinal
  /\ FlagsAreTrue
  /\ stopping => stop # "no" /\ timers = 0
  /\ stop # "no" => stopping \/ early
  /\ early => stop = "resolved"
  /\ phase # "running" => cycles + readers + timers = 0
  /\ phase = "starting" =>
       /\ timer = "null" /\ ~ runningCycle
       /\ stop # "no" => early

\* The queue is looked at again and again until the process is told to stop.
CyclesKeepComing == []<>(cycles > 0 \/ phase = "starting" \/ stop # "no"
                                    \/ phase = "exited")
=============================================================================
