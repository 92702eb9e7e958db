---------------------------- MODULE CoreProcess -----------------------------
(***************************************************************************)
(* One process of `core` from main() to process.exit(): DispatchScheduler, *)
(* and the token of the service user, with which the connection to the bus *)
(* is opened (packages/zitadel-auth/src/index.ts, core/src/bus/host.ts).   *)
(*                                                                         *)
(* The client of NATS asks for the token whenever it connects again, and   *)
(* takes what there is: currentToken() cannot wait.  So a valid one has to *)
(* be there at every moment, and startAutoRefresh() sees to it.            *)
(*                                                                         *)
(* Time passes in steps, and what the code computes from the clock is kept *)
(* as the time left.  A timer that is due fires before time goes on.  The  *)
(* model is of a deployment with a service user.                           *)
(***************************************************************************)
EXTENDS DispatchScheduler

CONSTANTS
  Margin,      \* refreshMarginSeconds
  Lifetimes,   \* `expires_in` of the tokens
  Quick,       \* how long a request may take and do no harm
  MaxLatency   \* how long it may take: fetch() gives up

\* Half of the margin, the time between two looks at the token.
RefreshEvery == Margin \div 2

ASSUME TokenAssumption ==
  /\ Margin \in Nat /\ Quick \in Nat /\ MaxLatency \in Nat
  /\ Margin \div 2 > 2 * Quick
  /\ Lifetimes \subseteq Nat /\ Lifetimes # {}
  /\ \A l \in Lifetimes : l > Margin \div 2 + 2 * Quick

VARIABLES
  left,        \* until `cached` expires, as the client of tokens thinks; 0 without one
  lag,         \* how long before it came Zitadel issued it
  inFlight,    \* whether there is a promise of a request
  requests,    \* requests of a token under way
  age,         \* of the request
  refreshing,  \* whether the interval of startAutoRefresh() is set
  due,         \* until it fires
  failed       \* history: whether the last request failed

tokenVars == <<left, lag, inFlight, requests, age, refreshing, due, failed>>
coreVars  == <<loopVars, tokenVars>>

CoreInit ==
  /\ LoopInit
  /\ left = 0 /\ lag = 0
  /\ inFlight = FALSE /\ requests = 0 /\ age = 0
  /\ refreshing = FALSE /\ due = 0
  /\ failed = FALSE

-----------------------------------------------------------------------------
\* Fault: only what has expired is renewed.
UntilItExpires == left > 0
\* token(): what is cached will do.
Current == left > Margin

\* token(): a request under way is shared.
Token ==
  IF Current \/ inFlight THEN UNCHANGED <<inFlight, requests, age>>
  ELSE inFlight' = TRUE /\ requests' = requests + 1 /\ age' = 0

\* host.start() waits for the first token.
Connect ==
  /\ phase = "starting" /\ ~ refreshing /\ requests = 0
  /\ Token
  /\ UNCHANGED <<loopVars, left, lag, refreshing, due, failed>>

\* The interval fires.
Look ==
  /\ refreshing /\ due = 0
  /\ due' = RefreshEvery
  /\ Token
  /\ UNCHANGED <<loopVars, left, lag, refreshing, failed>>

\* Fault: the promise is only forgotten when the request went well.
OnlyIfGood(ok) == ~ ok
\* What is remembered of a promise that has settled.
Settled(ok) == FALSE

\* The request ends.
Ends(ok) ==
  /\ requests > 0
  /\ requests' = requests - 1
  /\ inFlight' = Settled(ok)
  /\ age' = 0
  /\ failed' = ~ ok

\* The token, which was issued at some moment of the request, is kept, and
\* host.start() sets the interval.
FetchSucceeds ==
  /\ Ends(TRUE)
  /\ left' \in Lifetimes
  /\ lag' \in 0..age
  /\ IF phase = "starting" THEN refreshing' = TRUE /\ due' = RefreshEvery
                           ELSE UNCHANGED <<refreshing, due>>
  /\ UNCHANGED loopVars

\* Zitadel refuses, answers without a token that serves, or not at all: at the
\* start main() fails and the process ends, later one looks again.
FetchFails ==
  /\ Ends(FALSE)
  /\ IF phase = "starting" THEN Exit ELSE UNCHANGED loopVars
  /\ UNCHANGED <<left, lag, refreshing, due>>

\* Time passes.
Pass ==
  /\ phase # "exited"
  /\ refreshing => due > 0
  /\ requests > 0 => age < MaxLatency
  /\ left' = IF left = 0 THEN 0 ELSE left - 1
  /\ due' = IF refreshing THEN due - 1 ELSE due
  /\ age' = IF requests > 0 THEN age + 1 ELSE age
  /\ UNCHANGED <<loopVars, lag, inFlight, requests, refreshing, failed>>

\* host.stop() ends the interval; what is under way ends with the process.
Leave ==
  /\ Exit
  /\ refreshing' = FALSE /\ due' = 0
  /\ inFlight' = FALSE /\ requests' = 0 /\ age' = 0
  /\ UNCHANGED <<left, lag, failed>>

\* The loop is started once host.start() has returned.
StartLoop == refreshing /\ Start /\ UNCHANGED tokenVars

LoopRuns ==
  /\ CycleEnds \/ ReadInterval \/ Fire \/ StopResolves \/ Signal
  /\ UNCHANGED tokenVars

CoreNext ==
  \/ Connect \/ Look \/ FetchSucceeds \/ FetchFails \/ Pass
  \/ StartLoop \/ LoopRuns \/ Leave

CoreSpec == CoreInit /\ [][CoreNext]_coreVars

\* As in DispatchScheduler; besides, time passes, a request ends, and Zitadel
\* does not refuse for ever.
CoreFairSpec ==
  /\ CoreSpec
  /\ WF_coreVars(CycleEnds /\ UNCHANGED tokenVars)
  /\ WF_coreVars(ReadInterval /\ UNCHANGED tokenVars)
  /\ WF_coreVars(Fire /\ UNCHANGED tokenVars)
  /\ WF_coreVars(StopResolves /\ UNCHANGED tokenVars)
  /\ WF_coreVars(stop = "resolved" /\ Leave)
  /\ WF_coreVars(Look) /\ WF_coreVars(Pass)
  /\ SF_coreVars(FetchSucceeds)

-----------------------------------------------------------------------------
\* The type of the variables of the token.
CoreTypeOK ==
  /\ left \in Nat /\ lag \in 0..MaxLatency
  /\ inFlight \in BOOLEAN /\ requests \in 0..1 /\ age \in 0..MaxLatency
  /\ refreshing \in BOOLEAN /\ due \in 0..RefreshEvery
  /\ failed \in BOOLEAN

\* token() tells the truth about the request under way: never two at a time,
\* of which the late one could replace the newer token, and never the promise
\* of one that is over.
OneRequest == requests <= 1 /\ (inFlight <=> requests = 1)

\* Whether the token that is cached is good for a connection.
Valid == left > lag

\* Requests that fail or take long are not what the margin is for.
Trouble == failed \/ age > Quick \/ lag > Quick

\* "A mitad del margen: siempre se renueva con holgura antes del vencimiento":
\* from the start to the end of the process currentToken() is a token that NATS
\* accepts, although its expiry is counted from its arrival and one only looks
\* now and then, unless requests fail or are slow.
TokenIsValid == refreshing => Valid \/ Trouble

\* Why it is: while nothing is amiss, what is left when one looks covers a
\* request, and what is left between two looks the time until the next.
CoreInv ==
  /\ CoreTypeOK
  /\ OneRequest
  /\ requests = 0 => age = 0
  /\ refreshing /\ ~ Trouble =>
       IF requests = 0 THEN left > due + 2 * Quick ELSE left + age > 2 * Quick

\* A token that has expired, because of requests that failed, is replaced: no
\* failure is remembered for ever.
TokenRecovers == refreshing /\ ~ Valid ~> Valid \/ stop # "no" \/ phase = "exited"

=============================================================================
