----------------------- MODULE CommandPipelineProofs -----------------------
(***************************************************************************)
(* Proofs about CommandPipeline for any number of commands and replicas,   *)
(* any size of the pool and any number of faults.                          *)
(***************************************************************************)
EXTENDS CommandPipeline, TLAPS

USE BoundsAssumption, CommandsAssumption

\* The part of IndInv about one command.
Story(c) ==
  /\ CallerMatchesHandler(c)
  /\ EffectMatchesStep(c)
  /\ ReplyMatchesEffect(c)
  /\ lease[c] # {"mirror", "command"}
  /\ "mirror" \in lease[c] => pc[c] = "mirrorTx"
  /\ "command" \in lease[c] =>
       pc[c] \in {"execute", "notify", "commit", "rollback", "abort"}

\* A step that leaves alone everything a story tells of command d.
Untouched(d) ==
  /\ pc'[d] = pc[d] /\ client'[d] = client[d] /\ reply'[d] = reply[d]
  /\ lease'[d] = lease[d] /\ dirty'[d] = dirty[d] /\ db'[d] = db[d]
  /\ d \in published' <=> d \in published
  /\ d \in ambiguous' <=> d \in ambiguous

-----------------------------------------------------------------------------
(* The inductive invariant.                                                *)

\* IndInv is the types and one story per command.
LEMMA Stories == IndInv <=> TypeOK /\ \A c \in Commands : Story(c)
BY DEF IndInv, Story, ConnectionsAreReturned

\* The same after a step.
LEMMA StoriesNext == IndInv' <=> TypeOK' /\ \A c \in Commands : Story(c)'
BY DEF IndInv, Story, ConnectionsAreReturned

\* The effect of a command is a set of its two parts and never empty.
LEMMA EffectType ==
  ASSUME NEW c \in Commands
  PROVE  /\ Effect(c) \in SUBSET {"write", "note"}
         /\ Effect(c) # {}
         /\ c \in Notifying => {"write"} \union {"note"} = Effect(c)
         /\ c \notin Notifying => {"write"} = Effect(c)
BY DEF Effect

\* A command a step does not touch keeps its story.
LEMMA UntouchedStory ==
  ASSUME NEW d \in Commands, Story(d), Untouched(d)
  PROVE  Story(d)'
BY DEF Story, Untouched, CallerMatchesHandler, EffectMatchesStep,
       ReplyMatchesEffect, Effect

\* What a step about one command has to show for the invariant.
LEMMA LocalStep ==
  ASSUME IndInv, NEW c \in Commands, TypeOK', Story(c)',
         \A d \in Commands \ {c} : Untouched(d)
  PROVE  IndInv'
BY Stories, StoriesNext, UntouchedStory

\* The initial states.
LEMMA InitInv == Init => IndInv
BY DEF Init, IndInv, TypeOK, Places, Running, Waiting, Answers,
       ConnectionsAreReturned, CallerMatchesHandler, EffectMatchesStep,
       ReplyMatchesEffect

\* Steps of the caller and of the bus.
LEMMA CallerStep ==
  ASSUME IndInv, NEW c \in Commands,
         Send(c) \/ Unavailable(c) \/ Lose(c) \/ Timeout(c)
  PROVE  IndInv'
<1>1. TypeOK /\ Story(c)
  BY Stories
<1>2. CASE Send(c)
  <2>1. TypeOK'
    BY <1>1, <1>2, EffectType DEF Send, TypeOK, Places, Running, Waiting,
       Answers, data, Story, EffectMatchesStep
  <2>2. Story(c)'
    BY <1>1, <1>2, EffectType DEF Send, TypeOK, data, Story,
       CallerMatchesHandler, EffectMatchesStep, ReplyMatchesEffect, Effect
  <2>3. \A d \in Commands \ {c} : Untouched(d)
    BY <1>1, <1>2 DEF Send, TypeOK, data, Untouched
  <2> QED  BY <2>1, <2>2, <2>3, LocalStep
<1>3. CASE Unavailable(c)
  <2>1. TypeOK'
    BY <1>1, <1>3, EffectType DEF Unavailable, TypeOK, Places, Running,
       Waiting, Answers, data, Story, EffectMatchesStep
  <2>2. Story(c)'
    BY <1>1, <1>3, EffectType DEF Unavailable, TypeOK, data,
       Story, CallerMatchesHandler, EffectMatchesStep, ReplyMatchesEffect,
       Effect
  <2>3. \A d \in Commands \ {c} : Untouched(d)
    BY <1>1, <1>3 DEF Unavailable, TypeOK, data, Untouched
  <2> QED  BY <2>1, <2>2, <2>3, LocalStep
<1>4. CASE Lose(c)
  <2>1. TypeOK'
    BY <1>1, <1>4, EffectType DEF Lose, TypeOK, Places, Running, Waiting,
       Answers, data, Story, EffectMatchesStep
  <2>2. Story(c)'
    BY <1>1, <1>4, EffectType DEF Lose, TypeOK, data, Story,
       CallerMatchesHandler, EffectMatchesStep, ReplyMatchesEffect, Effect
  <2>3. \A d \in Commands \ {c} : Untouched(d)
    BY <1>1, <1>4 DEF Lose, TypeOK, data, Untouched
  <2> QED  BY <2>1, <2>2, <2>3, LocalStep
<1>5. CASE Timeout(c)
  <2>1. TypeOK'
    BY <1>1, <1>5, EffectType DEF Timeout, NoReplyStatus, TypeOK, Places,
       Running, Waiting, Answers, data, Story, EffectMatchesStep
  <2>2. Story(c)'
    BY <1>1, <1>5, EffectType DEF Timeout, NoReplyStatus, TypeOK, data,
       Story, CallerMatchesHandler, EffectMatchesStep,
       ReplyMatchesEffect, Effect
  <2>3. \A d \in Commands \ {c} : Untouched(d)
    BY <1>1, <1>5 DEF Timeout, NoReplyStatus, TypeOK, data, Untouched
  <2> QED  BY <2>1, <2>2, <2>3, LocalStep
<1> QED  BY <1>2, <1>3, <1>4, <1>5

\* Steps of a handler up to the transaction of its command.
LEMMA GateStep ==
  ASSUME IndInv, NEW c \in Commands,
         Refuse(c) \/ Receive(c) \/ MirrorOpen(c) \/ MirrorOpenFails(c) \/
           MirrorClose(c) \/ Authorize(c) \/ GrantEntity(c) \/
           Open(c) \/ OpenFails(c)
  PROVE  IndInv'
<1>1. TypeOK /\ Story(c)
  BY Stories
<1>2. CASE Refuse(c)
  <2>1. TypeOK'
    BY <1>1, <1>2, EffectType DEF Refuse, Goto, Answer, TypeOK, Places,
       Running, Waiting, Answers, data, Story, EffectMatchesStep
  <2>2. Story(c)'
    BY <1>1, <1>2, EffectType DEF Refuse, Goto, Answer, TypeOK, data,
       Story, CallerMatchesHandler, EffectMatchesStep,
       ReplyMatchesEffect, Effect
  <2>3. \A d \in Commands \ {c} : Untouched(d)
    BY <1>1, <1>2 DEF Refuse, Goto, Answer, TypeOK, data, Untouched
  <2> QED  BY <2>1, <2>2, <2>3, LocalStep
<1>3. CASE Receive(c)
  <2>1. TypeOK'
    BY <1>1, <1>3, EffectType DEF Receive, Goto, TypeOK, Places, Running,
       Waiting, Answers, data, Story, EffectMatchesStep
  <2>2. Story(c)'
    BY <1>1, <1>3, EffectType DEF Receive, Goto, TypeOK, data,
       Story, CallerMatchesHandler, EffectMatchesStep, ReplyMatchesEffect,
       Effect
  <2>3. \A d \in Commands \ {c} : Untouched(d)
    BY <1>1, <1>3 DEF Receive, Goto, TypeOK, data, Untouched
  <2> QED  BY <2>1, <2>2, <2>3, LocalStep
<1>4. CASE MirrorOpen(c)
  <2>1. TypeOK'
    BY <1>1, <1>4, EffectType DEF MirrorOpen, Goto, Lease, TypeOK, Places,
       Running, Waiting, Answers, data, Story, EffectMatchesStep
  <2>2. Story(c)'
    BY <1>1, <1>4, EffectType DEF MirrorOpen, Goto, Lease, TypeOK, data,
       Story, CallerMatchesHandler, EffectMatchesStep,
       ReplyMatchesEffect, Effect
  <2>3. \A d \in Commands \ {c} : Untouched(d)
    BY <1>1, <1>4 DEF MirrorOpen, Goto, Lease, TypeOK, data,
       Untouched
  <2> QED  BY <2>1, <2>2, <2>3, LocalStep
<1>5. CASE MirrorOpenFails(c)
  <2>1. TypeOK'
    BY <1>1, <1>5, EffectType DEF MirrorOpenFails, Goto, Fault, TypeOK,
       Places, Running, Waiting, Answers, data, Story,
       EffectMatchesStep
  <2>2. Story(c)'
    BY <1>1, <1>5, EffectType DEF MirrorOpenFails, Goto, Fault, TypeOK,
       data, Story, CallerMatchesHandler, EffectMatchesStep,
       ReplyMatchesEffect, Effect
  <2>3. \A d \in Commands \ {c} : Untouched(d)
    BY <1>1, <1>5 DEF MirrorOpenFails, Goto, Fault, TypeOK, data,
       Untouched
  <2> QED  BY <2>1, <2>2, <2>3, LocalStep
<1>6. CASE MirrorClose(c)
  <2>1. TypeOK'
    BY <1>1, <1>6, EffectType DEF MirrorClose, Goto, Lease, MirrorClosed,
       TypeOK, Places, Running, Waiting, Answers, data, Story,
       EffectMatchesStep
  <2>2. Story(c)'
    BY <1>1, <1>6, EffectType DEF MirrorClose, Goto, Lease, MirrorClosed,
       TypeOK, data, Story, CallerMatchesHandler,
       EffectMatchesStep, ReplyMatchesEffect, Effect
  <2>3. \A d \in Commands \ {c} : Untouched(d)
    BY <1>1, <1>6 DEF MirrorClose, Goto, Lease, MirrorClosed, TypeOK,
       data, Untouched
  <2> QED  BY <2>1, <2>2, <2>3, LocalStep
<1>7. CASE Authorize(c)
  <2>1. TypeOK'
    BY <1>1, <1>7, EffectType DEF Authorize, Goto, TypeOK, Places,
       Running, Waiting, Answers, data, Story, EffectMatchesStep
  <2>2. Story(c)'
    BY <1>1, <1>7, EffectType DEF Authorize, Goto, TypeOK, data,
       Story, CallerMatchesHandler, EffectMatchesStep, ReplyMatchesEffect,
       Effect
  <2>3. \A d \in Commands \ {c} : Untouched(d)
    BY <1>1, <1>7 DEF Authorize, Goto, TypeOK, data, Untouched
  <2> QED  BY <2>1, <2>2, <2>3, LocalStep
<1>8. CASE GrantEntity(c)
  <2>1. TypeOK'
    BY <1>1, <1>8, EffectType DEF GrantEntity, Goto, TypeOK, Places,
       Running, Waiting, Answers, data, Story, EffectMatchesStep
  <2>2. Story(c)'
    BY <1>1, <1>8, EffectType DEF GrantEntity, Goto, TypeOK, data,
       Story, CallerMatchesHandler, EffectMatchesStep,
       ReplyMatchesEffect, Effect
  <2>3. \A d \in Commands \ {c} : Untouched(d)
    BY <1>1, <1>8 DEF GrantEntity, Goto, TypeOK, data, Untouched
  <2> QED  BY <2>1, <2>2, <2>3, LocalStep
<1>9. CASE Open(c)
  <2>1. TypeOK'
    BY <1>1, <1>9, EffectType DEF Open, Goto, Lease, TypeOK, Places,
       Running, Waiting, Answers, data, Story, EffectMatchesStep
  <2>2. Story(c)'
    BY <1>1, <1>9, EffectType DEF Open, Goto, Lease, TypeOK, data,
       Story, CallerMatchesHandler, EffectMatchesStep,
       ReplyMatchesEffect, Effect
  <2>3. \A d \in Commands \ {c} : Untouched(d)
    BY <1>1, <1>9 DEF Open, Goto, Lease, TypeOK, data, Untouched
  <2> QED  BY <2>1, <2>2, <2>3, LocalStep
<1>10. CASE OpenFails(c)
  <2>1. TypeOK'
    BY <1>1, <1>10, EffectType DEF OpenFails, Goto, Answer, Fault, TypeOK,
       Places, Running, Waiting, Answers, data, Story,
       EffectMatchesStep
  <2>2. Story(c)'
    BY <1>1, <1>10, EffectType DEF OpenFails, Goto, Answer, Fault, TypeOK,
       data, Story, CallerMatchesHandler, EffectMatchesStep,
       ReplyMatchesEffect, Effect
  <2>3. \A d \in Commands \ {c} : Untouched(d)
    BY <1>1, <1>10 DEF OpenFails, Goto, Answer, Fault, TypeOK, data,
       Untouched
  <2> QED  BY <2>1, <2>2, <2>3, LocalStep
<1> QED  BY <1>2, <1>3, <1>4, <1>5, <1>6, <1>7, <1>8, <1>9, <1>10

\* Steps of a handler that has opened the transaction.
LEMMA TransactionStep ==
  ASSUME IndInv, NEW c \in Commands,
         ExecuteSucceeds(c) \/ ExecuteRefuses(c) \/ ExecuteThrows(c) \/
           Notify(c) \/ NotifyFails(c) \/ Commit(c) \/
           CommitFails(c) \/ Rollback(c) \/ RollbackFails(c) \/
           Abort(c) \/ AbortFails(c)
  PROVE  IndInv'
<1>1. TypeOK /\ Story(c)
  BY Stories
<1>2. CASE ExecuteSucceeds(c)
  <2>1. TypeOK'
    BY <1>1, <1>2, EffectType DEF ExecuteSucceeds, Goto, Answer,
       AfterExecute, TypeOK, Places, Running, Waiting, Answers, data,
       Story, EffectMatchesStep
  <2>2. Story(c)'
    BY <1>1, <1>2, EffectType DEF ExecuteSucceeds, Goto, Answer,
       AfterExecute, TypeOK, data, Story, CallerMatchesHandler,
       EffectMatchesStep, ReplyMatchesEffect, Effect
  <2>3. \A d \in Commands \ {c} : Untouched(d)
    BY <1>1, <1>2 DEF ExecuteSucceeds, Goto, Answer, AfterExecute, TypeOK,
       data, Untouched
  <2> QED  BY <2>1, <2>2, <2>3, LocalStep
<1>3. CASE ExecuteRefuses(c)
  <2>1. TypeOK'
    BY <1>1, <1>3, EffectType DEF ExecuteRefuses, Goto, Answer, TypeOK,
       Places, Running, Waiting, Answers, data, Story,
       EffectMatchesStep
  <2>2. Story(c)'
    BY <1>1, <1>3, EffectType DEF ExecuteRefuses, Goto, Answer, TypeOK,
       data, Story, CallerMatchesHandler, EffectMatchesStep,
       ReplyMatchesEffect, Effect
  <2>3. \A d \in Commands \ {c} : Untouched(d)
    BY <1>1, <1>3 DEF ExecuteRefuses, Goto, Answer, TypeOK, data,
       Untouched
  <2> QED  BY <2>1, <2>2, <2>3, LocalStep
<1>4. CASE ExecuteThrows(c)
  <2>1. TypeOK'
    BY <1>1, <1>4, EffectType DEF ExecuteThrows, Goto, Fault, TypeOK,
       Places, Running, Waiting, Answers, data, Story,
       EffectMatchesStep
  <2>2. Story(c)'
    BY <1>1, <1>4, EffectType DEF ExecuteThrows, Goto, Fault, TypeOK,
       data, Story, CallerMatchesHandler, EffectMatchesStep,
       ReplyMatchesEffect, Effect
  <2>3. \A d \in Commands \ {c} : Untouched(d)
    BY <1>1, <1>4 DEF ExecuteThrows, Goto, Fault, TypeOK, data,
       Untouched
  <2> QED  BY <2>1, <2>2, <2>3, LocalStep
<1>5. CASE Notify(c)
  <2>1. TypeOK'
    BY <1>1, <1>5, EffectType DEF Notify, Goto, BeforeCommit, TypeOK,
       Places, Running, Waiting, Answers, data, Story,
       EffectMatchesStep
  <2>2. Story(c)'
    BY <1>1, <1>5, EffectType DEF Notify, Goto, BeforeCommit, TypeOK,
       data, Story, CallerMatchesHandler, EffectMatchesStep,
       ReplyMatchesEffect, Effect
  <2>3. \A d \in Commands \ {c} : Untouched(d)
    BY <1>1, <1>5 DEF Notify, Goto, BeforeCommit, TypeOK, data,
       Untouched
  <2> QED  BY <2>1, <2>2, <2>3, LocalStep
<1>6. CASE NotifyFails(c)
  <2>1. TypeOK'
    BY <1>1, <1>6, EffectType DEF NotifyFails, Goto, Fault,
       AfterNotifyError, TypeOK, Places, Running, Waiting, Answers, data,
       Story, EffectMatchesStep
  <2>2. Story(c)'
    BY <1>1, <1>6, EffectType DEF NotifyFails, Goto, Fault,
       AfterNotifyError, TypeOK, data, Story,
       CallerMatchesHandler, EffectMatchesStep, ReplyMatchesEffect, Effect
  <2>3. \A d \in Commands \ {c} : Untouched(d)
    BY <1>1, <1>6 DEF NotifyFails, Goto, Fault, AfterNotifyError, TypeOK,
       data, Untouched
  <2> QED  BY <2>1, <2>2, <2>3, LocalStep
<1>7. CASE Commit(c)
  <2>1. TypeOK'
    BY <1>1, <1>7, EffectType DEF Commit, Goto, Lease, AfterCommit,
       Closed, TypeOK, Places, Running, Waiting, Answers, data,
       Story, EffectMatchesStep
  <2>2. Story(c)'
    BY <1>1, <1>7, EffectType DEF Commit, Goto, Lease, AfterCommit,
       Closed, TypeOK, data, Story, CallerMatchesHandler,
       EffectMatchesStep, ReplyMatchesEffect, Effect
  <2>3. \A d \in Commands \ {c} : Untouched(d)
    BY <1>1, <1>7 DEF Commit, Goto, Lease, AfterCommit, Closed, TypeOK,
       data, Untouched
  <2> QED  BY <2>1, <2>2, <2>3, LocalStep
<1>8. CASE CommitFails(c)
  <2>1. TypeOK'
    BY <1>1, <1>8, EffectType DEF CommitFails, Goto, Lease, Fault, TypeOK,
       Places, Running, Waiting, Answers, data, Story,
       EffectMatchesStep
  <2>2. Story(c)'
    BY <1>1, <1>8, EffectType DEF CommitFails, Goto, Lease, Fault, TypeOK,
       data, Story, CallerMatchesHandler, EffectMatchesStep,
       ReplyMatchesEffect, Effect
  <2>3. \A d \in Commands \ {c} : Untouched(d)
    BY <1>1, <1>8 DEF CommitFails, Goto, Lease, Fault, TypeOK, data,
       Untouched
  <2> QED  BY <2>1, <2>2, <2>3, LocalStep
<1>9. CASE Rollback(c)
  <2>1. TypeOK'
    BY <1>1, <1>9, EffectType DEF Rollback, Goto, Lease, Closed, TypeOK,
       Places, Running, Waiting, Answers, data, Story,
       EffectMatchesStep
  <2>2. Story(c)'
    BY <1>1, <1>9, EffectType DEF Rollback, Goto, Lease, Closed, TypeOK,
       data, Story, CallerMatchesHandler, EffectMatchesStep,
       ReplyMatchesEffect, Effect
  <2>3. \A d \in Commands \ {c} : Untouched(d)
    BY <1>1, <1>9 DEF Rollback, Goto, Lease, Closed, TypeOK, data,
       Untouched
  <2> QED  BY <2>1, <2>2, <2>3, LocalStep
<1>10. CASE RollbackFails(c)
  <2>1. TypeOK'
    BY <1>1, <1>10, EffectType DEF RollbackFails, Goto, Lease, Fault,
       TypeOK, Places, Running, Waiting, Answers, data, Story,
       EffectMatchesStep
  <2>2. Story(c)'
    BY <1>1, <1>10, EffectType DEF RollbackFails, Goto, Lease, Fault,
       TypeOK, data, Story, CallerMatchesHandler,
       EffectMatchesStep, ReplyMatchesEffect, Effect
  <2>3. \A d \in Commands \ {c} : Untouched(d)
    BY <1>1, <1>10 DEF RollbackFails, Goto, Lease, Fault, TypeOK, data,
       Untouched
  <2> QED  BY <2>1, <2>2, <2>3, LocalStep
<1>11. CASE Abort(c)
  <2>1. TypeOK'
    BY <1>1, <1>11, EffectType DEF Abort, Goto, Lease, Answer, Closed,
       TypeOK, Places, Running, Waiting, Answers, data, Story,
       EffectMatchesStep
  <2>2. Story(c)'
    BY <1>1, <1>11, EffectType DEF Abort, Goto, Lease, Answer, Closed,
       TypeOK, data, Story, CallerMatchesHandler,
       EffectMatchesStep, ReplyMatchesEffect, Effect
  <2>3. \A d \in Commands \ {c} : Untouched(d)
    BY <1>1, <1>11 DEF Abort, Goto, Lease, Answer, Closed, TypeOK, data,
       Untouched
  <2> QED  BY <2>1, <2>2, <2>3, LocalStep
<1>12. CASE AbortFails(c)
  <2>1. TypeOK'
    BY <1>1, <1>12, EffectType DEF AbortFails, Goto, Lease, Answer, Fault,
       TypeOK, Places, Running, Waiting, Answers, data, Story,
       EffectMatchesStep
  <2>2. Story(c)'
    BY <1>1, <1>12, EffectType DEF AbortFails, Goto, Lease, Answer, Fault,
       TypeOK, data, Story, CallerMatchesHandler,
       EffectMatchesStep, ReplyMatchesEffect, Effect
  <2>3. \A d \in Commands \ {c} : Untouched(d)
    BY <1>1, <1>12 DEF AbortFails, Goto, Lease, Answer, Fault, TypeOK,
       data, Untouched
  <2> QED  BY <2>1, <2>2, <2>3, LocalStep
<1> QED  BY <1>2, <1>3, <1>4, <1>5, <1>6, <1>7, <1>8, <1>9, <1>10, <1>11, <1>12

\* Steps of a handler after the transaction.
LEMMA AnswerStep ==
  ASSUME IndInv, NEW c \in Commands,
         Emit(c) \/ EmitFails(c) \/ Respond(c)
  PROVE  IndInv'
<1>1. TypeOK /\ Story(c)
  BY Stories
<1>2. CASE Emit(c)
  <2>1. TypeOK'
    BY <1>1, <1>2, EffectType DEF Emit, Goto, TypeOK, Places, Running,
       Waiting, Answers, data, Story, EffectMatchesStep
  <2>2. Story(c)'
    BY <1>1, <1>2, EffectType DEF Emit, Goto, TypeOK, data,
       Story, CallerMatchesHandler, EffectMatchesStep, ReplyMatchesEffect,
       Effect
  <2>3. \A d \in Commands \ {c} : Untouched(d)
    BY <1>1, <1>2 DEF Emit, Goto, TypeOK, data, Untouched
  <2> QED  BY <2>1, <2>2, <2>3, LocalStep
<1>3. CASE EmitFails(c)
  <2>1. TypeOK'
    BY <1>1, <1>3, EffectType DEF EmitFails, Goto, AfterEmitError, TypeOK,
       Places, Running, Waiting, Answers, data, Story,
       EffectMatchesStep
  <2>2. Story(c)'
    BY <1>1, <1>3, EffectType DEF EmitFails, Goto, AfterEmitError, TypeOK,
       data, Story, CallerMatchesHandler, EffectMatchesStep,
       ReplyMatchesEffect, Effect
  <2>3. \A d \in Commands \ {c} : Untouched(d)
    BY <1>1, <1>3 DEF EmitFails, Goto, AfterEmitError, TypeOK, data,
       Untouched
  <2> QED  BY <2>1, <2>2, <2>3, LocalStep
<1>4. CASE Respond(c)
  <2>1. TypeOK'
    BY <1>1, <1>4, EffectType DEF Respond, Goto, TypeOK, Places, Running,
       Waiting, Answers, data, Story, EffectMatchesStep,
       ReplyMatchesEffect
  <2>2. Story(c)'
    BY <1>1, <1>4, EffectType DEF Respond, Goto, TypeOK, data,
       Story, CallerMatchesHandler, EffectMatchesStep, ReplyMatchesEffect,
       Effect
  <2>3. \A d \in Commands \ {c} : Untouched(d)
    BY <1>1, <1>4 DEF Respond, Goto, TypeOK, data, Untouched
  <2> QED  BY <2>1, <2>2, <2>3, LocalStep
<1> QED  BY <1>2, <1>3, <1>4

\* A request reaches a replica.
LEMMA DeliverStep ==
  ASSUME IndInv, NEW c \in Commands, NEW r \in Replicas, Deliver(c, r)
  PROVE  IndInv'
<1>1. TypeOK /\ Story(c)
  BY Stories
<1>2. TypeOK'
  BY <1>1 DEF Deliver, TypeOK, Places, Running, Waiting, Answers, data
<1>3. Story(c)'
  BY <1>1 DEF Deliver, TypeOK, data, Story, CallerMatchesHandler,
     EffectMatchesStep, ReplyMatchesEffect, Effect
<1>4. \A d \in Commands \ {c} : Untouched(d)
  BY <1>1 DEF Deliver, TypeOK, data, Untouched
<1> QED  BY <1>2, <1>3, <1>4, LocalStep

\* What the death of a process does to each of its handlers.
LEMMA DieStory ==
  ASSUME IndInv, NEW r \in Replicas, Die(r), NEW d \in Commands
  PROVE  Story(d)'
<1>1. TypeOK /\ Story(d)
  BY Stories
<1>2. PICK C \in SUBSET {c \in InFlight(r) : pc[c] = "commit"} :
        db' = [c \in Commands |-> IF c \in C THEN dirty[c] ELSE db[c]]
  BY DEF Die
<1>3. /\ client' = client /\ reply' = reply
      /\ published' = published /\ ambiguous' = ambiguous
  BY DEF Die
<1>4. CASE d \notin InFlight(r)
  <2>1. db'[d] = db[d]
    BY <1>2, <1>4
  <2>2. Untouched(d)
    BY <1>3, <1>4, <2>1 DEF Die, Untouched
  <2> QED  BY <1>1, <2>2, UntouchedStory
<1>5. CASE d \in InFlight(r)
  <2>1. pc'[d] = "dead" /\ lease'[d] = {} /\ dirty'[d] = {}
    BY <1>5 DEF Die
  <2>2. pc[d] \in Running
    BY <1>5 DEF InFlight
  <2>3. db'[d] = db[d] \/ (pc[d] = "commit" /\ db'[d] = dirty[d])
    BY <1>2
  <2>4. db'[d] \in {{}, Effect(d)} /\ (db[d] # {} => db'[d] # {})
    BY <1>1, <2>3, EffectType DEF Story, EffectMatchesStep
  <2>5. CallerMatchesHandler(d)'
    BY <1>1, <1>3, <2>1, <2>2
    DEF Story, CallerMatchesHandler, Running, Waiting
  <2>6. EffectMatchesStep(d)'
    BY <1>1, <1>3, <2>1, <2>4 DEF Story, EffectMatchesStep, Effect
  <2>7. ReplyMatchesEffect(d)'
    BY <2>1 DEF ReplyMatchesEffect
  <2> QED  BY <2>1, <2>5, <2>6, <2>7 DEF Story
<1> QED  BY <1>4, <1>5

\* The death of a process keeps the types.
LEMMA DieType ==
  ASSUME TypeOK, NEW r \in Replicas, Die(r)
  PROVE  /\ replica' \in [Replicas -> {"up", "stopping", "down"}]
         /\ client' \in [Commands -> Answers]
         /\ pc' \in [Commands -> Places]
         /\ at' \in [Commands -> Replicas \union {Nowhere}]
         /\ lease' \in [Commands -> SUBSET {"mirror", "command"}]
         /\ dirty' \in [Commands -> SUBSET {"write", "note"}]
         /\ db' \in [Commands -> SUBSET {"write", "note"}]
         /\ reply' \in [Commands -> {"none", "success", "failure"}]
         /\ published' \in SUBSET Publishing
         /\ ambiguous' \in SUBSET Commands
<1>1. PICK C \in SUBSET {c \in InFlight(r) : pc[c] = "commit"} :
        db' = [c \in Commands |-> IF c \in C THEN dirty[c] ELSE db[c]]
  BY DEF Die
<1>2. db' \in [Commands -> SUBSET {"write", "note"}]
  BY <1>1 DEF TypeOK
<1> QED  BY <1>2 DEF Die, TypeOK, Places

\* Steps of the processes.
LEMMA ProcessStep ==
  ASSUME IndInv, NEW r \in Replicas,
         Crash(r) \/ Stop(r) \/ Exit(r) \/ Restart(r)
  PROVE  IndInv'
<1>1. TypeOK /\ \A d \in Commands : Story(d)
  BY Stories
<1>2. CASE Crash(r)
  <2>1. Die(r) /\ faults' \in 0..MaxFaults
    BY <1>1, <1>2 DEF Crash, Fault, TypeOK
  <2>2. TypeOK'
    BY <1>1, <2>1, DieType DEF TypeOK
  <2> QED  BY <2>1, <2>2, DieStory, StoriesNext
<1>3. CASE Exit(r)
  <2>1. Die(r) /\ faults' \in 0..MaxFaults
    BY <1>1, <1>3 DEF Exit, InFlight, TypeOK
  <2>2. TypeOK'
    BY <1>1, <2>1, DieType DEF TypeOK
  <2> QED  BY <2>1, <2>2, DieStory, StoriesNext
<1>4. CASE Stop(r) \/ Restart(r)
  <2>1. TypeOK'
    BY <1>1, <1>4 DEF Stop, Restart, Fault, TypeOK, data
  <2>2. \A d \in Commands : Untouched(d)
    BY <1>4 DEF Stop, Restart, Untouched, data
  <2> QED  BY <1>1, <2>1, <2>2, UntouchedStory, StoriesNext
<1> QED  BY <1>2, <1>3, <1>4

\* Every step keeps the invariant.
LEMMA NextInv == IndInv /\ [Next]_vars => IndInv'
<1> SUFFICES ASSUME IndInv, [Next]_vars PROVE IndInv'
  OBVIOUS
<1>1. CASE UNCHANGED vars
  <2>1. TypeOK /\ \A d \in Commands : Story(d)
    BY Stories
  <2>2. TypeOK' /\ \A d \in Commands : Untouched(d)
    BY <1>1, <2>1 DEF vars, data, TypeOK, Untouched
  <2> QED  BY <2>1, <2>2, UntouchedStory, StoriesNext
<1>2. ASSUME NEW c \in Commands,
             Send(c) \/ Unavailable(c) \/ Lose(c) \/ Timeout(c) \/ Handle(c)
      PROVE  IndInv'
  BY <1>2, CallerStep, GateStep, TransactionStep, AnswerStep DEF Handle
<1>3. ASSUME NEW c \in Commands, NEW r \in Replicas, Deliver(c, r)
      PROVE  IndInv'
  BY <1>3, DeliverStep
<1>4. ASSUME NEW r \in Replicas,
             Crash(r) \/ Stop(r) \/ Exit(r) \/ Restart(r)
      PROVE  IndInv'
  BY <1>4, ProcessStep
<1> QED  BY <1>1, <1>2, <1>3, <1>4 DEF Next

\* The invariant holds in every reachable state.
THEOREM InvariantHolds == Spec => []IndInv
BY InitInv, NextInv, PTL DEF Spec

-----------------------------------------------------------------------------
(* The safety properties.                                                  *)

\* Every variable keeps its type, in particular no command publishes an event
\* it did not declare.
THEOREM TypeCorrect == Spec => []TypeOK
<1>1. IndInv => TypeOK
  BY DEF IndInv
<1> QED  BY <1>1, InvariantHolds, PTL

\* The writes of a command and its outbox rows are visible together or not at
\* all.
THEOREM AllOrNothingHolds == Spec => []AllOrNothing
<1>1. IndInv => AllOrNothing
  BY DEF IndInv, AllOrNothing, EffectMatchesStep
<1> QED  BY <1>1, InvariantHolds, PTL

\* Success and events are told only of commands whose effect is committed.
THEOREM SuccessDurable == Spec => []SuccessIsDurable
<1>1. IndInv => SuccessIsDurable
  BY EffectType DEF IndInv, SuccessIsDurable, CallerMatchesHandler,
     EffectMatchesStep,
     ReplyMatchesEffect
<1> QED  BY <1>1, InvariantHolds, PTL

\* A failure changed nothing, except when a COMMIT lost its acknowledgement.
THEOREM FailureHarmless == Spec => []FailureChangedNothing
<1>1. IndInv => FailureChangedNothing
  BY DEF IndInv, FailureChangedNothing, CallerMatchesHandler,
     ReplyMatchesEffect
<1> QED  BY <1>1, InvariantHolds, PTL

\* After a 503 the operation did not happen and never will.
THEOREM RetrySafe == Spec => []RetryAfter503IsSafe
<1>1. IndInv => RetryAfter503IsSafe
  BY DEF IndInv, RetryAfter503IsSafe, CallerMatchesHandler, EffectMatchesStep
<1> QED  BY <1>1, InvariantHolds, PTL

\* No handler holds two connections, and none holds one outside its
\* transaction.
THEOREM NoConnectionLeaks == Spec => []ConnectionsAreReturned
<1>1. IndInv => ConnectionsAreReturned
  BY DEF IndInv
<1> QED  BY <1>1, InvariantHolds, PTL

-----------------------------------------------------------------------------
(* The pipeline keeps the promise.                                         *)

\* The promise begins as it should.
LEMMA PromiseInit == Init => Promise!Init
BY DEF Init, Promise!Init, Told

\* A step the caller, the database and the stream do not notice.
LEMMA QuietStep ==
  ASSUME client' = client, db' = db, published' = published,
         ambiguous' = ambiguous
  PROVE  UNCHANGED Promise!vars
<1>1. \A c \in Commands : Told(c)' = Told(c)
  BY DEF Told
<1> QED  BY <1>1 DEF Promise!vars

\* A step that only tells the caller of c something changes one answer.
LEMMA ToldStep ==
  ASSUME TypeOK, NEW c \in Commands, NEW v,
         client' = [client EXCEPT ![c] = v], ambiguous' = ambiguous,
         NEW w, Told(c)' = w
  PROVE  [d \in Commands |-> Told(d)]' =
           [[d \in Commands |-> Told(d)] EXCEPT ![c] = w]
<1>1. \A d \in Commands \ {c} : Told(d)' = Told(d)
  BY DEF Told, TypeOK
<1> QED  BY <1>1

\* What the promise calls the answer, for a caller that still waits.
LEMMA ToldWaiting ==
  ASSUME IndInv, NEW c \in Commands, pc[c] \in Running
  PROVE  Told(c) \in {"waiting", "unknown"} /\ client[c] \in {"waiting", "504"}
<1>1. client[c] \in {"waiting", "504"}
  BY DEF IndInv, TypeOK, Answers, Running, Waiting, CallerMatchesHandler
<1> QED  BY <1>1 DEF Told

\* Committing the effects of a set of commands at work is one step of the
\* promise.
LEMMA ApplyStep ==
  ASSUME IndInv, NEW C \in SUBSET Commands,
         db' \in [Commands -> SUBSET {"write", "note"}],
         \A c \in C : pc[c] = "commit" /\ db'[c] = dirty[c],
         \A c \in Commands \ C : db'[c] = db[c],
         client' = client, published' = published,
         \A c \in Commands \ C : c \in ambiguous' <=> c \in ambiguous
  PROVE  Promise!Next
<1>1. \A c \in C : /\ Told(c) \in {"waiting", "unknown"}
                   /\ client[c] \in {"waiting", "504"}
  BY ToldWaiting DEF Running
<1>2. \A c \in C : db[c] = {} /\ db'[c] = Effect(c)
  BY EffectType DEF IndInv, EffectMatchesStep
<1>3. \A c \in Commands : Told(c)' = Told(c)
  BY <1>1 DEF Told
<1>4. db' = [c \in Commands |-> IF c \in C THEN Effect(c) ELSE db[c]]
  BY <1>2
<1>5. Promise!Apply(C)
  BY <1>1, <1>2, <1>3, <1>4 DEF Promise!Apply
<1> QED  BY <1>5 DEF Promise!Next

\* Steps of the caller and of the bus: asking, refusing, giving up.
LEMMA CallerKeepsPromise ==
  ASSUME IndInv, NEW c \in Commands,
         Send(c) \/ Unavailable(c) \/ Lose(c) \/ Timeout(c)
  PROVE  [Promise!Next]_(Promise!vars)
<1>1. TypeOK
  BY DEF IndInv
<1>2. CASE Send(c)
  <2>1. Told(c) = "none" /\ Told(c)' = "waiting"
    BY <1>1, <1>2 DEF Send, Told, TypeOK
  <2>2. Promise!Ask(c)
    BY <1>1, <1>2, <2>1, ToldStep DEF Send, Promise!Ask, data
  <2> QED  BY <2>2 DEF Promise!Next
<1>3. CASE Unavailable(c)
  <2>1. Told(c) = "none" /\ Told(c)' = "503"
    BY <1>1, <1>3 DEF Unavailable, Told, TypeOK
  <2>2. Promise!Refuse(c)
    BY <1>1, <1>3, <2>1, ToldStep DEF Unavailable, Promise!Refuse, data
  <2> QED  BY <2>2 DEF Promise!Next
<1>4. CASE Lose(c)
  BY <1>4, QuietStep DEF Lose, data
<1>5. CASE Timeout(c)
  <2>1. Told(c) = "waiting" /\ Told(c)' = "unknown"
    BY <1>1, <1>5 DEF Timeout, NoReplyStatus, Told, TypeOK
  <2>2. Promise!Answer(c)
    BY <1>1, <1>5, <2>1, ToldStep
    DEF Timeout, NoReplyStatus, Promise!Answer, data
  <2> QED  BY <2>2 DEF Promise!Next
<1> QED  BY <1>2, <1>3, <1>4, <1>5

\* A handler keeps the promise: only its commit, its event and its reply show.
LEMMA HandlerKeepsPromise ==
  ASSUME IndInv, NEW c \in Commands, Handle(c)
  PROVE  [Promise!Next]_(Promise!vars)
<1>1. TypeOK
  BY DEF IndInv
<1>2. CASE \/ Refuse(c) \/ Receive(c) \/ MirrorOpen(c) \/ MirrorOpenFails(c)
           \/ MirrorClose(c) \/ Authorize(c) \/ GrantEntity(c) \/ Open(c)
           \/ OpenFails(c)
  BY <1>2, QuietStep
  DEF Refuse, Receive, MirrorOpen, MirrorOpenFails, MirrorClose, Authorize,
      GrantEntity, Open, OpenFails, data
<1>3. CASE \/ ExecuteSucceeds(c) \/ ExecuteRefuses(c) \/ ExecuteThrows(c)
           \/ Notify(c) \/ NotifyFails(c) \/ Rollback(c) \/ RollbackFails(c)
           \/ Abort(c) \/ AbortFails(c)
  BY <1>3, QuietStep
  DEF ExecuteSucceeds, ExecuteRefuses, ExecuteThrows, Notify, NotifyFails,
      Rollback, RollbackFails, Abort, AbortFails, data
<1>4. CASE Commit(c)
  <2> DEFINE C == {c}
  <2>1. /\ C \in SUBSET Commands
        /\ \A d \in C : pc[d] = "commit" /\ db'[d] = dirty[d]
        /\ \A d \in Commands \ C : db'[d] = db[d]
    BY <1>1, <1>4 DEF Commit, TypeOK
  <2>a. db' \in [Commands -> SUBSET {"write", "note"}]
    BY <1>1, <1>4 DEF Commit, TypeOK
  <2> HIDE DEF C
  <2>2. client' = client /\ published' = published /\ ambiguous' = ambiguous
    BY <1>4 DEF Commit
  <2> QED  BY <2>1, <2>a, <2>2, ApplyStep
<1>5. CASE CommitFails(c)
  <2>1. client' = client /\ published' = published /\ pc[c] = "commit"
    BY <1>5 DEF CommitFails
  <2>2. CASE UNCHANGED <<db, ambiguous>>
    BY <2>1, <2>2, QuietStep
  <2>3. CASE /\ db' = [db EXCEPT ![c] = dirty[c]]
             /\ ambiguous' = ambiguous \union {c}
    <3> DEFINE C == {c}
    <3>1. /\ C \in SUBSET Commands
          /\ \A d \in C : pc[d] = "commit" /\ db'[d] = dirty[d]
          /\ \A d \in Commands \ C : db'[d] = db[d]
          /\ \A d \in Commands \ C : d \in ambiguous' <=> d \in ambiguous
      BY <1>1, <2>1, <2>3 DEF TypeOK
    <3>a. db' \in [Commands -> SUBSET {"write", "note"}]
      BY <1>1, <2>3 DEF TypeOK
    <3> HIDE DEF C
    <3> QED  BY <2>1, <3>1, <3>a, ApplyStep
  <2> QED  BY <1>5, <2>2, <2>3 DEF CommitFails
<1>6. CASE Emit(c) \/ EmitFails(c)
  <2>1. client' = client /\ db' = db /\ ambiguous' = ambiguous
    BY <1>6 DEF Emit, EmitFails, data
  <2>2. db[c] = Effect(c)
    BY <1>6 DEF Emit, EmitFails, IndInv, EffectMatchesStep
  <2>3. published' \in {published, published \union {c}}
    BY <1>6 DEF Emit, EmitFails
  <2>4. CASE published' = published
    BY <2>1, <2>4, QuietStep
  <2>5. CASE published' = published \union {c} /\ c \notin published
    <3>1. \A d \in Commands : Told(d)' = Told(d)
      BY <2>1 DEF Told
    <3>2. Promise!Announce(c)
      BY <2>1, <2>2, <2>5, <3>1 DEF Promise!Announce
    <3> QED  BY <3>2 DEF Promise!Next
  <2> QED  BY <2>3, <2>4, <2>5
<1>7. CASE Respond(c)
  <2>1. db' = db /\ published' = published /\ ambiguous' = ambiguous
    BY <1>7 DEF Respond, data
  <2>2. CASE client' = client
    BY <2>1, <2>2, QuietStep
  <2>3. CASE client[c] = "waiting" /\ client' = [client EXCEPT ![c] = reply[c]]
    <3>1. \/ reply[c] = "success" /\ db[c] = Effect(c)
          \/ reply[c] = "failure" /\ (db[c] = {} \/ c \in ambiguous)
      BY <1>7 DEF Respond, IndInv, ReplyMatchesEffect, EffectMatchesStep
    <3>2. client'[c] = reply[c] /\ Told(c) = "waiting"
      BY <1>1, <2>3 DEF TypeOK, Told
    <3>3. \/ Told(c)' = "success" /\ db[c] = Effect(c)
          \/ Told(c)' = "failure" /\ db[c] = {}
          \/ Told(c)' = "unknown"
      BY <2>1, <3>1, <3>2 DEF Told
    <3>4. [d \in Commands |-> Told(d)]' =
            [[d \in Commands |-> Told(d)] EXCEPT ![c] = Told(c)']
      BY <1>1, <2>1, <2>3, ToldStep
    <3>5. Promise!Answer(c)
      BY <2>1, <3>2, <3>3, <3>4 DEF Promise!Answer
    <3> QED  BY <3>5 DEF Promise!Next
  <2> QED  BY <1>7, <2>2, <2>3 DEF Respond
<1> QED  BY <1>2, <1>3, <1>4, <1>5, <1>6, <1>7 DEF Handle

\* A process that ends may leave COMMITs behind, and nothing else.
LEMMA ProcessKeepsPromise ==
  ASSUME IndInv, NEW r \in Replicas,
         Crash(r) \/ Stop(r) \/ Exit(r) \/ Restart(r)
  PROVE  [Promise!Next]_(Promise!vars)
<1>1. CASE Crash(r) \/ Exit(r)
  <2>1. Die(r)
    BY <1>1 DEF Crash, Exit
  <2>2. PICK C \in SUBSET {c \in InFlight(r) : pc[c] = "commit"} :
          db' = [c \in Commands |-> IF c \in C THEN dirty[c] ELSE db[c]]
    BY <2>1 DEF Die
  <2>3. /\ C \in SUBSET Commands
        /\ \A c \in C : pc[c] = "commit" /\ db'[c] = dirty[c]
        /\ \A c \in Commands \ C : db'[c] = db[c]
        /\ db' \in [Commands -> SUBSET {"write", "note"}]
    BY <2>2 DEF InFlight, IndInv, TypeOK
  <2>4. client' = client /\ published' = published /\ ambiguous' = ambiguous
    BY <2>1 DEF Die
  <2> QED  BY <2>3, <2>4, ApplyStep
<1>2. CASE Stop(r) \/ Restart(r)
  BY <1>2, QuietStep DEF Stop, Restart, data
<1> QED  BY <1>1, <1>2

\* Every step of the pipeline is a step of the promise or none.
LEMMA PromiseStep == IndInv /\ [Next]_vars => [Promise!Next]_(Promise!vars)
<1> SUFFICES ASSUME IndInv, [Next]_vars PROVE [Promise!Next]_(Promise!vars)
  OBVIOUS
<1>1. CASE UNCHANGED vars
  BY <1>1, QuietStep DEF vars, data
<1>2. ASSUME NEW c \in Commands,
             Send(c) \/ Unavailable(c) \/ Lose(c) \/ Timeout(c) \/ Handle(c)
      PROVE  [Promise!Next]_(Promise!vars)
  BY <1>2, CallerKeepsPromise, HandlerKeepsPromise
<1>3. ASSUME NEW c \in Commands, NEW r \in Replicas, Deliver(c, r)
      PROVE  [Promise!Next]_(Promise!vars)
  BY <1>3, QuietStep DEF Deliver, data
<1>4. ASSUME NEW r \in Replicas,
             Crash(r) \/ Stop(r) \/ Exit(r) \/ Restart(r)
      PROVE  [Promise!Next]_(Promise!vars)
  BY <1>4, ProcessKeepsPromise
<1> QED  BY <1>1, <1>2, <1>3, <1>4 DEF Next

\* The pipeline implements CommandPromise: what the caller is told of a command
\* is true of its effect, now and for ever.
THEOREM PromiseKept == Spec => KeepsCommandPromise
BY PromiseInit, PromiseStep, InvariantHolds, PTL
DEF Spec, KeepsCommandPromise, Promise!Spec

=============================================================================
