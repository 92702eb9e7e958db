---------------------------- MODULE TimeCommands ----------------------------
(***************************************************************************)
(* The commands of core/src/commands/times: worked-times.new,              *)
(* unworked-times.new, the deletion of either, and the replacement of a    *)
(* week of assignments.  What they have in common is that each reads a set *)
(* of rows, decides, and writes, in a READ COMMITTED transaction of its    *)
(* own, while others do the same.                                          *)
(*                                                                         *)
(* A query sees what is committed when it starts.  An INSERT waits for     *)
(* nobody.  A DELETE waits for the transactions that are deleting a row it *)
(* has seen, and then deletes those that are left: not rows that were      *)
(* committed while it waited.                                              *)
(*                                                                         *)
(* Abstractions.  One person, one day and one week: rows of others never   *)
(* meet in a query.  A row is known by the transaction that inserted it.   *)
(* The checks on references, on who acts and on the date read what this    *)
(* state does not have, and are a refusal that may happen or not.          *)
(***************************************************************************)
EXTENDS Integers, FiniteSets

CONSTANTS
  Txs,        \* the transactions
  Minutes,    \* minutes a record may have
  Limit,      \* DAILY_LIMIT_MINUTES
  Cells       \* a project and a person of the grid of the week

ASSUME TxsAssumption == IsFiniteSet(Txs)
ASSUME MinutesAssumption == Minutes \subseteq Nat \ {0} /\ Limit \in Nat

VARIABLES
  rows,    \* the committed rows of the three tables
  pc,      \* where each transaction stands
  job,     \* the command it runs
  sum,     \* what its sums have returned
  seen,    \* the rows its DELETE has found
  locked,  \* the rows it has deleted, until it ends
  answer,  \* what it has answered
  before   \* history: the transactions that had ended when it began

vars == <<rows, pc, job, sum, seen, locked, answer, before>>

Tables == {"worked", "unworked", "week"}

\* A grid has the minutes of each cell, 0 where it is empty.
Job == [cmd : {"work", "absence"}, minutes : Minutes]
         \union [cmd : {"delete"}, table : {"worked", "unworked"}, id : Txs]
         \union [cmd : {"replace"}, grid : [Cells -> {0} \union Minutes]]

DayRow  == [table : {"worked", "unworked"}, by : Txs, minutes : Minutes]
WeekRow == [table : {"week"}, by : Txs, cell : Cells, minutes : Minutes]

In(table) == {r \in rows : r.table = table}

\* The sum of the minutes of rows: how many minutes they have, each of them a
\* pair of its row and a number.
Marks(S) == UNION {{r} \X (1..r.minutes) : r \in S}

MinutesOf(S) == Cardinality(Marks(S))

Init ==
  /\ rows = {}
  /\ pc = [t \in Txs |-> "idle"]
  /\ job \in [Txs -> Job]
  /\ sum = [t \in Txs |-> 0]
  /\ seen = [t \in Txs |-> {}] /\ locked = [t \in Txs |-> {}]
  /\ answer = [t \in Txs |-> "none"]
  /\ before = [t \in Txs |-> {}]

-----------------------------------------------------------------------------
Goes(t, from, to) == pc[t] = from /\ pc' = [pc EXCEPT ![t] = to]

Is(t, cmds) == job[t].cmd \in cmds

Begin(t) ==
  /\ Goes(t, "idle", "begun")
  /\ before' = [before EXCEPT ![t] = {u \in Txs : pc[u] = "done"}]
  /\ UNCHANGED <<rows, job, sum, seen, locked, answer>>

\* The transaction ends and gives back its locks.
Finish(t, a) ==
  /\ pc' = [pc EXCEPT ![t] = "done"]
  /\ locked' = [locked EXCEPT ![t] = {}]
  /\ answer' = [answer EXCEPT ![t] = a]
  /\ UNCHANGED <<job, sum, seen, before>>

\* A reference that does not exist, somebody else's record, a date out of the
\* window, a past week.
Refuse(t) == pc[t] = "begun" /\ Finish(t, "refused") /\ UNCHANGED rows

\* An error, or the end of the process.
RollBack(t) ==
  /\ pc[t] \notin {"idle", "done"}
  /\ Finish(t, "failed") /\ UNCHANGED rows

-----------------------------------------------------------------------------
(* worked-times.new and unworked-times.new.                                *)

\* The sum of the worked minutes of the day; absences sum their own as well,
\* in a query of its own.
SumWorked(t) ==
  /\ Is(t, {"work", "absence"})
  /\ Goes(t, "begun", IF Is(t, {"work"}) THEN "summed" ELSE "half")
  /\ sum' = [sum EXCEPT ![t] = MinutesOf(In("worked"))]
  /\ UNCHANGED <<rows, job, seen, locked, answer, before>>

\* Fault: an absence is checked against the worked minutes alone.
NothingMore(t) == sum[t]
WithUnworked(t) == sum[t] + MinutesOf(In("unworked"))

SumUnworked(t) ==
  /\ Goes(t, "half", "summed")
  /\ sum' = [sum EXCEPT ![t] = WithUnworked(t)]
  /\ UNCHANGED <<rows, job, seen, locked, answer, before>>

\* Fault: what is there is checked, not what there would be.
HasRoom(t) == sum[t] < Limit
Fits(t) == sum[t] + job[t].minutes <= Limit

Create(t) ==
  /\ Goes(t, "summed", "written") /\ Fits(t)
  /\ UNCHANGED <<rows, job, sum, seen, locked, answer, before>>

DailyLimitExceeded(t) ==
  /\ pc[t] = "summed" /\ ~ Fits(t)
  /\ Finish(t, "refused") /\ UNCHANGED rows

-----------------------------------------------------------------------------
(* Deletions, and the replacement of a week.                               *)

\* Fault: a deletion takes the rows of the day.
MatchedDay(t) ==
  In(IF Is(t, {"delete"}) THEN job[t].table ELSE "week")
\* Fault: a replacement only takes the cells it fills.
MatchedCells(t) ==
  IF Is(t, {"delete"}) THEN {r \in In(job[t].table) : r.by = job[t].id}
  ELSE {r \in In("week") : job[t].grid[r.cell] # 0}
\* The rows the DELETE is about.
Matched(t) ==
  IF Is(t, {"delete"}) THEN {r \in In(job[t].table) : r.by = job[t].id}
                       ELSE In("week")

Match(t) ==
  /\ Is(t, {"delete", "replace"})
  /\ Is(t, {"delete"}) => Matched(t) # {}
  /\ Goes(t, "begun", "deleting")
  /\ seen' = [seen EXCEPT ![t] = Matched(t)]
  /\ UNCHANGED <<rows, job, sum, locked, answer, before>>

NotFound(t) ==
  /\ pc[t] = "begun" /\ Is(t, {"delete"}) /\ Matched(t) = {}
  /\ Finish(t, "refused") /\ UNCHANGED rows

\* destroy(): nobody asks how many rows it deleted.
Destroy(t) ==
  /\ \A u \in Txs \ {t} : locked[u] \intersect seen[t] = {}
  /\ Goes(t, "deleting", "written")
  /\ locked' = [locked EXCEPT ![t] = seen[t] \intersect rows]
  /\ UNCHANGED <<rows, job, sum, seen, answer, before>>

\* An empty cell of the grid is not a row.
Filled(grid) == {c \in Cells : grid[c] # 0}

\* The rows of the INSERT.
Inserted(t) ==
  CASE Is(t, {"work"}) ->
         {[table |-> "worked", by |-> t, minutes |-> job[t].minutes]}
    [] Is(t, {"absence"}) ->
         {[table |-> "unworked", by |-> t, minutes |-> job[t].minutes]}
    [] Is(t, {"delete"}) -> {}
    [] Is(t, {"replace"}) ->
         {[table |-> "week", by |-> t, cell |-> c, minutes |-> job[t].grid[c]]
            : c \in Filled(job[t].grid)}

Commit(t) ==
  /\ pc[t] = "written"
  /\ rows' = (rows \ locked[t]) \union Inserted(t)
  /\ Finish(t, "success")

Next ==
  \E t \in Txs :
    \/ Begin(t) \/ Refuse(t) \/ RollBack(t) \/ Commit(t)
    \/ SumWorked(t) \/ SumUnworked(t) \/ Create(t) \/ DailyLimitExceeded(t)
    \/ Match(t) \/ NotFound(t) \/ Destroy(t)

Spec == Init /\ [][Next]_vars

-----------------------------------------------------------------------------
\* The type of every variable.
TypeOK ==
  /\ rows \subseteq DayRow \union WeekRow
  /\ pc \in [Txs -> {"idle", "begun", "half", "summed", "deleting", "written",
                     "done"}]
  /\ job \in [Txs -> Job]
  /\ sum \in [Txs -> Nat]
  /\ seen \in [Txs -> SUBSET (DayRow \union WeekRow)]
  /\ locked \in [Txs -> SUBSET (DayRow \union WeekRow)]
  /\ answer \in [Txs -> {"none", "refused", "failed", "success"}]
  /\ before \in [Txs -> SUBSET Txs]

\* Neither had ended when the other began.
Overlap(t, u) == t \notin before[u] /\ u \notin before[t]

\* Rows of which no two were written by transactions that overlapped.
Sequential(S) == \A r, q \in S : r.by # q.by => ~ Overlap(r.by, q.by)

\* "Tope de 24 horas por persona y dia", to the extent that the code keeps it:
\* only records whose transactions overlapped may exceed it together, whatever
\* was deleted and rolled back in between.
DayHasLimit ==
  \A S \in SUBSET In("worked") : Sequential(S) => MinutesOf(S) <= Limit

\* "El tope diario suma horas trabajadas Y no trabajadas": an absence and the
\* records there were before it do not exceed it together.
AbsenceHasLimit ==
  \A a \in In("unworked") :
    MinutesOf({r \in In("worked") \union In("unworked") :
                 r.by \in before[a.by]}) + a.minutes <= Limit

\* "Una semana a medio reemplazar es estructuralmente imposible": the rows of a
\* replacement are in the week all together or not at all, and the week has
\* rows of two replacements only if these overlapped.
WeekIsOneReplacement ==
  /\ \A r \in In("week") : Inserted(r.by) \subseteq rows
  /\ \A r, q \in In("week") : r.by # q.by => Overlap(r.by, q.by)

\* What makes this inductive: rows that are there or were seen come from
\* transactions that ended; nobody is remembered who has not ended; two
\* transactions never delete the same row; and a replacement has seen, and later
\* deletes, every row of the replacements that ended before it, with all the
\* rows of each.
Ended == {t \in Txs : pc[t] = "done"}
Deleting(t) == {r \in rows : IF pc[t] = "deleting" THEN r \in seen[t]
                                                  ELSE r \in locked[t]}

WeekInv ==
  /\ \A r \in rows : r.by \in Ended /\ r \in Inserted(r.by)
  /\ \A t \in Txs : /\ before[t] \subseteq Ended /\ (pc[t] = "idle" => before[t] = {})
                    /\ locked[t] \subseteq rows
                    /\ pc[t] # "written" => locked[t] = {}
                    /\ \A r \in seen[t] : r.by \in Ended
                    /\ pc[t] \in {"half", "summed"} => Is(t, {"work", "absence"})
  /\ \A t \in Txs : \A u \in Txs \ {t} : locked[t] \intersect locked[u] = {}
  /\ \A t \in Txs : pc[t] \in {"deleting", "written"} =>
       \A r \in In("week") :
         /\ Is(t, {"replace"}) /\ r.by \in before[t] => r \in Deleting(t)
         /\ r \in Deleting(t) => Inserted(r.by) \subseteq Deleting(t)

\* A success lasts: what was inserted is there unless a deletion of it, or a
\* replacement that had not ended before, succeeded too; what was deleted is
\* not, although two deletions of one row both succeed.
SuccessLasts ==
  \A t \in Txs : answer[t] = "success" =>
    /\ Is(t, {"work", "absence"}) =>
         \/ Inserted(t) \subseteq rows
         \/ \E u \in Txs : /\ answer[u] = "success" /\ Is(u, {"delete"})
                           /\ job[u].id = t
    /\ Is(t, {"delete"}) =>
         \A r \in In(job[t].table) : r.by # job[t].id
    /\ Is(t, {"replace"}) =>
         \/ Inserted(t) \subseteq rows
         \/ \E u \in Txs \ (before[t] \union {t}) :
              answer[u] = "success" /\ Is(u, {"replace"})
=============================================================================
