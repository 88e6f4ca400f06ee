-------------------------- MODULE SchedulesProofs ---------------------------
(***************************************************************************)
(* Proofs about the cron leader (Schedules), for any schedules, history of *)
(* the default branch, replicas, clock and failures: type correctness,     *)
(* that a slot makes at most one Run, and that a reused check is of a head *)
(* no older than one unit of time.                                         *)
(***************************************************************************)
EXTENDS Schedules, WellFoundedInduction, TLAPS

-----------------------------------------------------------------------------
(* The inductive invariant.                                                *)

TaskPCs == {"idle", "begin", "head", "index", "rows", "fire", "dispatch", "advance", "miss"}
Entries == [next : Slots \cup {Never}, sha : 1 .. MaxHead]
Rows == [cron : Crons, next : Slots \cup {Never}, sha : 1 .. MaxHead]
Checks == [at : Nat, sha : 0 .. MaxHead]
Tasks == [pc : TaskPCs, now : Nat, rows : SUBSET Rows, sha : 0 .. MaxHead, todo : SUBSET Slots]
Loops == [checked : Checks, term : Nat, waits : SUBSET {"retry", "backoff"}]
Leads == [owner : Servers \cup {0}, term : Nat, live : BOOLEAN]

\* The rows of the index and what is copied from them; a term needs a lapse of
\* the one before.
StateTyped ==
  /\ clock \in 0 .. MaxClock /\ head \in 0 .. MaxHead /\ hitches \in 0 .. MaxHitches
  /\ index \in [Crons -> Entries \cup {NoEntry}] /\ claims \subseteq Slots /\ made \in [Slots -> Nat]
  /\ lead \in Leads /\ lead.term <= hitches + 1 /\ (~lead.live => lead.term <= hitches)
  /\ push \in [1 .. MaxHead -> {"none", "arrived", "write"}]
  /\ loop \in [Servers -> Loops] /\ was \in (0 .. MaxHead) \X (0 .. MaxHead)

\* What the fields of a task are good for where it stands, at some time.
GoodTask(t, time) ==
  /\ t \in Tasks /\ t.now <= time
  /\ t.pc = "begin" => t.rows # {}
  /\ t.pc \in {"index", "rows", "fire", "dispatch", "advance"} => t.sha > 0
  /\ t.pc \in {"dispatch", "advance"} => t.todo # {}

\* The slot of a Run was claimed; one that is about to be dispatched was claimed
\* by this replica, has no Run, and no other replica is about to dispatch it.
Dispatching(r) == task[r].pc = "dispatch"
ClaimInv ==
  /\ \A m \in Slots : made[m] <= 1 /\ (made[m] > 0 => m \in claims)
  /\ \A r \in Servers : Dispatching(r) => Slot(r) \in claims /\ made[Slot(r)] = 0
  /\ \A r, s \in Servers : Dispatching(r) /\ Dispatching(s) /\ r # s => Slot(r) # Slot(s)

\* A commit read from the forge after the time `at` is not behind the heads of
\* the units since.
Seen(at, sha) ==
  /\ at <= clock
  /\ clock = at => sha >= was[1] /\ sha >= was[2]
  /\ clock = at + 1 => sha >= was[2]

\* The default branch only advances, until the repo is unbound; what was read
\* of it was seen then.
HeadInv ==
  /\ head # 0 => head >= was[1] /\ was[1] >= was[2]
  /\ was[1] # 0 => was[1] >= was[2]
  /\ \A r \in Servers : loop[r].checked # NoCheck => Seen(loop[r].checked.at, loop[r].checked.sha)
  /\ \A r \in Servers : task[r].pc \in {"index", "rows"} => Seen(task[r].now, task[r].sha)

TasksTyped == task \in [Servers -> Tasks] /\ \A r \in Servers : GoodTask(task[r], clock)
TypeInv == StateTyped /\ TasksTyped
SchedulesInv == TypeInv /\ ClaimInv /\ HeadInv

-----------------------------------------------------------------------------
(* The operators.                                                          *)

\* A set of numbers that is not empty has its least.
LEMMA MinIsIn == ASSUME NEW S, S \subseteq Nat, S # {} PROVE Min(S) \in S /\ \A y \in S : Min(S) <= y
<1>1. PICK x \in S : \A y \in S : ~(<<y, x>> \in OpToRel(<, Nat))
  BY NatLessThanWellFounded, WFMin
<1>2. \A y \in S : ~(y < x) BY <1>1 DEF OpToRel
<1>3. \A y \in S : x =< y BY <1>2, SMT
<1>4. QED BY <1>3 DEF Min

\* Slots are times.
LEMMA SlotsAreTimes == Slots \subseteq Nat
  BY SchedulesAssumption DEF Slots

\* `next_after` names a slot, or none.
LEMMA NextAfterTyped == ASSUME NEW c \in Crons, NEW t PROVE NextAfter(c, t) \in Slots \cup {Never}
<1> DEFINE later == {m \in Minutes[c] : m > t}
<1>1. later \subseteq Nat /\ later \subseteq Slots BY SchedulesAssumption DEF Slots
<1>2. later # {} => Min(later) \in later BY <1>1, MinIsIn
<1>3. QED BY <1>1, <1>2 DEF NextAfter

\* What is read of the index is a row.
LEMMA RowTyped ==
  ASSUME index \in [Crons -> Entries \cup {NoEntry}], NEW c \in Indexed
  PROVE  RowOf(c) \in Rows
  BY DEF Indexed, RowOf, Rows, Entries

\* Rewriting the index for a commit leaves an index.
LEMMA ReplacedTyped ==
  ASSUME index \in [Crons -> Entries \cup {NoEntry}], NEW h \in 1 .. MaxHead, NEW now
  PROVE  Replaced(h, now) \in [Crons -> Entries \cup {NoEntry}]
<1> DEFINE e(c) == IF c \notin Declares[h] THEN NoEntry
                   ELSE IF c \in Indexed THEN [index[c] EXCEPT !.sha = h]
                   ELSE [next |-> NextAfter(c, now), sha |-> h]
<1>1. ASSUME NEW c \in Crons PROVE e(c) \in Entries \cup {NoEntry}
  <2>1. CASE c \notin Declares[h] BY <2>1
  <2>2. CASE c \in Declares[h] /\ c \in Indexed
    <3>1. index[c] \in Entries BY <2>2 DEF Indexed
    <3>2. QED BY <2>2, <3>1 DEF Entries
  <2>3. CASE c \in Declares[h] /\ c \notin Indexed
    BY <2>3, NextAfterTyped DEF Entries
  <2>4. QED BY <2>1, <2>2, <2>3
<1>2. QED BY <1>1 DEF Replaced

\* Moving rows on leaves an index.
LEMMA AdvancedTyped ==
  ASSUME index \in [Crons -> Entries \cup {NoEntry}], NEW rows, NEW now
  PROVE  Advanced(rows, now) \in [Crons -> Entries \cup {NoEntry}]
<1> DEFINE e(c) == IF \E w \in rows : w.cron = c /\ c \in Indexed /\ index[c].next = w.next
                   THEN [index[c] EXCEPT !.next = NextAfter(c, Max({now, @}))] ELSE index[c]
<1>1. ASSUME NEW c \in Crons PROVE e(c) \in Entries \cup {NoEntry}
  <2>1. CASE \E w \in rows : w.cron = c /\ c \in Indexed /\ index[c].next = w.next
    <3>1. index[c] \in Entries BY <2>1 DEF Indexed
    <3>2. NextAfter(c, Max({now, index[c].next})) \in Slots \cup {Never} BY NextAfterTyped
    <3>3. QED BY <2>1, <3>1, <3>2 DEF Entries
  <2>2. CASE ~(\E w \in rows : w.cron = c /\ c \in Indexed /\ index[c].next = w.next) BY <2>2
  <2>3. QED BY <2>1, <2>2
<1>2. QED BY <1>1 DEF Advanced

\* The slot that a task fires is one it has to do.
LEMMA SlotTyped ==
  ASSUME TypeInv, NEW r \in Servers, task[r].todo # {}
  PROVE  Slot(r) \in task[r].todo /\ Slot(r) \in Slots
<1>1. task[r].todo \subseteq Slots BY DEF TypeInv, TasksTyped, Tasks
<1>2. QED BY <1>1, SlotsAreTimes, MinIsIn DEF Slot

\* A row whose slot has come, or has passed, has one.
LEMMA ComeTyped ==
  ASSUME NEW w \in Rows, NEW t \in 0 .. MaxClock, w.next <= t PROVE w.next \in Slots
  BY SchedulesAssumption DEF Rows, Never
-----------------------------------------------------------------------------
(* Type correctness.                                                       *)

Becomes(r, t) == task' = [task EXCEPT ![r] = t]

\* One task moves, where it is good.
LEMMA TaskMoves ==
  ASSUME TasksTyped, NEW r \in Servers, NEW t, Becomes(r, t),
         GoodTask(t, clock'), clock' >= clock, clock \in Nat, clock' \in Nat
  PROVE  TasksTyped'
<1>1. task' \in [Servers -> Tasks] BY DEF TasksTyped, Becomes, GoodTask
<1>2. ASSUME NEW s \in Servers PROVE GoodTask(task'[s], clock')
  <2>1. CASE s = r
    <3>1. task'[s] = t BY <2>1 DEF TasksTyped, Becomes
    <3>2. QED BY <3>1 DEF GoodTask
  <2>2. CASE s # r
    <3>1. task'[s] = task[s] /\ task[s] \in Tasks BY <2>2 DEF TasksTyped, Becomes
    <3>2. task[s].now \in Nat BY <3>1 DEF Tasks
    <3>3. QED BY <3>1, <3>2 DEF GoodTask, TasksTyped
  <2>3. QED BY <2>1, <2>2
<1>3. QED BY <1>1, <1>2 DEF TasksTyped

\* No task moves.
LEMMA TasksStay ==
  ASSUME TasksTyped, UNCHANGED task, clock' >= clock, clock \in Nat, clock' \in Nat
  PROVE  TasksTyped'
<1>1. ASSUME NEW s \in Servers PROVE GoodTask(task'[s], clock')
  <2>1. task[s].now \in Nat BY DEF TasksTyped, Tasks
  <2>2. QED BY <2>1 DEF GoodTask, TasksTyped
<1>2. QED BY <1>1 DEF TasksTyped

\* A task ended is good.
LEMMA NoTaskGood == NoTask \in Tasks /\ \A k \in Nat : GoodTask(NoTask, k)
<1>1. NoTask \in Tasks BY SchedulesAssumption DEF NoTask, Tasks, TaskPCs
<1>2. QED BY <1>1 DEF NoTask, GoodTask

\* The rows that have come make a task that fires.
LEMMA FireRowsTyped ==
  ASSUME TypeInv, NEW r \in Servers, NEW sha \in 1 .. MaxHead, NEW rows, rows \subseteq Rows,
         UNCHANGED clock, FireRows(r, sha, rows)
  PROVE  TasksTyped' /\ task'[r].pc = "fire" /\ task'[r].sha = sha
<1> DEFINE come == {w \in rows : w.next <= clock}
           due == {w.next : w \in come}
           t == [NoTask EXCEPT !.pc = "fire", !.now = clock, !.sha = sha, !.rows = come, !.todo = due]
<1>a. clock \in 0 .. MaxClock /\ clock \in Nat BY SchedulesAssumption DEF TypeInv, StateTyped
<1>1. due \subseteq Slots BY <1>a, ComeTyped
<1>2. come \subseteq Rows OBVIOUS
<1>3. Becomes(r, t) BY DEF FireRows, Becomes
<1> HIDE DEF come, due
<1>4. t \in Tasks
  <2>1. sha \in 0 .. MaxHead OBVIOUS
  <2>2. QED BY <1>a, <1>1, <1>2, <2>1 DEF Tasks, TaskPCs, NoTask
<1>5. t.pc = "fire" /\ t.now = clock /\ t.rows = come /\ t.sha = sha /\ t.todo = due
  BY DEF NoTask
<1> HIDE DEF t
<1>6. GoodTask(t, clock') BY <1>a, <1>4, <1>5 DEF GoodTask
<1>7. task'[r] = t BY <1>3 DEF TypeInv, TasksTyped, Becomes
<1>8. QED BY <1>a, <1>3, <1>4, <1>5, <1>6, <1>7, TaskMoves DEF TypeInv

\* A task goes to a place where its fields are good.
LEMMA TaskGoesTo ==
  ASSUME TypeInv, NEW r \in Servers, NEW to \in TaskPCs, UNCHANGED clock, TaskTo(r, to),
         to \in {"index", "rows", "fire", "dispatch", "advance"} => task[r].sha > 0,
         to \in {"dispatch", "advance"} => task[r].todo # {}, to # "begin"
  PROVE  TasksTyped' /\ task'[r] = [task[r] EXCEPT !.pc = to]
<1> DEFINE t == [task[r] EXCEPT !.pc = to]
<1>a. clock \in Nat /\ task[r] \in Tasks /\ GoodTask(task[r], clock)
  BY SchedulesAssumption DEF TypeInv, StateTyped, TasksTyped
<1>1. Becomes(r, t) BY DEF TaskTo, Becomes
<1>2. t \in Tasks /\ t.pc = to /\ t.now = task[r].now /\ t.sha = task[r].sha /\ t.todo = task[r].todo
  BY <1>a DEF Tasks
<1>3. task'[r] = t BY <1>1 DEF TypeInv, TasksTyped, Becomes
<1> HIDE DEF t
<1>4. GoodTask(t, clock') BY <1>a, <1>2 DEF GoodTask
<1>5. TasksTyped' BY <1>a, <1>1, <1>2, <1>4, TaskMoves DEF TypeInv
<1> USE DEF t
<1>6. QED BY <1>3, <1>5

\* A slot done leaves the task.
LEMMA SlotDoneTyped ==
  ASSUME TypeInv, NEW r \in Servers, task[r].pc \in {"fire", "advance"}, UNCHANGED clock, SlotDone(r)
  PROVE  TasksTyped' /\ task'[r].pc = "fire"
<1> DEFINE t == [task[r] EXCEPT !.pc = "fire", !.todo = @ \ {Slot(r)}]
<1>a. clock \in Nat /\ task[r] \in Tasks /\ GoodTask(task[r], clock)
  BY SchedulesAssumption DEF TypeInv, StateTyped, TasksTyped
<1>1. Becomes(r, t) BY DEF SlotDone, Becomes
<1>2. t \in Tasks /\ t.pc = "fire" /\ t.now = task[r].now /\ t.sha = task[r].sha
  BY <1>a DEF Tasks, TaskPCs
<1>3. task'[r] = t BY <1>1 DEF TypeInv, TasksTyped, Becomes
<1> HIDE DEF t
<1>4. GoodTask(t, clock') BY <1>a, <1>2 DEF GoodTask
<1>5. QED BY <1>a, <1>1, <1>2, <1>3, <1>4, TaskMoves DEF TypeInv

\* A task that ends is good.
LEMMA EndTaskTyped ==
  ASSUME TypeInv, NEW r \in Servers, UNCHANGED clock, EndTask(r)
  PROVE  TasksTyped' /\ task'[r] = NoTask
<1>1. clock \in Nat BY SchedulesAssumption DEF TypeInv, StateTyped
<1>2. QED BY <1>1, NoTaskGood, TaskMoves DEF TypeInv, EndTask, TasksTyped, Becomes

\* The type of the tasks is kept by every step.
LEMMA TasksStep == ASSUME TypeInv, SchedulesNext PROVE TasksTyped'
<1>a. /\ clock \in 0 .. MaxClock /\ clock \in Nat /\ index \in [Crons -> Entries \cup {NoEntry}]
      /\ TasksTyped /\ \A r \in Servers : task[r] \in Tasks /\ GoodTask(task[r], clock)
      /\ \A r \in Servers : loop[r].checked \in Checks /\ loop[r].waits \subseteq {"retry", "backoff"}
  BY SchedulesAssumption DEF TypeInv, StateTyped, TasksTyped, Loops
<1>1. ASSUME NEW r \in Servers, TickLeads(r) PROVE TasksTyped'
  <2>1. CASE Due(r) = {} BY <1>1, <1>a, <2>1, TasksStay DEF TickLeads
  <2>2. CASE Due(r) # {}
    <3> DEFINE to == IF "backoff" \in loop[r].waits THEN "miss" ELSE "begin"
               t == [NoTask EXCEPT !.now = clock, !.rows = Due(r), !.pc = to]
    <3>1. Becomes(r, t) BY <1>1, <2>2 DEF TickLeads, Becomes
    <3>3. Due(r) \subseteq Rows BY <1>a, RowTyped DEF Due
    <3>4. to \in {"miss", "begin"} OBVIOUS
    <3> HIDE DEF to
    <3>2. t.pc = to /\ t.now = clock /\ t.rows = Due(r) /\ t.sha = 0 /\ t.todo = {} BY DEF NoTask
    <3>5. t \in Tasks BY <1>a, <3>3, <3>4, NoTaskGood DEF Tasks, TaskPCs, NoTask
    <3> HIDE DEF t
    <3>6. GoodTask(t, clock') BY <1>1, <1>a, <2>2, <3>2, <3>4, <3>5 DEF GoodTask, TickLeads
    <3>7. QED BY <1>1, <1>a, <3>1, <3>5, <3>6, TaskMoves DEF TickLeads
  <2>3. QED BY <2>1, <2>2
<1>2. ASSUME NEW r \in Servers, TaskBegins(r) PROVE TasksTyped'
  <2>1. CASE Reusable(r)
    <3>1. loop[r].checked.sha \in 1 .. MaxHead
      <4>1. task[r].rows \subseteq Rows /\ task[r].rows # {}
        BY <1>2, <1>a DEF Tasks, TaskBegins, AtTask, GoodTask
      <4>2. QED BY <4>1, <2>1 DEF Reusable, Rows
    <3>2. task[r].rows \subseteq Rows BY <1>a DEF Tasks
    <3>3. QED BY <1>2, <2>1, <3>1, <3>2, FireRowsTyped DEF TaskBegins
  <2>2. CASE ~Reusable(r) BY <1>2, <2>2, TaskGoesTo DEF TaskBegins, TaskPCs
  <2>3. QED BY <2>1, <2>2
<1>3. ASSUME NEW r \in Servers, CheckHead(r) PROVE TasksTyped'
  <2>1. CASE head = 0 BY <1>3, <2>1, EndTaskTyped DEF CheckHead
  <2>2. CASE head # 0
    <3> DEFINE to == IF \E w \in task[r].rows : w.sha # head THEN "index" ELSE "rows"
               t == [task[r] EXCEPT !.sha = head, !.pc = to]
    <3>1. Becomes(r, t) BY <1>3, <2>2 DEF CheckHead, Becomes
    <3>2. to \in {"index", "rows"} OBVIOUS
    <3> HIDE DEF to
    <3>3. head \in 1 .. MaxHead BY <2>2 DEF TypeInv, StateTyped
    <3>4. t \in Tasks /\ t.pc = to /\ t.now = task[r].now /\ t.sha = head
      <4>1. task[r] \in Tasks BY <1>a
      <4>2. head \in 0 .. MaxHead /\ to \in TaskPCs BY <3>2, <3>3 DEF TaskPCs
      <4>3. QED BY <4>1, <4>2 DEF Tasks
    <3> HIDE DEF t
    <3>5. GoodTask(t, clock') BY <1>3, <1>a, <3>2, <3>3, <3>4 DEF GoodTask, CheckHead
    <3>6. QED BY <1>3, <1>a, <3>1, <3>4, <3>5, TaskMoves DEF CheckHead
  <2>3. QED BY <2>1, <2>2
<1>4. ASSUME NEW r \in Servers, CheckIndex(r) PROVE TasksTyped'
  BY <1>4, <1>a, TaskGoesTo DEF CheckIndex, AtTask, GoodTask, TaskPCs
<1>5. ASSUME NEW r \in Servers, CheckRows(r) PROVE TasksTyped'
  <2>1. task[r].sha \in 1 .. MaxHead BY <1>5, <1>a DEF CheckRows, AtTask, GoodTask, Tasks
  <2>2. {RowOf(c) : c \in Indexed} \subseteq Rows BY <1>a, RowTyped
  <2>3. QED BY <1>5, <2>1, <2>2, FireRowsTyped DEF CheckRows
<1>6. ASSUME NEW r \in Servers, CheckFails(r) PROVE TasksTyped'
  BY <1>6, TaskGoesTo DEF CheckFails, TaskPCs
<1>7. ASSUME NEW r \in Servers, Fire(r) PROVE TasksTyped'
  <2>1. CASE task[r].todo = {} BY <1>7, <2>1, EndTaskTyped DEF Fire
  <2>2. CASE task[r].todo # {} /\ SlotDone(r) BY <1>7, <2>2, SlotDoneTyped DEF Fire, AtTask
  <2>3. CASE task[r].todo # {} /\ TaskTo(r, IF Unclaimed(Slot(r)) THEN "dispatch" ELSE "advance")
    <3> DEFINE to == IF Unclaimed(Slot(r)) THEN "dispatch" ELSE "advance"
    <3>1. TaskTo(r, to) /\ to \in {"dispatch", "advance"} BY <2>3
    <3> HIDE DEF to
    <3>2. task[r].sha > 0 BY <1>7, <1>a DEF Fire, AtTask, GoodTask
    <3>3. QED BY <1>7, <2>3, <3>1, <3>2, TaskGoesTo DEF Fire, TaskPCs
  <2>4. QED BY <1>7, <2>1, <2>2, <2>3 DEF Fire
<1>8. ASSUME NEW r \in Servers, Dispatch(r) PROVE TasksTyped'
  BY <1>8, <1>a, TaskGoesTo DEF Dispatch, AtTask, GoodTask, TaskPCs
<1>9. ASSUME NEW r \in Servers, Advance(r) PROVE TasksTyped'
  BY <1>9, SlotDoneTyped DEF Advance, AtTask
<1>10. ASSUME NEW r \in Servers, Miss(r) PROVE TasksTyped'
  <2>1. CASE Overdue(r) = {} BY <1>10, <2>1, EndTaskTyped DEF Miss
  <2>2. CASE Overdue(r) # {}
    <3>1. PICK w \in Overdue(r) : task' = [task EXCEPT ![r].rows = @ \ {w}] BY <1>10, <2>2 DEF Miss
    <3> DEFINE t == [task[r] EXCEPT !.rows = @ \ {w}]
    <3>2. Becomes(r, t) BY <3>1 DEF Becomes
    <3>3. t \in Tasks /\ t.pc = "miss" /\ t.now = task[r].now /\ t.sha = task[r].sha /\ t.todo = task[r].todo
      BY <1>10, <1>a DEF Tasks, Miss, AtTask
    <3> HIDE DEF t
    <3>4. GoodTask(t, clock') BY <1>10, <1>a, <3>3 DEF GoodTask, Miss
    <3>5. QED BY <1>10, <1>a, <3>2, <3>3, <3>4, TaskMoves DEF Miss
  <2>3. QED BY <2>1, <2>2
<1>11. ASSUME NEW r \in Servers, ServerRestarts(r) PROVE TasksTyped'
  BY <1>11, EndTaskTyped DEF ServerRestarts, EndTask
<1>12. ASSUME UNCHANGED task, clock' = clock \/ clock' = clock + 1 PROVE TasksTyped'
  BY <1>12, <1>a, TasksStay
<1>13. QED
  BY <1>1, <1>2, <1>3, <1>4, <1>5, <1>6, <1>7, <1>8, <1>9, <1>10, <1>11, <1>12
  DEF SchedulesNext, TickStep, TaskStep, TickFollows, TickFails, WaitEnds, PushReads, PushWrites, HeadMoves, Unbinds,
      ClockTicks, LeaseLapses

\* The index stays one.
LEMMA IndexStep == ASSUME TypeInv, SchedulesNext PROVE index' \in [Crons -> Entries \cup {NoEntry}]
<1>a. index \in [Crons -> Entries \cup {NoEntry}] BY DEF TypeInv, StateTyped
<1>1. ASSUME NEW r \in Servers, CheckHead(r) PROVE index' \in [Crons -> Entries \cup {NoEntry}]
  BY <1>1, <1>a DEF CheckHead
<1>2. ASSUME NEW r \in Servers, CheckIndex(r) PROVE index' \in [Crons -> Entries \cup {NoEntry}]
  <2>1. task[r].sha \in 1 .. MaxHead
    BY <1>2 DEF CheckIndex, AtTask, TypeInv, TasksTyped, GoodTask, Tasks
  <2>2. QED BY <1>2, <1>a, <2>1, ReplacedTyped DEF CheckIndex
<1>3. ASSUME NEW r \in Servers, Advance(r) PROVE index' \in [Crons -> Entries \cup {NoEntry}]
  BY <1>3, <1>a, AdvancedTyped DEF Advance
<1>4. ASSUME NEW r \in Servers, Miss(r) PROVE index' \in [Crons -> Entries \cup {NoEntry}]
  <2>1. CASE Overdue(r) = {} BY <1>4, <1>a, <2>1 DEF Miss
  <2>2. CASE Overdue(r) # {}
    <3>1. PICK w : index' = Advanced({w}, task[r].now) BY <1>4, <2>2 DEF Miss
    <3>2. QED BY <1>a, <3>1, AdvancedTyped
  <2>3. QED BY <2>1, <2>2
<1>5. ASSUME NEW h \in 1 .. MaxHead, PushWrites(h) PROVE index' \in [Crons -> Entries \cup {NoEntry}]
  BY <1>5, <1>a, ReplacedTyped DEF PushWrites
<1>6. QED
  BY <1>a, <1>1, <1>2, <1>3, <1>4, <1>5
  DEF SchedulesNext, TickStep, TaskStep, TickLeads, TickFollows, TickFails, TaskBegins, CheckRows, Fire, Dispatch,
      CheckFails, ServerRestarts, WaitEnds, PushReads, HeadMoves, Unbinds, ClockTicks, LeaseLapses

\* The rest of the state keeps its type.
LEMMA StateStep == ASSUME TypeInv, SchedulesNext PROVE StateTyped'
<1>a. /\ clock \in 0 .. MaxClock /\ head \in 0 .. MaxHead /\ hitches \in 0 .. MaxHitches
      /\ claims \subseteq Slots /\ made \in [Slots -> Nat] /\ lead \in Leads
      /\ push \in [1 .. MaxHead -> {"none", "arrived", "write"}]
      /\ loop \in [Servers -> Loops] /\ was \in (0 .. MaxHead) \X (0 .. MaxHead)
      /\ \A r \in Servers : task[r] \in Tasks /\ GoodTask(task[r], clock)
  BY DEF TypeInv, StateTyped, TasksTyped
<1>b. MaxClock \in Nat /\ MaxHead \in Nat /\ MaxHitches \in Nat BY SchedulesAssumption
<1>0. was' \in (0 .. MaxHead) \X (0 .. MaxHead)
  <2>1. ASSUME ClockTicks PROVE was' \in (0 .. MaxHead) \X (0 .. MaxHead) BY <2>1, <1>a DEF ClockTicks
  <2>2. QED
    BY <1>a, <2>1
    DEF SchedulesNext, TickStep, TaskStep, TickLeads, TickFollows, TickFails, TaskBegins, CheckHead, CheckIndex,
        CheckRows, Fire, Dispatch, Advance, Miss, CheckFails, ServerRestarts, WaitEnds, PushReads, PushWrites,
        HeadMoves, Unbinds, LeaseLapses
<1>1. clock' \in 0 .. MaxClock /\ head' \in 0 .. MaxHead /\ hitches' \in 0 .. MaxHitches
  <2>1. ASSUME HeadMoves \/ Unbinds \/ ClockTicks
        PROVE  clock' \in 0 .. MaxClock /\ head' \in 0 .. MaxHead /\ hitches' \in 0 .. MaxHitches
    BY <2>1, <1>a, <1>b DEF HeadMoves, Unbinds, ClockTicks, Hitch
  <2>2. ASSUME UNCHANGED <<clock, head>>, hitches' = hitches \/ Hitch
        PROVE  clock' \in 0 .. MaxClock /\ head' \in 0 .. MaxHead /\ hitches' \in 0 .. MaxHitches
    BY <2>2, <1>a, <1>b DEF Hitch
  <2>3. QED
    BY <2>1, <2>2
    DEF SchedulesNext, TickStep, TaskStep, TickLeads, TickFollows, TickFails, TaskBegins, CheckHead, CheckIndex,
        CheckRows, Fire, Dispatch, Advance, Miss, CheckFails, ServerRestarts, WaitEnds, PushReads, PushWrites,
        LeaseLapses
<1>2. push' \in [1 .. MaxHead -> {"none", "arrived", "write"}]
  BY <1>a, <1>b
  DEF SchedulesNext, TickStep, TaskStep, TickLeads, TickFollows, TickFails, TaskBegins, CheckHead, CheckIndex,
      CheckRows, Fire, Dispatch, Advance, Miss, CheckFails, ServerRestarts, WaitEnds, PushReads, PushWrites,
      HeadMoves, Unbinds, ClockTicks, LeaseLapses, PushTo
<1>3. claims' \subseteq Slots /\ made' \in [Slots -> Nat]
  <2>1. ASSUME NEW r \in Servers, Fire(r) PROVE claims' \subseteq Slots /\ made' \in [Slots -> Nat]
    BY <2>1, <1>a, SlotTyped DEF Fire
  <2>2. ASSUME NEW r \in Servers, Dispatch(r) PROVE claims' \subseteq Slots /\ made' \in [Slots -> Nat]
    <3>1. Slot(r) \in Slots BY <2>2, <1>a, SlotTyped DEF Dispatch, AtTask, GoodTask
    <3>2. QED BY <2>2, <1>a, <3>1 DEF Dispatch
  <2>3. ASSUME NEW r \in Servers, Miss(r) PROVE claims' \subseteq Slots /\ made' \in [Slots -> Nat]
    <3>1. ASSUME NEW w \in Overdue(r) PROVE w.next \in Slots
      <4>1. w \in Rows /\ w.next + 1 < task[r].now /\ task[r].now <= clock /\ task[r].now \in Nat
        BY <1>a DEF Overdue, Tasks, GoodTask
      <4>2. w.next \in Nat BY <4>1, <1>b, SlotsAreTimes DEF Rows, Never
      <4>3. w.next <= clock BY <1>a, <4>1, <4>2
      <4>4. QED BY <1>a, <4>1, <4>3, ComeTyped
    <3>2. QED BY ZenonT(30), <2>3, <1>a, <3>1 DEF Miss
  <2>4. QED
    BY <1>a, <2>1, <2>2, <2>3
    DEF SchedulesNext, TickStep, TaskStep, TickLeads, TickFollows, TickFails, TaskBegins, CheckHead, CheckIndex,
        CheckRows, Advance, CheckFails, ServerRestarts, WaitEnds, PushReads, PushWrites,
        HeadMoves, Unbinds, ClockTicks, LeaseLapses
<1>4. lead' \in Leads /\ lead'.term <= hitches' + 1 /\ (~lead'.live => lead'.term <= hitches')
  <2>1. lead.term <= hitches + 1 /\ (~lead.live => lead.term <= hitches) /\ lead.term \in Nat
    BY <1>a DEF TypeInv, StateTyped, Leads
  <2>2. ASSUME NEW r \in Servers, TickLeads(r)
        PROVE  lead' \in Leads /\ lead'.term <= hitches' + 1 /\ (~lead'.live => lead'.term <= hitches')
    BY <1>a, <2>1, <2>2 DEF TickLeads, Leads
  <2>3. ASSUME NEW r \in Servers, ServerRestarts(r)
        PROVE  lead' \in Leads /\ lead'.term <= hitches' + 1 /\ (~lead'.live => lead'.term <= hitches')
    <3>1. hitches' = hitches + 1 BY <2>3 DEF ServerRestarts, Hitch
    <3>2. CASE lead.owner = r
      <4> DEFINE l == [lead EXCEPT !.owner = 0, !.live = FALSE]
      <4>1. lead' = l BY <2>3, <3>2 DEF ServerRestarts
      <4>2. l \in Leads /\ l.term = lead.term BY <1>a DEF Leads
      <4>3. QED BY <1>a, <2>1, <3>1, <4>1, <4>2
    <3>3. CASE lead.owner # r BY <1>a, <2>1, <2>3, <3>1, <3>3 DEF ServerRestarts
    <3>4. QED BY <3>2, <3>3
  <2>4. ASSUME LeaseLapses
        PROVE  lead' \in Leads /\ lead'.term <= hitches' + 1 /\ (~lead'.live => lead'.term <= hitches')
    <3> DEFINE l == [lead EXCEPT !.live = FALSE]
    <3>1. hitches' = hitches + 1 /\ lead' = l BY <2>4 DEF LeaseLapses, Hitch
    <3>2. l \in Leads /\ l.term = lead.term BY <1>a DEF Leads
    <3>3. QED BY <1>a, <2>1, <3>1, <3>2
  <2>5. ASSUME UNCHANGED lead, hitches' = hitches \/ Hitch
        PROVE  lead' \in Leads /\ lead'.term <= hitches' + 1 /\ (~lead'.live => lead'.term <= hitches')
    BY <1>a, <2>1, <2>5 DEF Hitch
  <2>6. QED
    BY <2>2, <2>3, <2>4, <2>5
    DEF SchedulesNext, TickStep, TaskStep, TickFollows, TickFails, TaskBegins, CheckHead, CheckIndex,
        CheckRows, Fire, Dispatch, Advance, Miss, CheckFails, WaitEnds, PushReads, PushWrites,
        HeadMoves, Unbinds, ClockTicks
<1>5. loop' \in [Servers -> Loops]
  <2>a. ASSUME NEW r \in Servers, NEW l \in Loops, loop' = [loop EXCEPT ![r] = l] PROVE loop' \in [Servers -> Loops]
    BY <1>a, <2>a
  <2>b. NoCheck \in Checks /\ \A r \in Servers : loop[r] \in Loops BY <1>a, <1>b DEF NoCheck, Checks
  <2>1. ASSUME NEW r \in Servers, TickLeads(r) PROVE loop' \in [Servers -> Loops]
    <3> DEFINE term == IF lead.owner = r THEN lead.term ELSE lead.term + 1
               known == IF term = loop[r].term THEN loop[r].checked ELSE NoCheck
               l == [loop[r] EXCEPT !.term = term, !.checked = known]
    <3>1. loop' = [loop EXCEPT ![r] = l] BY <2>1 DEF TickLeads
    <3>2. term \in Nat /\ known \in Checks BY <1>a, <2>b DEF Leads, Loops
    <3> HIDE DEF term, known
    <3>3. l \in Loops BY <2>b, <3>2 DEF Loops
    <3>4. QED BY <2>a, <3>1, <3>3
  <2>2. ASSUME NEW r \in Servers, TickFollows(r) \/ TickFails(r) PROVE loop' \in [Servers -> Loops]
    <3>1. [loop[r] EXCEPT !.checked = NoCheck, !.term = 0] \in Loops BY <2>b DEF Loops
    <3>2. [loop[r] EXCEPT !.checked = NoCheck] \in Loops BY <2>b DEF Loops
    <3>3. QED BY <2>a, <2>2, <3>1, <3>2 DEF TickFollows, TickFails
  <2>3. ASSUME NEW r \in Servers, CheckRows(r) PROVE loop' \in [Servers -> Loops]
    <3> DEFINE c == [at |-> task[r].now, sha |-> task[r].sha]
               l == [loop[r] EXCEPT !.checked = c, !.waits = @ \ {"retry"}]
    <3>1. c \in Checks BY <1>a DEF Checks, Tasks
    <3>2. loop' = [loop EXCEPT ![r] = l] BY <2>3 DEF CheckRows
    <3> HIDE DEF c
    <3>3. l \in Loops BY <2>b, <3>1 DEF Loops
    <3>4. QED BY <2>a, <3>2, <3>3
  <2>4. ASSUME NEW r \in Servers, CheckFails(r) \/ Dispatch(r) PROVE loop' \in [Servers -> Loops]
    <3>1. ASSUME NEW more \in SUBSET {"retry", "backoff"}
          PROVE  [loop[r] EXCEPT !.waits = @ \cup more] \in Loops
      BY <2>b DEF Loops
    <3>2. ASSUME NEW more \in {{}, {"backoff"}}, loop' = [loop EXCEPT ![r].waits = @ \cup {"retry"} \cup more]
          PROVE  loop' \in [Servers -> Loops]
      <4>1. [loop[r] EXCEPT !.waits = @ \cup {"retry"} \cup more] \in Loops BY <2>b DEF Loops
      <4>2. QED BY <2>a, <3>2, <4>1
    <3>3. CASE CheckFails(r) BY <3>2, <3>3 DEF CheckFails
    <3>4. CASE Dispatch(r)
      <4>1. loop' = loop \/ loop' = [loop EXCEPT ![r] = [loop[r] EXCEPT !.waits = @ \cup {"backoff"}]]
        BY <3>4 DEF Dispatch
      <4>2. [loop[r] EXCEPT !.waits = @ \cup {"backoff"}] \in Loops BY <3>1
      <4>3. QED BY <1>a, <2>a, <4>1, <4>2
    <3>5. QED BY <2>4, <3>3, <3>4
  <2>5. ASSUME NEW r \in Servers, ServerRestarts(r) PROVE loop' \in [Servers -> Loops]
    BY <1>a, <1>b, <2>5 DEF ServerRestarts, NewLoop, Loops, Checks, NoCheck
  <2>6. ASSUME NEW r \in Servers, NEW w, WaitEnds(r, w) PROVE loop' \in [Servers -> Loops]
    BY ZenonT(30), <1>a, <2>6 DEF WaitEnds, Loops
  <2>7. QED
    BY <1>a, <2>1, <2>2, <2>3, <2>4, <2>5, <2>6
    DEF SchedulesNext, TickStep, TaskStep, TaskBegins, CheckHead, CheckIndex, Fire, Advance, Miss, PushReads,
        PushWrites, HeadMoves, Unbinds, ClockTicks, LeaseLapses
<1>6. QED BY <1>0, <1>1, <1>2, <1>3, <1>4, <1>5, IndexStep DEF StateTyped

\* Type correctness of the first state and of every step.
LEMMA TypeStart == SchedulesInit => TypeInv
<1> SUFFICES ASSUME SchedulesInit PROVE TypeInv OBVIOUS
<1>1. index \in [Crons -> Entries \cup {NoEntry}]
  <2>1. ASSUME NEW c \in Crons PROVE [next |-> NextAfter(c, 0), sha |-> 1] \in Entries
    BY NextAfterTyped, SchedulesAssumption DEF Entries
  <2>2. QED BY <2>1 DEF SchedulesInit
<1>2. NewLoop \in Loops BY SchedulesAssumption DEF NewLoop, Loops, NoCheck, Checks
<1>3. StateTyped BY <1>1, <1>2, SchedulesAssumption DEF StateTyped, SchedulesInit, Leads
<1>4. TasksTyped BY NoTaskGood DEF SchedulesInit, TasksTyped
<1>5. QED BY <1>3, <1>4 DEF TypeInv

\* Every step keeps the types.
LEMMA TypeStep == TypeInv /\ [SchedulesNext]_schedVars => TypeInv'
<1> SUFFICES ASSUME TypeInv, [SchedulesNext]_schedVars PROVE TypeInv' OBVIOUS
<1>1. CASE SchedulesNext BY <1>1, StateStep, TasksStep DEF TypeInv
<1>2. CASE UNCHANGED schedVars
  BY <1>2 DEF schedVars, TypeInv, StateTyped, TasksTyped
<1>3. QED BY <1>1, <1>2

-----------------------------------------------------------------------------
(* One Run for a slot, and the head that a check saw.                      *)

\* How a task comes to dispatch, to have seen the head, and to fire on a check
\* it did not make.
TaskKept(s) ==
  /\ task'[s].pc = "dispatch" => task'[s] = task[s] \/ Fire(s)
  /\ task'[s].pc \in {"index", "rows"} =>
       \/ CheckHead(s)
       \/ task[s].pc \in {"index", "rows"} /\ task'[s].now = task[s].now /\ task'[s].sha = task[s].sha
  /\ task[s].pc = "begin" /\ task'[s].pc = "fire" => TaskBegins(s)

\* Every step keeps a task in that way.
LEMMA TasksKept == ASSUME TypeInv, SchedulesNext, NEW s \in Servers PROVE TaskKept(s)
<1>a. task \in [Servers -> Tasks] BY DEF TypeInv, TasksTyped
<1>b. task[s] \in Tasks BY <1>a
<1>1. ASSUME UNCHANGED task PROVE TaskKept(s) BY <1>1 DEF TaskKept
<1>2. ASSUME NEW r \in Servers, r # s, NEW t, Becomes(r, t) PROVE TaskKept(s)
  <2>1. task'[s] = task[s] BY <1>2, <1>a DEF Becomes
  <2>2. QED BY <2>1 DEF TaskKept
<1>3. ASSUME NEW r \in Servers, TaskStep(r) \/ TickLeads(r) \/ CheckFails(r) \/ ServerRestarts(r)
      PROVE  UNCHANGED task \/ \E t : Becomes(r, t)
  BY <1>3
  DEF Becomes, TaskStep, TaskBegins, CheckHead, CheckIndex, CheckRows, Fire, Dispatch, Advance, Miss, TickLeads,
      CheckFails, ServerRestarts, TaskTo, EndTask, FireRows, SlotDone
<1>4. ASSUME TickLeads(s) PROVE TaskKept(s) BY <1>4, <1>a DEF TickLeads, TaskKept, NoTask
<1>5. ASSUME TaskBegins(s) PROVE TaskKept(s)
  <2>1. task'[s].pc \in {"fire", "head"}
    BY ZenonT(30), <1>5, <1>a, <1>b DEF TaskBegins, FireRows, NoTask, TaskTo, Tasks
  <2>2. QED BY <1>5, <2>1 DEF TaskKept
<1>6. ASSUME CheckIndex(s) PROVE TaskKept(s)
  BY <1>6, <1>a, <1>b DEF CheckIndex, TaskKept, TaskTo, Tasks, AtTask
<1>7. ASSUME CheckRows(s) PROVE TaskKept(s)
  BY <1>7, <1>a, <1>b DEF CheckRows, TaskKept, FireRows, NoTask, AtTask
<1>8. ASSUME CheckFails(s) PROVE TaskKept(s)
  BY <1>8, <1>a, <1>b DEF CheckFails, TaskKept, TaskTo, Tasks
<1>9. ASSUME Dispatch(s) PROVE TaskKept(s)
  BY <1>9, <1>a, <1>b DEF Dispatch, TaskKept, TaskTo, Tasks
<1>10. ASSUME Advance(s) PROVE TaskKept(s)
  BY <1>10, <1>a, <1>b DEF Advance, TaskKept, SlotDone, Tasks, AtTask
<1>11. ASSUME Miss(s) PROVE TaskKept(s)
  <2>1. CASE EndTask(s) BY <2>1, <1>a DEF EndTask, NoTask, TaskKept
  <2>2. ASSUME NEW w, task' = [task EXCEPT ![s].rows = @ \ {w}] PROVE task'[s].pc = task[s].pc
    BY <2>2, <1>a, <1>b DEF Tasks
  <2>3. QED BY <1>11, <2>1, <2>2 DEF Miss, AtTask, TaskKept
<1>12. ASSUME ServerRestarts(s) PROVE TaskKept(s)
  BY <1>12, <1>a DEF ServerRestarts, TaskKept, NoTask
<1>13. ASSUME Fire(s) PROVE TaskKept(s)
  BY <1>13, <1>a, <1>b DEF TaskKept, Fire, AtTask, EndTask, TaskTo, SlotDone, NoTask, Tasks
<1>14. ASSUME CheckHead(s) PROVE TaskKept(s)
  BY <1>14, <1>a, <1>b DEF TaskKept, CheckHead, AtTask, EndTask, NoTask, Tasks
<1>15. ASSUME NEW r \in Servers, TaskStep(r) \/ TickLeads(r) \/ CheckFails(r) \/ ServerRestarts(r)
       PROVE  TaskKept(s)
  <2>1. CASE r = s
    BY <1>15, <2>1, <1>4, <1>5, <1>6, <1>7, <1>8, <1>9, <1>10, <1>11, <1>12, <1>13, <1>14 DEF TaskStep
  <2>2. CASE r # s BY <1>15, <2>2, <1>1, <1>2, <1>3
  <2>3. QED BY <2>1, <2>2
<1>16. QED
  BY <1>1, <1>15
  DEF SchedulesNext, TickStep, TickFollows, TickFails, WaitEnds, PushReads, PushWrites, HeadMoves, Unbinds,
      ClockTicks, LeaseLapses

\* A step that makes no Run and lets no task begin to dispatch.
LEMMA ClaimsStay ==
  ASSUME ClaimInv, made' = made, claims \subseteq claims',
         \A s \in Servers : Dispatching(s)' => task'[s] = task[s]
  PROVE  ClaimInv'
<1>1. ASSUME NEW s \in Servers, Dispatching(s)' PROVE Dispatching(s) /\ Slot(s)' = Slot(s)
  BY <1>1 DEF Dispatching, Slot
<1>2. QED BY <1>1 DEF ClaimInv

\* A claim is made once and leads to one dispatch.
LEMMA ClaimStep == ASSUME TypeInv, ClaimInv, SchedulesNext PROVE ClaimInv'
<1>a. /\ task \in [Servers -> Tasks] /\ made \in [Slots -> Nat] /\ claims \subseteq Slots
      /\ \A s \in Servers : GoodTask(task[s], clock)
  BY DEF TypeInv, TasksTyped, StateTyped
<1>1. ASSUME NEW r \in Servers, Fire(r), Dispatching(r)' PROVE ClaimInv'
  <2>1. /\ AtTask(r, "fire") /\ task[r].todo # {} /\ claims' = claims \cup {Slot(r)} /\ Unclaimed(Slot(r))
        /\ task' = [task EXCEPT ![r].pc = "dispatch"] /\ made' = made
    BY <1>1, <1>a DEF Fire, EndTask, NoTask, SlotDone, TaskTo, Dispatching, Tasks
  <2>2. Slot(r) \in Slots BY <2>1, SlotTyped
  <2>3. \A s \in Servers : s # r => (Dispatching(s)' <=> Dispatching(s)) /\ Slot(s)' = Slot(s)
    BY <2>1, <1>a DEF Dispatching, Slot
  <2>4. Slot(r)' = Slot(r)
    <3>1. task'[r].todo = task[r].todo BY <2>1, <1>a DEF Tasks
    <3>2. QED BY <3>1 DEF Slot
  <2>5. made[Slot(r)] = 0 BY <2>1, <2>2, <1>a DEF ClaimInv, Unclaimed
  <2>6. \A s \in Servers : s # r /\ Dispatching(s) => Slot(s) # Slot(r) BY <2>1 DEF ClaimInv, Unclaimed
  <2>7. QED BY <2>1, <2>3, <2>4, <2>5, <2>6 DEF ClaimInv
<1>2. ASSUME NEW r \in Servers, Dispatch(r) PROVE ClaimInv'
  <2>1. Dispatching(r) /\ Slot(r) \in Slots /\ Slot(r) \in claims /\ made[Slot(r)] = 0
    <3>1. Dispatching(r) /\ task[r].todo # {} BY <1>2, <1>a DEF Dispatch, AtTask, GoodTask, Dispatching
    <3>2. QED BY <3>1, SlotTyped DEF ClaimInv
  <2>2. ~Dispatching(r)' /\ claims' = claims
    BY <1>2, <1>a DEF Dispatch, TaskTo, Dispatching, Tasks
  <2>3. \A s \in Servers : s # r => (Dispatching(s)' <=> Dispatching(s)) /\ Slot(s)' = Slot(s)
    BY <1>2, <1>a DEF Dispatch, TaskTo, Dispatching, Slot
  <2>4. made' = made \/ made' = [made EXCEPT ![Slot(r)] = @ + 1] BY <1>2 DEF Dispatch
  <2>5. \A m \in Slots : made'[m] = made[m] \/ (m = Slot(r) /\ made'[m] = 1) BY <1>a, <2>1, <2>4
  <2>6. \A s \in Servers : s # r /\ Dispatching(s) => Slot(s) # Slot(r) /\ Slot(s) \in Slots
    BY <2>1, <1>a DEF ClaimInv
  <2>7. QED BY <2>1, <2>2, <2>3, <2>5, <2>6 DEF ClaimInv
<1>3. ASSUME made' = made, claims \subseteq claims', ~(\E r \in Servers : Fire(r) /\ Dispatching(r)') PROVE ClaimInv'
  <2>1. \A s \in Servers : Dispatching(s)' => task'[s] = task[s]
    BY <1>3, TasksKept DEF Dispatching, TaskKept
  <2>2. QED BY <1>3, <2>1, ClaimsStay
<1>4. QED
  BY <1>1, <1>2, <1>3
  DEF SchedulesNext, TickStep, TaskStep, TickLeads, TickFollows, TickFails, TaskBegins, CheckHead, CheckIndex,
      CheckRows, Fire, Advance, Miss, CheckFails, ServerRestarts, WaitEnds, PushReads, PushWrites,
      HeadMoves, Unbinds, ClockTicks, LeaseLapses

\* A check that keeps its commit stays seen while time goes on.
LEMMA SeenStays ==
  ASSUME TypeInv, SchedulesNext, NEW at \in Nat, NEW sha \in 0 .. MaxHead, Seen(at, sha)
  PROVE  Seen(at, sha)'
<1>a. clock \in Nat /\ was[1] \in Nat /\ was[2] \in Nat BY SchedulesAssumption DEF TypeInv, StateTyped
<1>1. CASE ClockTicks BY <1>a, <1>1 DEF ClockTicks, Seen
<1>2. CASE UNCHANGED <<clock, was>> BY <1>2 DEF Seen
<1>3. QED
  BY <1>1, <1>2
  DEF SchedulesNext, TickStep, TaskStep, TickLeads, TickFollows, TickFails, TaskBegins, CheckHead, CheckIndex,
      CheckRows, Fire, Dispatch, Advance, Miss, CheckFails, ServerRestarts, WaitEnds, PushReads, PushWrites,
      HeadMoves, Unbinds, LeaseLapses

\* A check is forgotten, kept, or made from the head that its task saw.
LEMMA ChecksKept ==
  ASSUME TypeInv, SchedulesNext, NEW s \in Servers
  PROVE  \/ loop'[s].checked \in {NoCheck, loop[s].checked}
         \/ task[s].pc = "rows" /\ loop'[s].checked = [at |-> task[s].now, sha |-> task[s].sha]
<1>a. loop \in [Servers -> Loops] /\ loop[s] \in Loops BY DEF TypeInv, StateTyped
<1> DEFINE Kept == \/ loop'[s].checked \in {NoCheck, loop[s].checked}
                   \/ task[s].pc = "rows" /\ loop'[s].checked = [at |-> task[s].now, sha |-> task[s].sha]
<1>1. ASSUME NEW r \in Servers, TickLeads(r) PROVE Kept BY <1>1, <1>a DEF TickLeads, Loops
<1>2. ASSUME NEW r \in Servers, TickFollows(r) \/ TickFails(r) PROVE Kept
  BY <1>2, <1>a DEF TickFollows, TickFails, Loops
<1>3. ASSUME NEW r \in Servers, CheckRows(r) PROVE Kept BY <1>3, <1>a DEF CheckRows, AtTask, Loops
<1>4. ASSUME NEW r \in Servers, CheckFails(r) PROVE Kept BY <1>4, <1>a DEF CheckFails, Loops
<1>5. ASSUME NEW r \in Servers, Dispatch(r) PROVE Kept BY <1>5, <1>a DEF Dispatch, Loops
<1>6. ASSUME NEW r \in Servers, ServerRestarts(r) PROVE Kept BY <1>6, <1>a DEF ServerRestarts, NewLoop
<1>7. ASSUME NEW r \in Servers, NEW w, WaitEnds(r, w) PROVE Kept BY <1>7, <1>a DEF WaitEnds, Loops
<1>8. ASSUME UNCHANGED loop PROVE Kept BY <1>8
<1> HIDE DEF Kept
<1>9. Kept
  BY <1>1, <1>2, <1>3, <1>4, <1>5, <1>6, <1>7, <1>8
  DEF SchedulesNext, TickStep, TaskStep, TaskBegins, CheckHead, CheckIndex, Fire, Advance, Miss, PushReads,
      PushWrites, HeadMoves, Unbinds, ClockTicks, LeaseLapses
<1>10. QED BY <1>9 DEF Kept

\* What a task or a check saw of the head stays seen.
LEMMA HeadStep == ASSUME TypeInv, HeadInv, SchedulesNext PROVE HeadInv'
<1>a. /\ clock \in Nat /\ head \in 0 .. MaxHead /\ was[1] \in Nat /\ was[2] \in Nat /\ MaxHead \in Nat
      /\ \A s \in Servers : /\ task[s].now \in Nat /\ task[s].sha \in 0 .. MaxHead /\ task[s].now <= clock
                            /\ loop[s].checked \in Checks
  BY SchedulesAssumption DEF TypeInv, StateTyped, TasksTyped, Tasks, GoodTask, Loops
<1>1. /\ head' # 0 => head' >= was'[1] /\ was'[1] >= was'[2]
      /\ was'[1] # 0 => was'[1] >= was'[2]
  <2>1. CASE HeadMoves BY <1>a, <2>1 DEF HeadMoves, HeadInv
  <2>2. CASE Unbinds BY <1>a, <2>2 DEF Unbinds, HeadInv
  <2>3. CASE ClockTicks BY <1>a, <2>3 DEF ClockTicks, HeadInv
  <2>4. CASE UNCHANGED <<head, was>> BY <2>4 DEF HeadInv
  <2>5. QED
    BY <2>1, <2>2, <2>3, <2>4
    DEF SchedulesNext, TickStep, TaskStep, TickLeads, TickFollows, TickFails, TaskBegins, CheckHead, CheckIndex,
        CheckRows, Fire, Dispatch, Advance, Miss, CheckFails, ServerRestarts, WaitEnds, PushReads, PushWrites,
        LeaseLapses
<1>2. ASSUME NEW s \in Servers, loop'[s].checked # NoCheck
      PROVE  Seen(loop[s].checked.at, loop[s].checked.sha)'
  <2>1. CASE loop'[s].checked = loop[s].checked
    <3>1. loop[s].checked.at \in Nat /\ loop[s].checked.sha \in 0 .. MaxHead BY <1>a DEF Checks
    <3>2. Seen(loop[s].checked.at, loop[s].checked.sha) BY <1>2, <2>1 DEF HeadInv
    <3>3. ASSUME NEW at, NEW sha, at = loop[s].checked.at, sha = loop[s].checked.sha PROVE Seen(at, sha)'
      BY <3>1, <3>2, <3>3, SeenStays DEF Seen
    <3>4. QED BY <2>1, <3>3 DEF Seen
  <2>2. CASE task[s].pc = "rows" /\ loop'[s].checked = [at |-> task[s].now, sha |-> task[s].sha]
    <3>1. Seen(task[s].now, task[s].sha) BY <2>2 DEF HeadInv
    <3>2. ASSUME NEW at, NEW sha, at = task[s].now, sha = task[s].sha PROVE Seen(at, sha)'
      BY <1>a, <3>1, <3>2, SeenStays DEF Seen
    <3>3. QED BY <2>2, <3>2 DEF Seen
  <2>3. QED BY <1>2, <2>1, <2>2, ChecksKept
<1>3. ASSUME NEW s \in Servers, task'[s].pc \in {"index", "rows"} PROVE Seen(task[s].now, task[s].sha)'
  <2>1. CASE CheckHead(s)
    <3>1. head # 0 /\ task' = [task EXCEPT ![s].sha = head, ![s].pc = task'[s].pc] /\ UNCHANGED <<clock, was>>
      BY <2>1, <1>3 DEF CheckHead, EndTask, NoTask, TypeInv, TasksTyped, Tasks
    <3>2. task'[s].now = task[s].now /\ task'[s].sha = head BY <3>1 DEF TypeInv, TasksTyped, Tasks
    <3>3. QED BY <1>a, <3>1, <3>2 DEF Seen, HeadInv
  <2>2. CASE task[s].pc \in {"index", "rows"} /\ task'[s].now = task[s].now /\ task'[s].sha = task[s].sha
    <3>1. Seen(task[s].now, task[s].sha) BY <2>2 DEF HeadInv
    <3>2. ASSUME NEW at, NEW sha, at = task[s].now, sha = task[s].sha PROVE Seen(at, sha)'
      BY <1>a, <3>1, <3>2, SeenStays DEF Seen
    <3>3. QED BY <2>2, <3>2 DEF Seen
  <2>3. QED BY <1>3, <2>1, <2>2, TasksKept DEF TaskKept
<1>4. QED BY <1>1, <1>2, <1>3 DEF HeadInv

-----------------------------------------------------------------------------
(* The theorems.                                                           *)

\* The three parts hold at first and are kept by every step.
LEMMA SchedulesStart == SchedulesInit => SchedulesInv
<1> SUFFICES ASSUME SchedulesInit PROVE SchedulesInv OBVIOUS
<1>1. TypeInv BY TypeStart
<1>2. ClaimInv BY DEF SchedulesInit, ClaimInv, Dispatching, NoTask
<1>3. HeadInv BY DEF SchedulesInit, HeadInv, NewLoop, NoTask
<1>4. QED BY <1>1, <1>2, <1>3 DEF SchedulesInv

\* Every step keeps the three parts.
LEMMA SchedulesStep == SchedulesInv /\ [SchedulesNext]_schedVars => SchedulesInv'
<1> SUFFICES ASSUME SchedulesInv, [SchedulesNext]_schedVars PROVE SchedulesInv' OBVIOUS
<1>1. CASE SchedulesNext BY <1>1, TypeStep, ClaimStep, HeadStep DEF SchedulesInv
<1>2. CASE UNCHANGED schedVars
  <2>1. TypeInv' BY <1>2, TypeStep DEF SchedulesInv
  <2>2. ClaimInv' BY <1>2 DEF schedVars, SchedulesInv, ClaimInv, Dispatching, Slot
  <2>3. HeadInv' BY <1>2 DEF schedVars, SchedulesInv, HeadInv, Seen
  <2>4. QED BY <2>1, <2>2, <2>3 DEF SchedulesInv
<1>3. QED BY <1>1, <1>2

\* The inductive invariant of the cron leader.
THEOREM SchedulesCorrect == SchedulesSpec => []SchedulesInv
  BY SchedulesStart, SchedulesStep, PTL DEF SchedulesSpec

\* What the invariant says of a state, as the runs check it.
LEMMA SchedulesSafe == SchedulesInv => SchedulesTypeOK /\ OneRunPerSlot
<1> SUFFICES ASSUME SchedulesInv PROVE SchedulesTypeOK /\ OneRunPerSlot OBVIOUS
<1>1. OneRunPerSlot BY DEF SchedulesInv, ClaimInv, OneRunPerSlot
<1>2. \A c \in Crons : index[c].next \in Slots \cup {0, Never} /\ index[c].sha \in 0 .. MaxHead
  BY SchedulesAssumption DEF SchedulesInv, TypeInv, StateTyped, Entries, NoEntry
<1>3. lead \in [owner : Servers \cup {0}, term : 0 .. MaxHitches + 1, live : BOOLEAN]
  <2>1. /\ lead \in Leads /\ lead.term <= hitches + 1 /\ lead.term \in Nat /\ hitches \in 0 .. MaxHitches
        /\ MaxHitches \in Nat
    BY SchedulesAssumption DEF SchedulesInv, TypeInv, StateTyped, Leads
  <2>2. lead.term \in 0 .. MaxHitches + 1 BY <2>1
  <2>3. QED BY <2>1, <2>2 DEF Leads
<1>4. \A r \in Servers : /\ loop[r].waits \subseteq {"retry", "backoff"}
                         /\ task[r].pc \in TaskPCs /\ task[r].todo \subseteq Slots
  BY DEF SchedulesInv, TypeInv, StateTyped, TasksTyped, Loops, Tasks
<1>5. \A m \in Slots : made[m] > 0 => m \in claims BY DEF SchedulesInv, ClaimInv
<1>6. QED BY <1>1, <1>2, <1>3, <1>4, <1>5 DEF SchedulesTypeOK, SchedulesInv, TypeInv, StateTyped, TaskPCs

\* Type correctness: the index, the claims and the tasks name slots of the
\* schedules, and a slot that has a Run was claimed.
THEOREM SchedulesTyped == SchedulesSpec => []SchedulesTypeOK
  BY SchedulesSafe, SchedulesCorrect, PTL

\* A slot makes at most one Run, under any number of replicas that believe to
\* lead.
THEOREM SlotsMakeOneRun == SchedulesSpec => []OneRunPerSlot
  BY SchedulesSafe, SchedulesCorrect, PTL

\* A step that fires on an earlier check fires a head at most one unit old.
LEMMA LiveHeadStep ==
  ASSUME SchedulesInv, [SchedulesNext]_schedVars, NEW r \in Servers, AtTask(r, "begin"), task'[r].pc = "fire"
  PROVE  task'[r].sha >= was[2]
<1>1. TypeInv BY DEF SchedulesInv
<1>2. SchedulesNext /\ task'[r].pc # task[r].pc BY DEF schedVars, AtTask
<1>3. TaskBegins(r) BY <1>1, <1>2, TasksKept DEF TaskKept, AtTask
<1>4. task \in [Servers -> Tasks] /\ clock \in Nat /\ loop[r].checked.at \in Nat
  BY <1>1, SchedulesAssumption DEF TypeInv, StateTyped, TasksTyped, Loops, Checks
<1>5. Reusable(r) /\ task'[r].sha = loop[r].checked.sha
  <2>1. CASE Reusable(r)
    BY <1>3, <1>4, <2>1 DEF TaskBegins, FireRows, NoTask
  <2>2. CASE ~Reusable(r) BY <1>3, <1>4, <2>2 DEF TaskBegins, TaskTo, Tasks
  <2>3. QED BY <2>1, <2>2
<1>6. Seen(loop[r].checked.at, loop[r].checked.sha) BY <1>5 DEF SchedulesInv, HeadInv, Reusable
<1>7. clock = loop[r].checked.at \/ clock = loop[r].checked.at + 1 BY <1>4, <1>5, <1>6 DEF Reusable, Seen
<1>8. QED BY <1>5, <1>6, <1>7 DEF Seen

\* No Run of old config: a check that is reused saw a head not older than
\* REUSE_MAX_AGE_MS.
THEOREM ChecksAreFresh == SchedulesSpec => RunsOfTheLiveHead
<1>1. SchedulesInv /\ [SchedulesNext]_schedVars =>
        [\A r \in Servers : (AtTask(r, "begin") /\ task'[r].pc = "fire") => task'[r].sha >= was[2]]_schedVars
  BY LiveHeadStep
<1>2. QED BY <1>1, SchedulesCorrect, PTL DEF SchedulesSpec, RunsOfTheLiveHead
=============================================================================
