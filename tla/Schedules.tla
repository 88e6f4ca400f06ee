----------------------------- MODULE Schedules -----------------------------
(***************************************************************************)
(* The cron leader of one Project with one Pipeline: the index of its      *)
(* schedules says when to look, the head of the default branch what to     *)
(* fire.  Its lease fences nothing, so the task of a replica that lost it  *)
(* runs on beside the new leader's, and pushes rewrite the index           *)
(* meanwhile.                                                              *)
(*                                                                         *)
(* Time goes in units of CHECK_EARLY_MS, which MISS_AFTER_MS equals and    *)
(* REUSE_MAX_AGE_MS does but for two ticks.  A head is the default branch  *)
(* and its commit.                                                         *)
(***************************************************************************)
EXTENDS Naturals, FiniteSets, FiniteSetsExt

CONSTANTS
  Crons,         \* the schedules
  Minutes,       \* [Crons -> SUBSET Nat]: the slots each names
  MaxHead,       \* bound: commits of the default branch
  Declares,      \* [1 .. MaxHead -> SUBSET Crons]
  Servers,       \* the replicas
  MaxClock,      \* bound: the time
  MaxHitches     \* bound: errors, restarts, lapses of the lease, the end of the connection

ASSUME SchedulesAssumption ==
  /\ Minutes \in [Crons -> SUBSET Nat]
  /\ {MaxHead, MaxClock, MaxHitches} \subseteq Nat /\ MaxHead > 0
  /\ Declares \in [1 .. MaxHead -> SUBSET Crons]

VARIABLES
  clock,
  head,      \* the commit at the default branch's head; 0: the repo is no longer bound
  index,     \* pipeline_schedules: each schedule's next slot and the commit it was read from
  claims,    \* schedule_fires: the slots claimed
  made,      \* the Runs made for each slot
  lead,      \* the lease: its owner, its term, and whether it is live
  loop,      \* each replica's LoopState: its last check, its term, what it waits for
  task,      \* each replica's task for the project
  push,      \* the pushes being indexed
  hitches,
  was        \* the head when this unit of time began, and the one before

schedVars == <<clock, head, index, claims, made, lead, loop, task, push, hitches, was>>

Never == MaxClock + 2
Slots == UNION {Minutes[c] : c \in Crons}
NoEntry == [next |-> 0, sha |-> 0]
NoCheck == [at |-> 0, sha |-> 0]
NewLoop == [checked |-> NoCheck, term |-> 0, waits |-> {}]
NoTask == [pc |-> "idle", now |-> 0, rows |-> {}, sha |-> 0, todo |-> {}]
Indexed == {c \in Crons : index[c] # NoEntry}
RowOf(c) == [cron |-> c, next |-> index[c].next, sha |-> index[c].sha]

\* The type of the state; a slot that has a Run was claimed.
SchedulesTypeOK ==
  /\ clock \in 0 .. MaxClock /\ head \in 0 .. MaxHead /\ claims \subseteq Slots
  /\ \A c \in Crons : index[c].next \in Slots \cup {0, Never} /\ index[c].sha \in 0 .. MaxHead
  /\ \A m \in Slots : made[m] > 0 => m \in claims
  /\ lead \in [owner : Servers \cup {0}, term : 0 .. MaxHitches + 1, live : BOOLEAN]
  /\ \A r \in Servers : /\ loop[r].waits \subseteq {"retry", "backoff"}
                        /\ task[r].pc \in {"idle", "begin", "head", "index", "rows", "fire", "dispatch", "advance", "miss"}
                        /\ task[r].todo \subseteq Slots
  /\ push \in [1 .. MaxHead -> {"none", "arrived", "write"}]

\* `Schedule::next_after`.
NextAfter(c, t) == LET later == {m \in Minutes[c] : m > t} IN IF later = {} THEN Never ELSE Min(later)

SchedulesInit ==
  /\ clock = 0 /\ head = 1
  /\ index = [c \in Crons |-> IF c \in Declares[1] THEN [next |-> NextAfter(c, 0), sha |-> 1] ELSE NoEntry]
  /\ claims = {} /\ made = [m \in Slots |-> 0]
  /\ lead = [owner |-> 0, term |-> 0, live |-> FALSE]
  /\ loop = [r \in Servers |-> NewLoop] /\ task = [r \in Servers |-> NoTask]
  /\ push = [h \in 1 .. MaxHead |-> "none"] /\ hitches = 0
  /\ was = <<1, 1>>

Hitch == hitches < MaxHitches /\ hitches' = hitches + 1
AtTask(r, pc) == task[r].pc = pc
TaskTo(r, pc) == task' = [task EXCEPT ![r].pc = pc]
EndTask(r) == task' = [task EXCEPT ![r] = NoTask]

\* `replace_project_schedules`: rows no longer declared go, the rest keep their
\* next slot.
Replaced(h, now) ==
  [c \in Crons |-> IF c \notin Declares[h] THEN NoEntry
                   ELSE IF c \in Indexed THEN [index[c] EXCEPT !.sha = h]
                   ELSE [next |-> NextAfter(c, now), sha |-> h]]

-----------------------------------------------------------------------------
(* tick.                                                                   *)

\* The rows whose slot is near, if the project is not being handled or waited for.
Due(r) == IF AtTask(r, "idle") /\ "retry" \notin loop[r].waits
          THEN {RowOf(c) : c \in {d \in Indexed : index[d].next <= clock + 1}} ELSE {}

\* The holder, or whoever finds the lease expired, leads; a new term begins with
\* no check.
TickLeads(r) ==
  LET term == IF lead.owner = r THEN lead.term ELSE lead.term + 1 IN
  /\ lead.owner = r \/ ~lead.live
  /\ lead' = [owner |-> r, term |-> term, live |-> TRUE]
  /\ loop' = [loop EXCEPT ![r].term = term,
                          ![r].checked = IF term = loop[r].term THEN @ ELSE NoCheck]
  /\ task' = IF Due(r) = {} THEN task
             ELSE [task EXCEPT ![r] = [NoTask EXCEPT !.now = clock, !.rows = Due(r),
                                         !.pc = IF "backoff" \in loop[r].waits THEN "miss" ELSE "begin"]]
  /\ UNCHANGED <<clock, head, index, claims, made, push, hitches, was>>

TickFollows(r) ==
  /\ lead.live /\ lead.owner # r
  /\ loop' = [loop EXCEPT ![r].checked = NoCheck, ![r].term = 0]
  /\ UNCHANGED <<clock, head, index, claims, made, lead, task, push, hitches, was>>

\* The lease call fails.
TickFails(r) ==
  /\ Hitch /\ loop' = [loop EXCEPT ![r].checked = NoCheck]
  /\ UNCHANGED <<clock, head, index, claims, made, lead, task, push, was>>

-----------------------------------------------------------------------------
(* run_project and check.                                                  *)

Earliest(rows) == Min({w.next : w \in rows})

\* Mutant: a check is good until the head in the rows changes.
ReusedAnyAge(r) == /\ loop[r].checked # NoCheck
                   /\ \A w \in task[r].rows : w.sha = loop[r].checked.sha

\* A check made for this slot, recent, and of the head that every row was read from.
Reusable(r) ==
  LET c == loop[r].checked IN
  /\ c # NoCheck /\ c.at + 1 >= Earliest(task[r].rows) /\ clock <= c.at + 1
  /\ \A w \in task[r].rows : w.sha = c.sha

\* The rows that have come are to be fired, as of now, each slot once.
FireRows(r, sha, rows) ==
  LET come == {w \in rows : w.next <= clock} IN
  task' = [task EXCEPT ![r] = [NoTask EXCEPT !.pc = "fire", !.now = clock, !.sha = sha, !.rows = come,
                                             !.todo = {w.next : w \in come}]]

TaskBegins(r) ==
  /\ AtTask(r, "begin")
  /\ IF Reusable(r) THEN FireRows(r, loop[r].checked.sha, task[r].rows) ELSE TaskTo(r, "head")
  /\ UNCHANGED <<clock, head, index, claims, made, lead, loop, push, hitches, was>>

\* The default branch and its head; a repo no longer bound loses its rows.
CheckHead(r) ==
  /\ AtTask(r, "head")
  /\ IF head = 0 THEN index' = [c \in Crons |-> NoEntry] /\ EndTask(r)
     ELSE /\ task' = [task EXCEPT ![r].sha = head,
                                  ![r].pc = IF \E w \in task[r].rows : w.sha # head THEN "index" ELSE "rows"]
          /\ UNCHANGED index
  /\ UNCHANGED <<clock, head, claims, made, lead, loop, push, hitches, was>>

\* The head moved: the files at it rewrite the index.
CheckIndex(r) ==
  /\ AtTask(r, "index") /\ index' = Replaced(task[r].sha, task[r].now) /\ TaskTo(r, "rows")
  /\ UNCHANGED <<clock, head, claims, made, lead, loop, push, hitches, was>>

\* The rows again; the check is kept, as of the tick.
CheckRows(r) ==
  /\ AtTask(r, "rows") /\ FireRows(r, task[r].sha, {RowOf(c) : c \in Indexed})
  /\ loop' = [loop EXCEPT ![r].checked = [at |-> task[r].now, sha |-> task[r].sha], ![r].waits = @ \ {"retry"}]
  /\ UNCHANGED <<clock, head, index, claims, made, lead, push, hitches, was>>

\* `check_failed`, on a rate limit or another error.
CheckFails(r) ==
  /\ task[r].pc \in {"head", "index", "rows"} /\ Hitch /\ TaskTo(r, "miss")
  /\ \E more \in {{}, {"backoff"}} : loop' = [loop EXCEPT ![r].waits = @ \cup {"retry"} \cup more]
  /\ UNCHANGED <<clock, head, index, claims, made, lead, push, was>>

-----------------------------------------------------------------------------
(* fire, advance and miss_overdue.                                         *)

\* `advance`: each row that still has its slot moves to the first one after now.
Advanced(rows, now) ==
  [c \in Crons |-> IF \E w \in rows : w.cron = c /\ c \in Indexed /\ index[c].next = w.next
                   THEN [index[c] EXCEPT !.next = NextAfter(c, Max({now, @}))] ELSE index[c]]

\* The slot being fired: the earliest left, and the rows that name it.
Slot(r) == Min(task[r].todo)
Group(r) == {w \in task[r].rows : w.next = Slot(r)}
SlotDone(r) == task' = [task EXCEPT ![r].pc = "fire", ![r].todo = @ \ {Slot(r)}]

\* Mutant: a slot's claim is not looked at.
ClaimedAnyway(m) == TRUE

\* `claim_fire` inserts.
Unclaimed(m) == m \notin claims

\* The claim, or an error, which leaves the rows where they are.
Fire(r) ==
  /\ AtTask(r, "fire")
  /\ IF task[r].todo = {} THEN EndTask(r) /\ UNCHANGED <<claims, hitches>>
     ELSE \/ /\ claims' = claims \cup {Slot(r)} /\ UNCHANGED hitches
             /\ TaskTo(r, IF Unclaimed(Slot(r)) THEN "dispatch" ELSE "advance")
          \/ SlotDone(r) /\ Hitch /\ UNCHANGED claims
  /\ UNCHANGED <<clock, head, index, made, lead, loop, push, was>>

\* `dispatch_cron`: a Run for a schedule that the commit declares, or a refusal,
\* or nothing to run, or a forge that fails.
Dispatch(r) ==
  /\ AtTask(r, "dispatch") /\ TaskTo(r, "advance")
  /\ \/ /\ \E w \in Group(r) : w.cron \in Declares[task[r].sha]
        /\ made' = [made EXCEPT ![Slot(r)] = @ + 1]
        /\ UNCHANGED <<loop, hitches>>
     \/ UNCHANGED <<made, loop, hitches>>
     \/ loop' = [loop EXCEPT ![r].waits = @ \cup {"backoff"}] /\ Hitch /\ UNCHANGED made
  /\ UNCHANGED <<clock, head, index, claims, lead, push, was>>

\* The group's rows move on, unless the store fails.
Advance(r) ==
  /\ AtTask(r, "advance") /\ SlotDone(r)
  /\ \/ index' = Advanced(Group(r), task[r].now) /\ UNCHANGED hitches
     \/ UNCHANGED index /\ Hitch
  /\ UNCHANGED <<clock, head, claims, made, lead, loop, push, was>>

\* The rows whose slot is more than MISS_AFTER_MS past.
Overdue(r) == {w \in task[r].rows : w.next + 1 < task[r].now}

\* `miss_overdue`, row by row.
Miss(r) ==
  /\ AtTask(r, "miss")
  /\ IF Overdue(r) = {} THEN EndTask(r) /\ UNCHANGED <<index, claims>>
     ELSE \E w \in Overdue(r) :
            /\ claims' = claims \cup {w.next} /\ index' = Advanced({w}, task[r].now)
            /\ task' = [task EXCEPT ![r].rows = @ \ {w}]
  /\ UNCHANGED <<clock, head, made, lead, loop, push, hitches, was>>

-----------------------------------------------------------------------------
(* index_push.                                                             *)

PushTo(h, st) == push' = [push EXCEPT ![h] = st]

\* A push that is the live head goes on, unless there is nothing to add or remove.
PushReads(h) ==
  /\ push[h] = "arrived"
  /\ PushTo(h, IF head = h /\ (Declares[h] # {} \/ Indexed # {}) THEN "write" ELSE "none")
  /\ UNCHANGED <<clock, head, index, claims, made, lead, loop, task, hitches, was>>

PushWrites(h) ==
  /\ push[h] = "write" /\ PushTo(h, "none") /\ index' = Replaced(h, clock)
  /\ UNCHANGED <<clock, head, claims, made, lead, loop, task, hitches, was>>

-----------------------------------------------------------------------------
(* The forge, time and crashes.                                            *)

\* A push to the default branch; its webhook may be lost.
HeadMoves ==
  /\ head \in 1 .. MaxHead - 1 /\ head' = head + 1
  /\ \E st \in {"none", "arrived"} : PushTo(head', st)
  /\ UNCHANGED <<clock, index, claims, made, lead, loop, task, hitches, was>>

Unbinds ==
  /\ head # 0 /\ Hitch /\ head' = 0
  /\ UNCHANGED <<clock, index, claims, made, lead, loop, task, push, was>>

ClockTicks ==
  /\ clock < MaxClock /\ clock' = clock + 1 /\ was' = <<head, was[1]>>
  /\ UNCHANGED <<head, index, claims, made, lead, loop, task, push, hitches>>

\* A replica's wait ends: the retry's 10 s, the rate limit's reset.
WaitEnds(r, w) ==
  /\ w \in loop[r].waits /\ loop' = [loop EXCEPT ![r].waits = @ \ {w}]
  /\ UNCHANGED <<clock, head, index, claims, made, lead, task, push, hitches, was>>

\* The holder is late with its renewal.
LeaseLapses ==
  /\ lead.live /\ Hitch /\ lead' = [lead EXCEPT !.live = FALSE]
  /\ UNCHANGED <<clock, head, index, claims, made, loop, task, push, was>>

\* A replica restarts, under a new name.
ServerRestarts(r) ==
  /\ Hitch /\ task' = [task EXCEPT ![r] = NoTask] /\ loop' = [loop EXCEPT ![r] = NewLoop]
  /\ lead' = IF lead.owner = r THEN [lead EXCEPT !.owner = 0, !.live = FALSE] ELSE lead
  /\ UNCHANGED <<clock, head, index, claims, made, push, was>>

-----------------------------------------------------------------------------

TickStep(r) == TickLeads(r) \/ TickFollows(r)
TaskStep(r) == \/ TaskBegins(r) \/ CheckHead(r) \/ CheckIndex(r) \/ CheckRows(r)
               \/ Fire(r) \/ Dispatch(r) \/ Advance(r) \/ Miss(r)

SchedulesNext ==
  \/ \E r \in Servers : TickStep(r) \/ TickFails(r) \/ TaskStep(r) \/ CheckFails(r) \/ ServerRestarts(r)
  \/ \E r \in Servers, w \in {"retry", "backoff"} : WaitEnds(r, w)
  \/ \E h \in 1 .. MaxHead : PushReads(h) \/ PushWrites(h)
  \/ HeadMoves \/ Unbinds \/ ClockTicks \/ LeaseLapses

SchedulesSpec == SchedulesInit /\ [][SchedulesNext]_schedVars

-----------------------------------------------------------------------------
(* Properties.                                                             *)

\* A slot makes at most one Run, whichever replicas believe to lead and wherever
\* a fire stops ("each slot is claimed in the store before its Run is made, so
\* two replicas ... make one Run").
OneRunPerSlot == \A m \in Slots : made[m] <= 1

\* No Run of old config: a check that fires a slot without another look at the
\* forge saw a head not older than REUSE_MAX_AGE_MS, however leadership, pushes
\* and the index changed since (`run_project`; "never a Run of old config or on
\* an old branch").
RunsOfTheLiveHead ==
  [][\A r \in Servers : (AtTask(r, "begin") /\ task'[r].pc = "fire") => task'[r].sha >= was[2]]_schedVars
=============================================================================
