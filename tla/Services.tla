------------------------------ MODULE Services ------------------------------
(***************************************************************************)
(* A shared service of a Run, one instance per Take: the leader's tick     *)
(* births, launches, polls and tears it down, a Step that uses it waits    *)
(* for it, and an operator's cancel, rerun and retry come in between.  One *)
(* scheduler process ticks, and may stop; the unit is the executor's.      *)
(***************************************************************************)
EXTENDS Naturals, FiniteSets, FiniteSetsExt

CONSTANTS
  MaxTakes,     \* bound: Takes, so MaxTakes - 1 reruns
  MaxCancels,   \* bound: cancels
  MaxTurns      \* bound: retries of the failed Step and ticks that stop in the middle

ASSUME ServicesAssumption == MaxTakes \in Nat \ {0} /\ {MaxCancels, MaxTurns} \subseteq Nat

VARIABLES
  live,    \* the Run's status is not terminal
  user,    \* the Step that uses the service
  svc,     \* run_services, per Take: status, whether the handle is known, past the ready budget
  unit,    \* the executor's unit of each Take
  intents, \* the CANCEL_RUN messages: the newest Take each names
  tick,    \* where the scheduler's tick is
  api,     \* the Take a cancel has read, and whether a rerun has born its rows
  spent

svcVars == <<live, user, svc, unit, intents, tick, api, spent>>

Takes == 1 .. MaxTakes
NoRow == [st |-> "none", handle |-> FALSE, late |-> FALSE]
Ended == {"TornDown", "Failed"}
UserOver == {"Succeeded", "Failed", "Unbound", "Cancelled"}
IdleTick == [pc |-> "idle", take |-> 0, seen |-> "none", todo |-> {}, then |-> "idle", intent |-> 0]

\* `current_service_take`.
CurrentTake == LET born == {t \in Takes : svc[t].st # "none"} IN
               IF born = {} THEN 1 ELSE Max(born)

\* The type of the state; Takes are born in order, and a service that is ready
\* can be torn down.
ServicesTypeOK ==
  /\ live \in BOOLEAN /\ user \in {"Pending"} \cup UserOver
  /\ svc \in [Takes -> [st : {"none", "Starting", "Ready"} \cup Ended, handle : BOOLEAN, late : BOOLEAN]]
  /\ \A t \in Takes : svc[t].st # "none" => t = 1 \/ svc[t - 1].st # "none"
  /\ \A t \in Takes : svc[t].st = "Ready" => svc[t].handle
  /\ unit \in [Takes -> {"none", "up", "ready", "gone"}]
  /\ intents \subseteq Takes
  /\ tick.pc \in {"idle", "listed", "old", "launch", "record", "poll", "admit", "drain", "rows",
                  "sweep", "retire", "advance"}
  /\ api \in [cancel : 0 .. MaxTakes, rerun : BOOLEAN]
  /\ spent \in [cancels : Nat, turns : Nat]

ServicesInit ==
  /\ live = TRUE /\ user = "Pending"
  /\ svc = [t \in Takes |-> NoRow] /\ unit = [t \in Takes |-> "none"]
  /\ intents = {} /\ tick = IdleTick
  /\ api = [cancel |-> 0, rerun |-> FALSE]
  /\ spent = [cancels |-> 0, turns |-> 0]

-----------------------------------------------------------------------------
(* reconcile_services_as_leader, for a Run the tick has listed as active.  *)

AtTick(pc) == tick.pc = pc
Goto(pc) == tick' = IF pc \in {"admit", "drain"} THEN [IdleTick EXCEPT !.pc = pc] ELSE [tick EXCEPT !.pc = pc]
SetRow(t, st) == svc' = [svc EXCEPT ![t].st = st, ![t].late = FALSE]   \* the budget is of no more use

TickBegins ==
  /\ AtTick("idle")
  /\ \/ live /\ Goto("listed")
     \/ ~live /\ intents # {} /\ Goto("drain")
  /\ UNCHANGED <<live, user, svc, unit, intents, api, spent>>

NotEnded == {t \in Takes : svc[t].st \notin {"none"} \cup Ended}

\* Mutant: an earlier Take's instance is left to the end of the Run.
OldTakesKept(take) == {}

\* The earlier Takes to tear down.
OldTakes(take) == {t \in NotEnded : t < take}

\* Status and rows are read; the Run may have ended since it was listed.
ServicesRead ==
  LET take == CurrentTake IN
  /\ AtTick("listed")
  /\ tick' = IF ~live THEN [IdleTick EXCEPT !.pc = "sweep", !.todo = NotEnded, !.then = "drain"]
             ELSE [IdleTick EXCEPT !.pc = "old", !.todo = OldTakes(take), !.take = take,
                                   !.seen = svc[take].st]
  /\ UNCHANGED <<live, user, svc, unit, intents, api, spent>>

\* `teardown_service` of a known handle, then TornDown.
TearDown(t) ==
  /\ unit' = IF svc[t].handle THEN [unit EXCEPT ![t] = "gone"] ELSE unit
  /\ SetRow(t, "TornDown")

TearOld ==
  \E t \in tick.todo :
    /\ AtTick("old") /\ TearDown(t) /\ tick' = [tick EXCEPT !.todo = @ \ {t}]
    /\ UNCHANGED <<live, user, intents, api, spent>>

\* The current Take: born if it has no row, launched if its handle is not known.
Birth ==
  LET t == tick.take IN
  /\ AtTick("old") /\ tick.todo = {}
  /\ svc' = IF svc[t].st = "none" THEN [svc EXCEPT ![t].st = "Starting"] ELSE svc
  /\ Goto(IF tick.seen = "none" \/ (tick.seen = "Starting" /\ ~svc[t].handle) THEN "launch"
          ELSE IF tick.seen \in Ended THEN "admit" ELSE "poll")
  /\ UNCHANGED <<live, user, unit, intents, api, spent>>

\* Mutant: a launch that keeps failing is retried for ever.
NeverPastBudget(t) == FALSE

PastBudget(t) == svc[t].late

\* `launch_service_bounded`: an error is retried until the ready budget is spent.
Launch ==
  LET t == tick.take IN
  /\ AtTick("launch")
  /\ \/ /\ unit' = [unit EXCEPT ![t] = IF @ = "ready" THEN @ ELSE "up"]
        /\ Goto("record") /\ UNCHANGED svc
     \/ /\ unit' \in {unit, [unit EXCEPT ![t] = IF @ = "ready" THEN @ ELSE "up"]}
        /\ IF PastBudget(t) THEN SetRow(t, "Failed") ELSE UNCHANGED svc
        /\ Goto("admit")
  /\ UNCHANGED <<live, user, intents, api, spent>>

\* Mutant: the handle is not written.
Unrecorded(t) == [svc EXCEPT ![t].st = "Starting"]

\* `set_run_service` with the handle.
Recorded(t) == [svc EXCEPT ![t].st = "Starting", ![t].handle = TRUE]

\* A first launch is polled in the next tick.
Record ==
  /\ AtTick("record")
  /\ svc' = Recorded(tick.take)
  /\ Goto(IF tick.seen = "none" THEN "admit" ELSE "poll")
  /\ UNCHANGED <<live, user, unit, intents, api, spent>>

\* `service_ready`.
Poll ==
  LET t == tick.take IN
  /\ AtTick("poll") /\ Goto("admit")
  /\ IF unit[t] = "ready" THEN SetRow(t, "Ready")
     ELSE IF tick.seen = "Ready" \/ PastBudget(t) THEN SetRow(t, "Failed")
     ELSE UNCHANGED svc
  /\ UNCHANGED <<live, user, unit, intents, api, spent>>

\* The Step that uses the service: it fails with a Failed one, starts with a
\* Ready one and is held otherwise.
Admit ==
  /\ AtTick("admit") /\ Goto("drain")
  /\ IF ~live \/ user # "Pending" THEN UNCHANGED user
     ELSE CASE svc[CurrentTake].st = "Failed" -> user' = "Unbound"
            [] svc[CurrentTake].st = "Ready" -> user' \in {"Succeeded", "Failed"}
            [] OTHER -> UNCHANGED user
  /\ UNCHANGED <<live, svc, unit, intents, api, spent>>

-----------------------------------------------------------------------------
(* reconcile_cancellations and advance.                                    *)

\* The Run's status, for one intent.
DrainStatus ==
  /\ AtTick("drain")
  /\ IF intents = {} THEN tick' = [IdleTick EXCEPT !.pc = "advance"]
     ELSE \E n \in intents :
            tick' = [IdleTick EXCEPT !.pc = "rows", !.intent = n, !.seen = IF live THEN "live" ELSE "over"]
  /\ UNCHANGED <<live, user, svc, unit, intents, api, spent>>

\* Mutant: an intent stops at the Take it names, also in a Run that is over.
NamedTakes == {t \in NotEnded : t <= tick.intent}

\* The Takes an intent tears down: a Run that is live again keeps the later ones.
CancelledTakes == {t \in NotEnded : tick.seen = "live" => t <= tick.intent}

DrainRows ==
  /\ AtTick("rows")
  /\ tick' = [tick EXCEPT !.pc = "sweep", !.todo = CancelledTakes, !.then = "retire"]
  /\ UNCHANGED <<live, user, svc, unit, intents, api, spent>>

\* `teardown_services`, and the drain's loop.
Sweep ==
  /\ AtTick("sweep")
  /\ IF tick.todo = {} THEN Goto(tick.then) /\ UNCHANGED <<svc, unit>>
     ELSE \E t \in tick.todo : TearDown(t) /\ tick' = [tick EXCEPT !.todo = @ \ {t}]
  /\ UNCHANGED <<live, user, intents, api, spent>>

RetireIntent ==
  /\ AtTick("retire")
  /\ intents' = intents \ {tick.intent} /\ tick' = [IdleTick EXCEPT !.pc = "advance"]
  /\ UNCHANGED <<live, user, svc, unit, api, spent>>

\* The Run settles; then its services go.
Advance ==
  /\ AtTick("advance")
  /\ IF live /\ user \in UserOver
     THEN live' = FALSE /\ tick' = [IdleTick EXCEPT !.pc = "sweep", !.todo = NotEnded, !.then = "idle"]
     ELSE UNCHANGED live /\ tick' = IdleTick
  /\ UNCHANGED <<user, svc, unit, intents, api, spent>>

\* The scheduler stops, or a call fails and ends the leg.
TickStops ==
  /\ ~AtTick("idle") /\ spent.turns < MaxTurns
  /\ spent' = [spent EXCEPT !.turns = @ + 1] /\ tick' = IdleTick
  /\ UNCHANGED <<live, user, svc, unit, intents, api>>

-----------------------------------------------------------------------------
(* The operator.                                                           *)

\* `cancel_run_request`: the Steps, and the Take its intent will name.
CancelReads ==
  /\ live /\ api.cancel = 0 /\ spent.cancels < MaxCancels
  /\ spent' = [spent EXCEPT !.cancels = @ + 1]
  /\ user' = IF user = "Pending" THEN "Cancelled" ELSE user
  /\ api' = [api EXCEPT !.cancel = CurrentTake]
  /\ UNCHANGED <<live, svc, unit, intents, tick>>

\* The Run and the intent, or a conflict.
CancelCommits ==
  /\ api.cancel # 0 /\ api' = [api EXCEPT !.cancel = 0]
  /\ live' = FALSE /\ intents' = IF live THEN intents \cup {api.cancel} ELSE intents
  /\ UNCHANGED <<user, svc, unit, tick, spent>>

\* `rerun_step_widened`: a fresh row for the next Take, if this one has any.
RerunBirths ==
  LET t == CurrentTake IN
  /\ ~api.rerun /\ t < MaxTakes /\ svc[t].st # "none"
  /\ svc' = [svc EXCEPT ![t + 1].st = "Starting"] /\ api' = [api EXCEPT !.rerun = TRUE]
  /\ UNCHANGED <<live, user, unit, intents, tick, spent>>

\* `rearm_invalidation_set`.
RerunRearms ==
  /\ api.rerun /\ api' = [api EXCEPT !.rerun = FALSE]
  /\ user' = "Pending" /\ live' = TRUE
  /\ UNCHANGED <<svc, unit, intents, tick, spent>>

\* `retry_step`: in the same Take.
Retry ==
  /\ user \in {"Failed", "Unbound"} /\ spent.turns < MaxTurns
  /\ spent' = [spent EXCEPT !.turns = @ + 1]
  /\ user' = "Pending" /\ live' = TRUE
  /\ UNCHANGED <<svc, unit, intents, tick, api>>

\* A Take whose readiness and lateness are still looked at.
Watched(t) == t \in {CurrentTake, tick.take}

\* The unit becomes ready, or stops being; the ready budget passes.
UnitTurns(t) ==
  /\ Watched(t) /\ unit[t] \in {"up", "ready"} /\ unit' = [unit EXCEPT ![t] = IF @ = "up" THEN "ready" ELSE "up"]
  /\ UNCHANGED <<live, user, svc, intents, tick, api, spent>>

BudgetPasses(t) ==
  /\ Watched(t) /\ svc[t].st = "Starting" /\ ~svc[t].late /\ svc' = [svc EXCEPT ![t].late = TRUE]
  /\ UNCHANGED <<live, user, unit, intents, tick, api, spent>>

-----------------------------------------------------------------------------

Work == \/ ServicesRead \/ TearOld \/ Birth \/ Launch \/ Record \/ Poll \/ Admit
        \/ DrainStatus \/ DrainRows \/ Sweep \/ RetireIntent \/ Advance

ServicesNext ==
  \/ TickBegins \/ Work \/ TickStops
  \/ CancelReads \/ CancelCommits \/ RerunBirths \/ RerunRearms \/ Retry
  \/ \E t \in Takes : UnitTurns(t) \/ BudgetPasses(t)

\* The scheduler keeps ticking, time passes, and a call that was begun ends.
ServicesFairness ==
  /\ WF_svcVars(TickBegins \/ Work) /\ WF_svcVars(CancelCommits \/ RerunRearms)
  /\ \A t \in Takes : WF_svcVars(BudgetPasses(t))

ServicesSpec == ServicesInit /\ [][ServicesNext]_svcVars /\ ServicesFairness

-----------------------------------------------------------------------------
(* Properties.                                                             *)

Alive(t) == unit[t] \in {"up", "ready"}

\* A Step never starts beside an earlier Take's instance, whose state it could
\* see, but for one that had Failed or whose handle was never recorded
\* (`reconcile_services`: "the fresh Take never shares state with it").
FreshInstance ==
  [][(user = "Pending" /\ user' \in {"Succeeded", "Failed"}) =>
       \A t \in Takes : (t < CurrentTake /\ Alive(t)) => svc[t].st = "Failed" \/ ~svc[t].handle]_svcVars

\* A cancel's intent is not retired while a unit it had to stop is alive in a
\* Run that is still over, whatever Takes a rerun bore meanwhile
\* (`reconcile_cancellations`).
CancelStopsServices ==
  \A n \in Takes : (n \in intents /\ ~live) ~>
    (live \/ \A t \in Takes : Alive(t) => svc[t].st = "Failed" \/ ~svc[t].handle)

\* A Step that waits for a service of a live Run starts or fails, through
\* failing launches, units that never get ready and ticks that stop; only an
\* instance already torn down can hold it.
UserProceeds == (live /\ user = "Pending") ~> (~live \/ user # "Pending" \/ svc[CurrentTake].st = "TornDown")

=============================================================================
