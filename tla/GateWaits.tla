----------------------------- MODULE GateWaits -----------------------------
(***************************************************************************)
(* A started Run with gates: each gate's wait, its clock and its approvals,*)
(* the Run's suspension while only waits are left, and its active-time     *)
(* budget.  The leader's pass visits the gates from a snapshot; API calls  *)
(* approve, reject, release and answer them; a rerun or a cancel ends a    *)
(* wait under everybody.                                                   *)
(*                                                                         *)
(* Time is kept as ages, capped at Cap: what is compared is always the     *)
(* time since something.  A Step's Attempt is one step here (AttemptUnit), *)
(* and so is a settle (RunLifecycle); input signatures and services are    *)
(* left out.                                                               *)
(***************************************************************************)
EXTENDS Naturals, Sequences, FiniteSets

CONSTANTS
  Work,       \* the plain Steps
  Gates,      \* the gate Steps
  Needs,      \* [Work \cup Gates -> SUBSET (Work \cup Gates)], acyclic
  Order,      \* all Steps, in the order of `ORDER BY step_id`
  Kinds,      \* the kinds a gate of this instance may have
  Replicas,   \* the server processes that run a scheduler loop
  Callers,    \* the API calls on gates that may be in progress at once
  Timer,      \* a timer gate's delay; an Environment's wait timer
  Expiry,     \* gate_expires_after
  Quorum,     \* the approvals an Environment requires
  Budget,     \* the Run's active-time budget; 0: it has none
  MaxCalls, MaxReruns, MaxCancels, MaxTerms,   \* bounds, and one on the
  MaxEvents   \* reruns, cancels and leader changes together

Steps == Work \cup Gates
Cap == Expiry
None == Cap + 1

ASSUME GateWaitsAssumption ==
  /\ Work \cap Gates = {} /\ Needs \in [Steps -> SUBSET Steps]
  /\ \A g \in Gates : Needs[g] # {}
  /\ Order \in Seq(Steps) /\ \A s \in Steps : \E i \in DOMAIN Order : Order[i] = s
  /\ Kinds \subseteq {"approval", "plain", "timer", "external", "plugin", "deployment"}
  /\ Replicas # {} /\ IsFiniteSet(Callers) /\ Timer \in Nat /\ Expiry \in Nat /\ Timer < Expiry
  /\ Quorum \in Nat /\ Budget \in Nat
  /\ {MaxCalls, MaxReruns, MaxCancels, MaxTerms, MaxEvents} \subseteq Nat

VARIABLES
  kind,     \* each gate's kind, fixed
  run,      \* the Run's status
  st,       \* each Step's status
  wait,     \* each gate's latest Attempt: number, open, age, inputs stored
  seen,     \* what the event log says of each gate's current episode
  fin,      \* the age of each gate need's latest finish since its latest re-arm
  bill,     \* active time: as the log counts it, whether it counts, as it was
  leader,   \* the replica that holds the lease
  pass,     \* each replica's admission pass
  call,     \* each API call on a gate
  rerun,    \* the rerun or retry in progress
  kill,     \* the cancels in progress: the operator's, a leader's over budget
  count     \* how many calls, reruns, cancels and leader changes there were

vars == <<kind, run, st, wait, seen, fin, bill, leader, pass, call, rerun, kill, count>>

Over    == {"Succeeded", "Failed", "Skipped", "Cancelled"}
RunOver == {"Succeeded", "Failed", "Cancelled"}
Status  == {"Pending", "Ready", "Running"} \cup Over

Age == 0..Cap
Older(a) == IF a < Cap THEN a + 1 ELSE a

Wait == [n : Nat, open : BOOLEAN, age : Age, inputs : BOOLEAN, ep : Nat,
         by : SUBSET Callers, stale : BOOLEAN]
NoWait == [n |-> 0, open |-> FALSE, age |-> 0, inputs |-> FALSE, ep |-> 0, by |-> {},
           stale |-> FALSE]

\* Since the gate's latest re-arm: its age, who approved, when the approvals
\* that met the rules let it release, and whether its latest skip was for want
\* of dependents.  `ep` numbers the episodes.  That, and three fields of a wait,
\* are history, for the properties: `by`, who approved while it lasted; `stale`,
\* whether approvals counted in an earlier episode were noted as enough for it;
\* `ep`, the episode it was opened in, 0 if a rerun of the gate was then under
\* way or had just taken its needs away, or once the gate is cancelled or
\* retried.
Episode == [rearm : Age, by : SUBSET Callers, due : 0..None, unneeded : BOOLEAN, ep : Nat]
FirstEpisode == [rearm |-> Cap, by |-> {}, due |-> None, unneeded |-> FALSE, ep |-> 1]

Snapshot == [Steps -> Status]
Fresh == [s \in Steps |-> "Pending"]

IdlePass == [pc |-> "idle", todo |-> {}, from |-> "Running", snap |-> Fresh,
             att |-> [g \in Gates |-> NoWait], passed |-> FALSE]
IdleCall == [pc |-> "idle", g |-> Order[1], n |-> 0, due |-> 0, passed |-> FALSE, ep |-> 0]
IdleRerun == [pc |-> "idle", todo |-> {}, set |-> {}, snap |-> Fresh,
              att |-> [g \in Gates |-> NoWait]]
IdleKill == [pc |-> "idle", todo |-> {}, from |-> "Running"]

Waits == [Gates -> Wait]
Killers == {"api"} \cup Replicas

\* The type of the state.  An open wait belongs to a Pending gate, to one a
\* cancel has yet to close it for, or to one that was skipped because a need was
\* re-armed, and cancelled, under the wait.
TypeOK ==
  /\ kind \in [Gates -> Kinds]
  /\ run \in {"Running", "Suspended"} \cup RunOver
  /\ st \in Snapshot /\ wait \in Waits /\ seen \in [Gates -> Episode]
  /\ \A g \in Gates : wait[g].open => st[g] \in {"Pending", "Skipped", "Cancelled"}
  /\ fin \in [Steps -> 0..None]
  /\ bill \in [billed : 0..Budget, counting : BOOLEAN, ran : 0..Budget]
  /\ leader \in Replicas
  /\ \A r \in Replicas :
       /\ pass[r].pc \in {"idle", "visit", "resolve", "spare", "skip", "resume", "exhaust",
                          "admit", "claim", "suspend", "suspending"}
       /\ pass[r].todo \subseteq Steps /\ pass[r].snap \in Snapshot /\ pass[r].att \in Waits
  /\ \A c \in Callers :
       /\ call[c].pc \in {"idle", "record", "decide", "met", "check", "answer", "resolve", "reopen"}
       /\ call[c].n \in Nat /\ call[c].due \in Age
  /\ rerun.pc \in {"idle", "reopen", "rearm"} /\ rerun.set \subseteq Steps
  /\ \A k \in Killers : kill[k].pc \in {"idle", "steps", "close", "run"}
  /\ count \in [calls : Nat, reruns : Nat, cancels : Nat, terms : Nat]

Init ==
  /\ kind \in [Gates -> Kinds]
  /\ run = "Running" /\ st = Fresh
  /\ wait = [g \in Gates |-> NoWait]
  /\ seen = [g \in Gates |-> FirstEpisode]
  /\ fin = [s \in Steps |-> None]
  /\ bill = [billed |-> 0, counting |-> TRUE, ran |-> 0]
  /\ leader \in Replicas
  /\ pass = [r \in Replicas |-> IdlePass] /\ call = [c \in Callers |-> IdleCall]
  /\ rerun = IdleRerun /\ kill = [k \in Killers |-> IdleKill]
  /\ count = [calls |-> 0, reruns |-> 0, cancels |-> 0, terms |-> 0]

-----------------------------------------------------------------------------
(* Pieces.                                                                 *)

\* `gate_reached`, over a snapshot.
Reached(g, snap) == \A d \in Needs[g] : snap[d] = "Succeeded"

\* The gates that wait, in a snapshot.
Waiting(snap) == {g \in Gates : snap[g] = "Pending" /\ Reached(g, snap)}

\* `behind_waiting_gate`: the waiting gates and what is transitively held by
\* them.  The fixpoint is reached in as many rounds as there are Steps.
Held(snap) ==
  LET grow[n \in Nat] ==
        IF n = 0 THEN Waiting(snap)
        ELSE grow[n - 1] \cup
             {s \in Steps : snap[s] \notin Over /\ Needs[s] \cap grow[n - 1] # {}}
  IN  grow[Len(Order)]

\* Mutant: a wait is reason enough, whatever else there is to do.
AnyWait(snap) == Waiting(snap) # {}

\* `only_waits_outstanding`.
OnlyWaits(snap) ==
  /\ Waiting(snap) # {}
  /\ \A s \in Steps : snap[s] \in Over \/ (snap[s] = "Pending" /\ s \in Held(snap))

\* Mutant: leaving `Running` for `Suspended` does not close the interval.
CountOn(to) == [bill EXCEPT !.counting = (to \in {"Running", "Suspended"})]

\* What a Run transition's event does to the time the log counts.
CountFrom(to) == [bill EXCEPT !.counting = (to = "Running")]

\* `commit_run_transition`.
MoveRun(to) == run' = to /\ bill' = CountFrom(to)

Least(S) == CHOOSE x \in S : \A y \in S : x <= y

\* Mutant: the re-arm is not looked at.
NeedsFinished(g) == Least({IF fin[d] = None THEN 0 ELSE fin[d] : d \in Needs[g]})

\* `wait_began_at`, as an age: the youngest of the needs' finishes and of the
\* latest re-arm; a need whose finish is not in the log counts as now.
WaitBegan(g) ==
  Least({IF fin[d] = None THEN 0 ELSE fin[d] : d \in Needs[g]} \cup {seen[g].rearm})

\* Mutant: the approvals of an earlier episode still count.
KeepApprovals(g) == [FirstEpisode EXCEPT !.rearm = 0, !.ep = seen[g].ep + 1, !.by = seen[g].by]

\* A re-arm of the gate in the event log (`is_gate_rearm`) ends the episode.
Rearmed(g) == [FirstEpisode EXCEPT !.rearm = 0, !.ep = seen[g].ep + 1]

\* A Step's transition event: a finish, or a re-arm (kept for a gate's needs).
StepMoves(s, to) ==
  /\ st' = [st EXCEPT ![s] = to]
  /\ fin' = [fin EXCEPT ![s] =
               CASE \A g \in Gates : s \notin Needs[g] -> @
                 [] to = "Succeeded" -> 0
                 [] to = "Pending" -> None
                 [] OTHER -> @]

EpisodeOf(g) == IF g \in rerun.set \/ ~Reached(g, st) THEN 0 ELSE seen[g].ep

\* A gate's wait is closed.
Close(g) == [wait EXCEPT ![g] = [NoWait EXCEPT !.n = wait[g].n]]

\* Mutant: the gate leaves Pending, and its wait is left open.
ResolveOnly(g, passed) ==
  StepMoves(g, IF passed THEN "Succeeded" ELSE "Failed") /\ UNCHANGED wait

\* `resolve_gate_wait`: the wait closes (or, with none open, a closed one is
\* minted), the gate leaves Pending, and the verdict is journalled, in one
\* transaction.
Resolve(g, passed) ==
  /\ StepMoves(g, IF passed THEN "Succeeded" ELSE "Failed")
  /\ wait' = [wait EXCEPT ![g] = [NoWait EXCEPT !.n = IF wait[g].open THEN wait[g].n
                                                      ELSE wait[g].n + 1]]

\* The fence of a verdict on wait `n`.
StillWaits(g, n) == st[g] = "Pending" /\ wait[g].open /\ wait[g].n = n

Room == count.reruns + count.cancels + count.terms < MaxEvents

\* What is done one by one is done in the order of the Steps.
First(T) == Order[Least({i \in DOMAIN Order : Order[i] \in T})]

\* A cancel begins: the Steps that are not over are read.
Killing(from) ==
  LET todo == {s \in Steps : st[s] \notin Over}
  IN  [pc |-> IF todo = {} THEN "run" ELSE "steps", todo |-> todo, from |-> from]

-----------------------------------------------------------------------------
(* admit_as_leader, as far as gates and the Run's own status go.           *)

At(r, pc) == pass[r].pc = pc
Item(r) == First(pass[r].todo)
Judged(r) == pass[r].att[Item(r)]

Goes(r, p) == pass' = [pass EXCEPT ![r] = p]
Leave(r) == Goes(r, IdlePass)

\* What is left to do in a phase, in order; with nothing left, the next phase.
Enter(p, todo, here, next) ==
  [p EXCEPT !.todo = todo, !.pc = IF todo = {} THEN next ELSE here]
NextItem(r, here, next) == Enter(pass[r], pass[r].todo \ {Item(r)}, here, next)

\* The leader finds the Run live and reads its Steps.  The gates that are
\* Pending, and reached or with a wait open, are visited.
PassBegin(r) ==
  LET visited == {g \in Gates : st[g] = "Pending" /\ (Reached(g, st) \/ wait[g].open)} IN
  /\ At(r, "idle") /\ leader = r /\ run \notin RunOver
  /\ Goes(r, Enter([IdlePass EXCEPT !.from = run, !.snap = st, !.att = wait],
                   visited, "visit", "spare"))
  /\ UNCHANGED <<kind, run, st, wait, seen, fin, bill, leader, call, rerun, kill, count>>

\* `supersede_gate_attempt`: an open wait whose premise is gone is closed.
VisitSupersede(r) ==
  LET g == Item(r) IN
  /\ At(r, "visit") /\ ~Reached(g, pass[r].snap)
  /\ IF wait[g].open /\ wait[g].n = Judged(r).n
     THEN wait' = Close(g) /\ seen' = [seen EXCEPT ![g] = Rearmed(g)]
     ELSE UNCHANGED <<wait, seen>>
  /\ Goes(r, NextItem(r, "visit", "spare"))
  /\ UNCHANGED <<kind, run, st, fin, bill, leader, call, rerun, kill, count>>

\* `open_gate_wait`, fenced: a reached gate without a wait gets one, its clock
\* started when the wait began; none if the gate left Pending.
VisitMint(r) ==
  LET g == Item(r) IN
  /\ At(r, "visit") /\ Reached(g, pass[r].snap) /\ ~Judged(r).open
  /\ leader = r
  /\ IF st[g] = "Pending"
     THEN /\ wait' = IF wait[g].open THEN wait
                    ELSE [wait EXCEPT ![g] = [n |-> @.n + 1, open |-> TRUE,
                                              age |-> WaitBegan(g), inputs |-> FALSE,
                                              ep |-> EpisodeOf(g), by |-> @.by, stale |-> @.stale]]
          /\ Goes(r, [pass[r] EXCEPT !.att[g] = wait'[g]])
     ELSE Goes(r, NextItem(r, "visit", "spare")) /\ UNCHANGED wait
  /\ UNCHANGED <<kind, run, st, seen, fin, bill, leader, call, rerun, kill, count>>

\* A reached gate with an open wait is judged.
Judging(r) == At(r, "visit") /\ Reached(Item(r), pass[r].snap) /\ Judged(r).open

\* `set_gate_wait_inputs`, fenced: a plugin gate's inputs render, and are
\* stored on the wait while it is open.
StoreInputs(r) ==
  LET g == Item(r) IN
  /\ Judging(r) /\ kind[g] = "plugin" /\ ~Judged(r).inputs
  /\ leader = r
  /\ wait' = IF wait[g].open /\ wait[g].n = Judged(r).n
             THEN [wait EXCEPT ![g].inputs = TRUE] ELSE wait
  /\ Goes(r, [pass[r] EXCEPT !.att[g].inputs = TRUE])
  /\ UNCHANGED <<kind, run, st, seen, fin, bill, leader, call, rerun, kill, count>>

\* They do not render: the gate fails.
InputsFail(r) ==
  /\ Judging(r) /\ kind[Item(r)] = "plugin" /\ ~Judged(r).inputs
  /\ Goes(r, [pass[r] EXCEPT !.pc = "resolve", !.passed = FALSE])
  /\ UNCHANGED <<kind, run, st, wait, seen, fin, bill, leader, call, rerun, kill, count>>

\* Mutant: a gate that nobody answers is left waiting.
NoExpiry(g, age) ==
  IF \/ kind[g] = "timer" /\ age >= Timer
     \/ kind[g] = "approval" /\ seen[g].due = 0 THEN "pass"
  ELSE IF kind[g] = "deployment" THEN "fail"
  ELSE "none"

\* `gate_verdict`: the kind's own verdict first, then expiry.
GateVerdict(g, age) ==
  IF \/ kind[g] = "timer" /\ age >= Timer
     \/ kind[g] = "approval" /\ seen[g].due = 0 THEN "pass"
  ELSE IF kind[g] = "deployment" \/ age >= Expiry THEN "fail"
  ELSE "none"

\* A wait is judged on its own clock; a pass the executor refuses is a fail.
Judge(r) ==
  LET g == Item(r)
      v == GateVerdict(g, Judged(r).age)
  IN
  /\ Judging(r) /\ (kind[g] = "plugin" => Judged(r).inputs)
  /\ IF v = "none" THEN Goes(r, NextItem(r, "visit", "spare"))
     ELSE \E refused \in BOOLEAN :
            Goes(r, [pass[r] EXCEPT !.pc = "resolve", !.passed = (v = "pass" /\ ~refused)])
  /\ UNCHANGED <<kind, run, st, wait, seen, fin, bill, leader, call, rerun, kill, count>>

\* The verdict lands on the wait that was judged, or not at all.
PassResolve(r) ==
  LET g == Item(r) IN
  /\ At(r, "resolve")
  /\ IF StillWaits(g, Judged(r).n) THEN Resolve(g, pass[r].passed)
     ELSE UNCHANGED <<st, fin, wait>>
  /\ Goes(r, NextItem(r, "visit", "spare"))
  /\ UNCHANGED <<kind, run, seen, bill, leader, call, rerun, kill, count>>

-----------------------------------------------------------------------------
(* settle_unneeded_gates.                                                  *)

Dependents(g) == {s \in Steps : g \in Needs[s]}

\* A leaf gate's verdict is the outcome: it always matters.
Unneeded(g, snap) == Dependents(g) # {} /\ \A s \in Dependents(g) : snap[s] \in Over

\* The Steps are read again.  A Pending gate nothing needs any more is to be
\* skipped; one skipped for that, and needed again, is to be revived.
SpareRead(r) ==
  LET skip   == {g \in Gates : st[g] = "Pending" /\ Unneeded(g, st)}
      revive == {g \in Gates : /\ st[g] = "Skipped" /\ seen[g].unneeded
                               /\ Dependents(g) # {} /\ ~Unneeded(g, st)}
  IN
  /\ At(r, "spare")
  /\ Goes(r, Enter([pass[r] EXCEPT !.snap = st, !.att = wait], skip \cup revive, "skip", "resume"))
  /\ UNCHANGED <<kind, run, st, wait, seen, fin, bill, leader, call, rerun, kill, count>>

\* Its wait is closed with it, if its latest Attempt is still the one read.
SpareSkip(r) ==
  LET g == Item(r) IN
  /\ At(r, "skip") /\ pass[r].snap[g] = "Pending"
  /\ IF st[g] = "Pending" /\ wait[g].n = Judged(r).n
     THEN /\ StepMoves(g, "Skipped")
          /\ wait' = Close(g)
          /\ seen' = [seen EXCEPT ![g].unneeded = TRUE]
     ELSE UNCHANGED <<st, fin, wait, seen>>
  /\ Goes(r, NextItem(r, "skip", "resume"))
  /\ UNCHANGED <<kind, run, bill, leader, call, rerun, kill, count>>

SpareRevive(r) ==
  LET g == Item(r) IN
  /\ At(r, "skip") /\ pass[r].snap[g] = "Skipped"
  /\ IF st[g] = "Skipped"
     THEN StepMoves(g, "Pending") /\ seen' = [seen EXCEPT ![g] = Rearmed(g)]
     ELSE UNCHANGED <<st, fin, seen>>
  /\ Goes(r, NextItem(r, "skip", "resume"))
  /\ UNCHANGED <<kind, run, wait, bill, leader, call, rerun, kill, count>>

-----------------------------------------------------------------------------
(* Suspension, budget and promotion.                                       *)

\* Mutant: a Suspended Run is left to whoever releases its gate.
LeftSuspended(r) == pass[r].from = "Suspended"

\* A Run read as Suspended stays so while only waits are left.
Parked(r) == pass[r].from = "Suspended" /\ OnlyWaits(st)

StaySuspended(r) ==
  /\ At(r, "resume") /\ Parked(r)
  /\ Leave(r)
  /\ UNCHANGED <<kind, run, st, wait, seen, fin, bill, leader, call, rerun, kill, count>>

\* Else it is reopened, fenced, and the pass goes on.
Resume(r) ==
  /\ At(r, "resume") /\ pass[r].from = "Suspended" /\ ~Parked(r)
  /\ leader = r
  /\ IF run = "Suspended" THEN MoveRun("Running") ELSE UNCHANGED <<run, bill>>
  /\ Goes(r, [pass[r] EXCEPT !.from = "Running"])
  /\ UNCHANGED <<kind, st, wait, seen, fin, leader, call, rerun, kill, count>>

\* `enforce_run_budget`: the active time the log counts reached the budget.
Exhausted == run = "Running" /\ Budget > 0 /\ bill.billed >= Budget

\* Its Steps are cancelled and it fails (ExhaustRun, below).
OverBudget(r) ==
  /\ At(r, "resume") /\ pass[r].from # "Suspended" /\ Exhausted
  /\ Goes(r, [IdlePass EXCEPT !.pc = "exhaust"])
  /\ kill' = [kill EXCEPT ![r] = Killing("Running")]
  /\ UNCHANGED <<kind, run, st, wait, seen, fin, bill, leader, call, rerun, count>>

Promotable(s, snap) == s \in Work /\ Reached(s, snap)
Dead(s, snap) == \E d \in Needs[s] : snap[d] \in Over \ {"Succeeded"}

\* Within it, the Steps are read once more.  Those to promote or to skip are
\* done in turn; `passed` keeps whether a gate was Pending.
StepsRead(r) ==
  LET todo == {s \in Steps : st[s] = "Pending" /\ (Promotable(s, st) \/ Dead(s, st))} IN
  /\ At(r, "resume") /\ pass[r].from # "Suspended" /\ ~Exhausted
  /\ Goes(r, Enter([IdlePass EXCEPT !.snap = st, !.passed = \E g \in Gates : st[g] = "Pending"],
                   todo, "admit", "claim"))
  /\ UNCHANGED <<kind, run, st, wait, seen, fin, bill, leader, call, rerun, kill, count>>

\* `promote_step`, fenced: a Step whose needs succeeded in the snapshot.
AdmitPromote(r) ==
  LET s == Item(r) IN
  /\ At(r, "admit") /\ Promotable(s, pass[r].snap)
  /\ leader = r
  /\ IF st[s] = "Pending" THEN StepMoves(s, "Ready") ELSE UNCHANGED <<st, fin>>
  /\ Goes(r, NextItem(r, "admit", "claim"))
  /\ UNCHANGED <<kind, run, wait, seen, bill, leader, call, rerun, kill, count>>

\* A Step or a gate behind a need that cannot succeed is Skipped.
AdmitSkip(r) ==
  LET s == Item(r) IN
  /\ At(r, "admit") /\ Dead(s, pass[r].snap)
  /\ IF st[s] = "Pending" THEN StepMoves(s, "Skipped") ELSE UNCHANGED <<st, fin>>
  /\ Goes(r, NextItem(r, "admit", "claim"))
  /\ UNCHANGED <<kind, run, wait, seen, bill, leader, call, rerun, kill, count>>

\* `claim_ready_steps`, fenced.  Only a pass that saw a Pending gate asks
\* whether to suspend.
AdmitClaim(r) ==
  /\ At(r, "claim") /\ leader = r
  /\ st' = [s \in Steps |-> IF st[s] = "Ready" THEN "Running" ELSE st[s]]
  /\ IF pass[r].passed THEN Goes(r, [IdlePass EXCEPT !.pc = "suspend"]) ELSE Leave(r)
  /\ UNCHANGED <<kind, run, wait, seen, fin, bill, leader, call, rerun, kill, count>>

\* Only waits are left, in the Steps read again after the claim.
SuspendDecide(r) ==
  /\ At(r, "suspend")
  /\ IF OnlyWaits(st) THEN Goes(r, [IdlePass EXCEPT !.pc = "suspending"]) ELSE Leave(r)
  /\ UNCHANGED <<kind, run, st, wait, seen, fin, bill, leader, call, rerun, kill, count>>

\* The commit, fenced, from Running.
SuspendCommit(r) ==
  /\ At(r, "suspending") /\ leader = r
  /\ IF run = "Running" THEN MoveRun("Suspended") ELSE UNCHANGED <<run, bill>>
  /\ Leave(r)
  /\ UNCHANGED <<kind, st, wait, seen, fin, leader, call, rerun, kill, count>>

\* A deposed leader's next fenced write is refused: the pass ends.
FencedOff(r) ==
  /\ leader # r
  /\ \/ At(r, "visit") /\ Reached(Item(r), pass[r].snap) /\ ~Judged(r).open
     \/ Judging(r) /\ kind[Item(r)] = "plugin" /\ ~Judged(r).inputs
     \/ At(r, "resume") /\ pass[r].from = "Suspended" /\ ~Parked(r)
     \/ At(r, "admit") /\ Promotable(Item(r), pass[r].snap)
     \/ At(r, "claim") \/ At(r, "suspending")
  /\ Leave(r)
  /\ UNCHANGED <<kind, run, st, wait, seen, fin, bill, leader, call, rerun, kill, count>>

-----------------------------------------------------------------------------
(* API calls on a gate.                                                    *)

CallAt(c, pc) == call[c].pc = pc
CallGoes(c, p) == call' = [call EXCEPT ![c] = p]
CallTo(c, pc) == CallGoes(c, [call[c] EXCEPT !.pc = pc])
CallEnds(c) == CallGoes(c, IdleCall)

Starts(c, p) ==
  /\ CallAt(c, "idle") /\ count.calls < MaxCalls
  /\ CallGoes(c, p)
  /\ count' = [count EXCEPT !.calls = @ + 1]
  /\ UNCHANGED <<kind, run, st, wait, seen, fin, bill, leader, pass, rerun, kill>>

\* `approve_gate` of a manual gate reads the Environment's rules and the wait's
\* clock; without rules ("plain") the approval alone releases.
ApproveRead(c, g) ==
  LET age == IF wait[g].open THEN wait[g].age ELSE 0
      due == IF kind[g] = "plain" \/ age >= Timer THEN 0 ELSE Timer - age
  IN
  /\ kind[g] \in {"approval", "plain"}
  /\ Starts(c, [IdleCall EXCEPT !.pc = "record", !.g = g, !.due = due, !.passed = (due = 0)])

\* `record_gate_approval`: of a gate that waits, or a conflict.
ApproveRecord(c) ==
  LET g == call[c].g IN
  /\ CallAt(c, "record")
  /\ IF g \in Waiting(st)
     THEN /\ seen' = [seen EXCEPT ![g].by = @ \cup {c}]
          /\ wait' = [wait EXCEPT ![g].by = @ \cup {c}]
          /\ CallTo(c, "decide")
     ELSE UNCHANGED <<seen, wait>> /\ CallEnds(c)
  /\ UNCHANGED <<kind, run, st, fin, bill, leader, pass, rerun, kill, count>>

\* The approvals of the gate's current wait are enough.
Met(g) == Cardinality(seen[g].by) >= Quorum

\* The approvals are counted again; a gate that was released meanwhile, or
\* approvals short of the rules, end the call.
ApproveDecide(c) ==
  LET g == call[c].g IN
  /\ CallAt(c, "decide")
  /\ IF st[g] = "Succeeded" \/ (kind[g] = "approval" /\ ~Met(g)) THEN CallEnds(c)
     ELSE CallGoes(c, [call[c] EXCEPT !.pc = IF kind[g] = "plain" THEN "check" ELSE "met",
                                      !.ep = seen[g].ep])
  /\ UNCHANGED <<kind, run, st, wait, seen, fin, bill, leader, pass, rerun, kill, count>>

\* `EnvironmentApprovalMet` is journalled; before its wait timer has run the
\* scheduler releases the gate, else this call does.
ApproveMet(c) ==
  LET g == call[c].g IN
  /\ CallAt(c, "met")
  /\ seen' = [seen EXCEPT ![g].due = call[c].due]
  /\ wait' = IF (st[g] = "Pending" \/ wait[g].open) /\ call[c].ep # seen[g].ep
             THEN [wait EXCEPT ![g].stale = TRUE] ELSE wait
  /\ IF call[c].passed THEN CallTo(c, "check") ELSE CallEnds(c)
  /\ UNCHANGED <<kind, run, st, fin, bill, leader, pass, rerun, kill, count>>

\* `reject_gate`, and the two verdicts of `release_gate_external`.
VerdictRead(c, g) ==
  \E passed \in BOOLEAN :
    /\ kind[g] # "deployment" /\ (passed => kind[g] = "external")
    /\ Starts(c, [IdleCall EXCEPT !.pc = "check", !.g = g, !.passed = passed])

\* `release_gate` and `reject_gate` look at the gate, then resolve it.
CallCheck(c) ==
  /\ CallAt(c, "check")
  /\ IF call[c].g \in Waiting(st) THEN CallTo(c, "resolve") ELSE CallEnds(c)
  /\ UNCHANGED <<kind, run, st, wait, seen, fin, bill, leader, pass, rerun, kill, count>>

\* A plugin learns of an open wait and answers that one.
PluginRead(c, g) ==
  \E passed \in BOOLEAN :
    /\ kind[g] = "plugin" /\ st[g] = "Pending" /\ wait[g].open /\ wait[g].inputs
    /\ Starts(c, [IdleCall EXCEPT !.pc = "answer", !.g = g, !.n = wait[g].n, !.passed = passed])

\* `resolve_plugin_gate` refuses an answer to another wait, and a late one.
PluginAnswer(c) ==
  LET g == call[c].g IN
  /\ CallAt(c, "answer")
  /\ IF g \in Waiting(st) /\ StillWaits(g, call[c].n) /\ wait[g].age < Expiry
     THEN CallTo(c, "resolve") ELSE CallEnds(c)
  /\ UNCHANGED <<kind, run, st, wait, seen, fin, bill, leader, pass, rerun, kill, count>>

\* The verdict: a plugin's is fenced by its wait, every other lands on a
\* Pending gate.
CallResolve(c) ==
  LET g == call[c].g IN
  /\ CallAt(c, "resolve")
  /\ IF st[g] = "Pending" /\ (kind[g] = "plugin" /\ call[c].n > 0 => StillWaits(g, call[c].n))
     THEN Resolve(g, call[c].passed) /\ CallTo(c, "reopen")
     ELSE UNCHANGED <<st, fin, wait>> /\ CallEnds(c)
  /\ UNCHANGED <<kind, run, seen, bill, leader, pass, rerun, kill, count>>

\* `reopen_if_runnable`.
CallReopen(c) ==
  /\ CallAt(c, "reopen")
  /\ IF run = "Suspended" /\ ~OnlyWaits(st) THEN MoveRun("Running") ELSE UNCHANGED <<run, bill>>
  /\ CallEnds(c)
  /\ UNCHANGED <<kind, st, wait, seen, fin, leader, pass, rerun, kill, count>>

\* A call is refused (a policy, the Environment, a yanked library, a failed
\* step-up) or its server stops.
CallStops(c) ==
  /\ ~CallAt(c, "idle")
  /\ CallEnds(c)
  /\ UNCHANGED <<kind, run, st, wait, seen, fin, bill, leader, pass, rerun, kill, count>>

-----------------------------------------------------------------------------
(* Rerun and retry.                                                        *)

\* `invalidation_set`: the target and everything downstream of it.
Downstream(t) ==
  {s \in Steps : \A S \in SUBSET Steps :
     (t \in S /\ \A x \in Steps : Needs[x] \cap S # {} => x \in S) => s \in S}

\* What a rerun has to re-arm: what is past Pending, and a gate's open wait.
Rearmable(s) == st[s] # "Pending" \/ (s \in Gates /\ wait[s].open)

\* History: what was approved while no wait was open ends with the episode; a
\* retry notes the waits it covers.
Covered(g, retry) ==
  IF retry THEN [wait[g] EXCEPT !.ep = 0] ELSE IF wait[g].open THEN wait[g] ELSE Close(g)[g]

\* The Steps are read, and the request journalled.  A rerun opens a new Take
\* and ends the episode of every gate it covers; a retry, of a Failed Step
\* only, does neither.
RerunRead(t, retry) ==
  LET set == Downstream(t) IN
  /\ rerun.pc = "idle" /\ count.reruns < MaxReruns /\ Room
  /\ \A d \in Needs[t] : st[d] \in {"Succeeded", "Skipped"}
  /\ retry => st[t] = "Failed"
  /\ rerun' = [pc |-> "reopen", todo |-> {s \in set : Rearmable(s)}, set |-> set,
               snap |-> st, att |-> wait]
  /\ wait' = [g \in Gates |-> IF g \in set THEN Covered(g, retry) ELSE wait[g]]
  /\ IF retry THEN UNCHANGED <<seen, bill>>
     ELSE /\ seen' = [g \in Gates |-> IF g \in set THEN Rearmed(g) ELSE seen[g]]
          /\ bill' = [billed |-> 0, counting |-> FALSE, ran |-> 0]
  /\ count' = [count EXCEPT !.reruns = @ + 1]
  /\ UNCHANGED <<kind, run, st, fin, leader, pass, call, kill>>

\* A settled Run is reopened.
RerunReopen ==
  /\ rerun.pc = "reopen"
  /\ IF run \in RunOver THEN MoveRun("Running") ELSE UNCHANGED <<run, bill>>
  /\ rerun' = IF rerun.todo = {} THEN IdleRerun ELSE [rerun EXCEPT !.pc = "rearm"]
  /\ UNCHANGED <<kind, st, wait, seen, fin, leader, pass, call, kill, count>>

\* `commit_rearm` of a Step from the status it has now.
Rearm(s) ==
  /\ IF st[s] = "Pending" THEN UNCHANGED <<st, fin>> ELSE StepMoves(s, "Pending")
  /\ seen' = IF s \in Gates /\ st[s] # "Pending" THEN [seen EXCEPT ![s] = Rearmed(s)] ELSE seen

\* Each Step of the set in turn: a waiting gate's wait is closed, or, if it
\* ended meanwhile, re-armed like any Step that was past Pending.
RerunStep ==
  LET s == First(rerun.todo) IN
  /\ rerun.pc = "rearm"
  /\ IF rerun.snap[s] = "Pending" /\ wait[s].open /\ wait[s].n = rerun.att[s].n
     THEN wait' = Close(s) /\ seen' = [seen EXCEPT ![s] = Rearmed(s)] /\ UNCHANGED <<st, fin>>
     ELSE Rearm(s) /\ UNCHANGED wait
  /\ rerun' = IF rerun.todo = {s} THEN IdleRerun ELSE [rerun EXCEPT !.todo = @ \ {s}]
  /\ UNCHANGED <<kind, run, bill, leader, pass, call, kill, count>>

\* The server stops in the middle.
RerunStops ==
  /\ rerun.pc # "idle" /\ rerun' = IdleRerun
  /\ UNCHANGED <<kind, run, st, wait, seen, fin, bill, leader, pass, call, kill, count>>

-----------------------------------------------------------------------------
(* Cancel: the operator's (`cancel_run_request`), and the leader's of a Run *)
(* over budget (`cancel_live_steps`).                                      *)

KillAt(k, pc) == kill[k].pc = pc
KillTo(k, p) == kill' = [kill EXCEPT ![k] = p]
KillItem(k) == First(kill[k].todo)
KillNext(k) ==
  [kill[k] EXCEPT !.todo = @ \ {KillItem(k)},
                  !.pc = IF kill[k].todo = {KillItem(k)} THEN "run" ELSE "steps"]

CancelRead ==
  /\ KillAt("api", "idle") /\ count.cancels < MaxCancels /\ Room /\ run \notin RunOver
  /\ KillTo("api", Killing(run))
  /\ count' = [count EXCEPT !.cancels = @ + 1]
  /\ UNCHANGED <<kind, run, st, wait, seen, fin, bill, leader, pass, call, rerun>>

\* `cancel_step`, from the status the Step has when the commit lands.
KillStep(k) ==
  LET s == KillItem(k) IN
  /\ KillAt(k, "steps")
  /\ IF st[s] \in Over
     THEN UNCHANGED <<st, fin, wait>> /\ KillTo(k, KillNext(k))
     ELSE /\ StepMoves(s, "Cancelled")
          /\ wait' = IF s \in Gates THEN [wait EXCEPT ![s].ep = 0] ELSE wait
          /\ KillTo(k, IF s \in Gates THEN [kill[k] EXCEPT !.pc = "close"] ELSE KillNext(k))
  /\ UNCHANGED <<kind, run, seen, bill, leader, pass, call, rerun, count>>

\* `cancel_open_gate_attempt`, in a commit of its own.
KillClose(k) ==
  LET g == KillItem(k) IN
  /\ KillAt(k, "close")
  /\ wait' = IF wait[g].open THEN Close(g) ELSE wait
  /\ KillTo(k, KillNext(k))
  /\ UNCHANGED <<kind, run, st, seen, fin, bill, leader, pass, call, rerun, count>>

\* The Run's own transition, if its status is still the one that was read.
CancelRun ==
  /\ KillAt("api", "run")
  /\ IF run = kill["api"].from THEN MoveRun("Cancelled") ELSE UNCHANGED <<run, bill>>
  /\ KillTo("api", IdleKill)
  /\ UNCHANGED <<kind, st, wait, seen, fin, leader, pass, call, rerun, count>>

\* The leader's is fenced, and ends the pass.
ExhaustRun(r) ==
  /\ KillAt(r, "run")
  /\ IF run = "Running" /\ leader = r THEN MoveRun("Failed") ELSE UNCHANGED <<run, bill>>
  /\ KillTo(r, IdleKill) /\ Leave(r)
  /\ UNCHANGED <<kind, st, wait, seen, fin, leader, call, rerun, count>>

\* The server that cancels for an operator stops.
CancelStops ==
  /\ ~KillAt("api", "idle") /\ KillTo("api", IdleKill)
  /\ UNCHANGED <<kind, run, st, wait, seen, fin, bill, leader, pass, call, rerun, count>>

-----------------------------------------------------------------------------
(* The rest of the system, and time.                                       *)

\* A claimed Step's Attempts end with a verdict (AttemptUnit).
Drive(s) ==
  /\ st[s] = "Running"
  /\ \E to \in {"Succeeded", "Failed"} : StepMoves(s, to)
  /\ UNCHANGED <<kind, run, wait, seen, bill, leader, pass, call, rerun, kill, count>>

\* `advance`, by any replica: all Steps are over, and the Run with them.
Settle ==
  /\ run \notin RunOver /\ \A s \in Steps : st[s] \in Over
  /\ MoveRun(IF \E s \in Steps : st[s] \in {"Failed", "Cancelled"} THEN "Failed" ELSE "Succeeded")
  /\ UNCHANGED <<kind, st, wait, seen, fin, leader, pass, call, rerun, kill, count>>

\* Another replica, or a restarted one, takes the lease and begins afresh.
NewLeader(r) ==
  /\ count.terms < MaxTerms /\ Room
  /\ leader' = r /\ count' = [count EXCEPT !.terms = @ + 1]
  /\ pass' = [pass EXCEPT ![r] = IdlePass] /\ kill' = [kill EXCEPT ![r] = IdleKill]
  /\ UNCHANGED <<kind, run, st, wait, seen, fin, bill, call, rerun>>

OlderWaits(w) == [g \in Gates |-> IF w[g].open THEN [w[g] EXCEPT !.age = Older(@)] ELSE w[g]]
Sooner(d) == IF d \in 1..Cap THEN d - 1 ELSE d
Spent(b) == IF b < Budget THEN b + 1 ELSE b

\* Time passes.
Tick ==
  /\ wait' = OlderWaits(wait)
  /\ seen' = [g \in Gates |-> [seen[g] EXCEPT !.rearm = Older(@), !.due = Sooner(@)]]
  /\ fin' = [s \in Steps |-> IF fin[s] = None THEN None ELSE Older(fin[s])]
  /\ bill' = [bill EXCEPT !.billed = IF bill.counting THEN Spent(@) ELSE @,
                          !.ran = IF run = "Running" THEN Spent(@) ELSE @]
  /\ pass' = [r \in Replicas |-> [pass[r] EXCEPT !.att = OlderWaits(@)]]
  /\ call' = [c \in Callers |-> [call[c] EXCEPT !.due = Sooner(@)]]
  /\ UNCHANGED <<kind, run, st, leader, rerun, kill, count>>

PassStep(r) ==
  \/ VisitSupersede(r) \/ VisitMint(r)
  \/ StoreInputs(r) \/ InputsFail(r) \/ Judge(r) \/ PassResolve(r)
  \/ SpareRead(r) \/ SpareSkip(r) \/ SpareRevive(r)
  \/ StaySuspended(r) \/ Resume(r) \/ OverBudget(r)
  \/ StepsRead(r) \/ AdmitPromote(r) \/ AdmitSkip(r) \/ AdmitClaim(r)
  \/ SuspendDecide(r) \/ SuspendCommit(r) \/ FencedOff(r)
  \/ KillStep(r) \/ KillClose(r) \/ ExhaustRun(r)

CallStep(c) ==
  \/ ApproveRecord(c) \/ ApproveDecide(c) \/ ApproveMet(c) \/ CallCheck(c)
  \/ PluginAnswer(c) \/ CallResolve(c) \/ CallReopen(c)

CancelStep == KillStep("api") \/ KillClose("api") \/ CancelRun
RerunGoesOn == RerunReopen \/ RerunStep

Next ==
  \/ \E r \in Replicas : PassBegin(r) \/ PassStep(r) \/ NewLeader(r)
  \/ \E c \in Callers : CallStep(c) \/ CallStops(c)
  \/ \E c \in Callers, g \in Gates : ApproveRead(c, g) \/ VerdictRead(c, g) \/ PluginRead(c, g)
  \/ \E t \in Steps, retry \in BOOLEAN : RerunRead(t, retry)
  \/ RerunGoesOn \/ RerunStops
  \/ CancelRead \/ CancelStep \/ CancelStops
  \/ \E s \in Work : Drive(s)
  \/ Settle \/ Tick

Spec == Init /\ [][Next]_vars

\* The leader loops; a claimed Step's Attempts end; what was begun goes on
\* unless its server stops; time passes.
Fairness ==
  /\ \A r \in Replicas : SF_vars(PassBegin(r)) /\ WF_vars(PassStep(r))
  /\ \A c \in Callers : WF_vars(CallStep(c))
  /\ WF_vars(CancelStep) /\ WF_vars(RerunGoesOn)
  /\ \A s \in Work : WF_vars(Drive(s))
  /\ WF_vars(Settle) /\ WF_vars(Tick)

FairSpec == Spec /\ Fairness

-----------------------------------------------------------------------------
(* Properties.                                                             *)

\* A Suspended Run has nothing claimed: whoever suspended it read its Steps
\* after its own claim, and nobody else may promote (`admit_as_leader`).
SuspendedIsIdle == run = "Suspended" => \A s \in Steps : st[s] \notin {"Ready", "Running"}

\* An open wait's clock is never ahead of the wait itself: a timer gate does
\* not release, nor a gate expire, before its time has run since its needs
\* finished and since its latest re-arm (`wait_began_at`).
ClockOfItsOwnWait ==
  \A g \in Gates :
    (wait[g].open /\ g \in Waiting(st) /\ wait[g].ep = seen[g].ep) =>
      wait[g].age <= seen[g].rearm /\ \A n \in Needs[g] : wait[g].age <= fin[n]

\* What the log bills is never more than the time spent in Running in the
\* current Take (`enforce_run_budget`).
OnlyActiveTimeBills == bill.billed <= bill.ran

\* An approval gate passes on the approvals of its current wait only: whatever
\* an expired, rejected or rerun wait collected is asked for again
\* (`gate_approvers`).  Excepted is what an approval that was decided before
\* the re-arm still writes after it.
ApprovalsOfThisWait ==
  [][\A g \in Gates :
       (kind[g] = "approval" /\ st[g] = "Pending" /\ st'[g] = "Succeeded") =>
         \/ Cardinality(wait[g].by) >= Quorum
         \/ wait[g].stale
         \/ \E c \in Callers : CallAt(c, "resolve") /\ call[c].g = g /\ call[c].ep # seen[g].ep]_vars

\* A gate does not wait for ever: it is released, fails, expires or is ended
\* with its Run.
WaitsEnd == \A g \in Gates : g \in Waiting(st) ~> g \notin Waiting(st)

\* A Suspended Run that has something to do, or nothing left to wait for, goes
\* on, whoever released its gate and whatever the suspension was decided on.
SuspendedResumes == (run = "Suspended" /\ ~OnlyWaits(st)) ~> (run # "Suspended" \/ OnlyWaits(st))

=============================================================================
