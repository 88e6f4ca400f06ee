---------------------------- MODULE RunLifecycle ----------------------------
(***************************************************************************)
(* One admitted Run: its Steps and their needs, and everybody who moves    *)
(* them.  Each replica's scheduler loop admits (as the leader) and advances*)
(* the Run from snapshots it read earlier; drivers launch and settle the   *)
(* claimed Steps; the API reruns a Step and cancels the Run, one commit at *)
(* a time, without a lease.                                                *)
(*                                                                         *)
(* Every write is a compare-and-set on one row.  What is read before it is *)
(* not, and that is what the module is about.  Steps are plain: gates,     *)
(* shared services, the run budget and the wait for a concurrency slot are *)
(* left out.  How one Attempt is launched, settled and torn down is        *)
(* AttemptUnit's; here a verdict lands in one step.                        *)
(***************************************************************************)
EXTENDS Naturals, Sequences

CONSTANTS
  Steps,        \* the Step ids
  Needs,        \* [Steps -> SUBSET Steps], acyclic
  Order,        \* the Steps in the order of `ORDER BY step_id`
  Replicas,     \* the server processes that run a scheduler loop
  Contents,     \* the contents a Step's output may have
  MaxAttempts,  \* bound: attempts of a Step before a failure is final
  MaxReruns,    \* bound: rerun and retry requests
  MaxCancels,   \* bound: cancel requests
  MaxTerms      \* bound: changes of leader

ASSUME RunLifecycleAssumption ==
  /\ Steps # {} /\ Needs \in [Steps -> SUBSET Steps]
  /\ Order \in Seq(Steps) /\ \A s \in Steps : \E i \in DOMAIN Order : Order[i] = s
  /\ Replicas # {} /\ 0 \notin Contents
  /\ MaxAttempts \in Nat /\ MaxReruns \in Nat /\ MaxCancels \in Nat /\ MaxTerms \in Nat

VARIABLES
  run,      \* the Run's status
  gen,      \* its reopen_generation
  posts,    \* the status posts written for the forge: <<generation, status>>
  st,       \* each Step's status
  tries,    \* each Step's Attempts since the last rerun that covers it
  out,      \* the outcome of each Step's latest Attempt
  work,     \* each latest Attempt: nobody drives it, to launch, launched
  ident,    \* the content identity of each Step's recorded output (0: none)
  sig,      \* the input signature each Step was last promoted with
  input,    \* the contents each Step's latest launch consumed
  made,     \* the contents each Step's recorded output was made from
  leader,   \* the replica that holds the lease
  loop,     \* each replica's scheduler loop
  api,      \* the rerun request in progress
  cancel,   \* the cancel request in progress
  count     \* how many reruns, cancels and leader changes there were

vars == <<run, gen, posts, st, tries, out, work, ident, sig, input, made,
          leader, loop, api, cancel, count>>

runRow   == <<run, gen, posts>>
stepRows == <<st, tries, out, work>>
data     == <<ident, sig, input, made>>
actors   == <<leader, loop, api, cancel, count>>

StepStatus == {"Pending", "Ready", "Running", "Succeeded", "Failed", "Skipped", "Cancelled"}
Over == {"Succeeded", "Failed", "Skipped", "Cancelled"}   \* is_terminal

RunOver == {"Succeeded", "Failed", "Cancelled", "DeadLettered"}
RunStatus == {"Running"} \cup RunOver

AttemptOutcome == {"none", "Running", "Succeeded", "Failed", "Superseded", "Cancelled"}

Snapshot == [Steps -> StepStatus]
Identity == Contents \cup {0}

\* An input signature names the identity of each consumed need.
Signature == [Steps -> Identity]
NoSig == <<>>

Consumed(s, ids) == [d \in Steps |-> IF d \in Needs[s] THEN ids[d] ELSE 0]

Fresh == [s \in Steps |-> "Pending"]
Blank == [s \in Steps |-> 0]

IdleLoop == [pc |-> "idle", i |-> 1, snap |-> Fresh, ids |-> Blank, to |-> "Running", gen |-> 0]
IdleApi  == [pc |-> "idle", i |-> 1, snap |-> Fresh, target |-> Order[1]]
IdleCancel == [pc |-> "idle", i |-> 1, snap |-> Fresh]

Index == 1..Len(Order)

LoopState == [pc : {"idle", "ids", "steps", "claim", "status", "settle"}, i : Index,
              snap : Snapshot, ids : [Steps -> Identity], to : RunStatus, gen : Nat]
ApiState == [pc : {"idle", "clear", "reopen", "rearm"}, i : Index, snap : Snapshot,
             target : Steps]
CancelState == [pc : {"idle", "steps", "run"}, i : Index, snap : Snapshot]

\* The type of the state; and an Attempt is in flight only while its Step is
\* Running.
TypeOK ==
  /\ run \in RunStatus /\ gen \in Nat /\ posts \subseteq (Nat \X RunStatus)
  /\ st \in Snapshot /\ tries \in [Steps -> Nat]
  /\ out \in [Steps -> AttemptOutcome]
  /\ work \in [Steps -> {"none", "intent", "unit"}]
  /\ ident \in [Steps -> Identity]
  /\ sig \in [Steps -> Signature \cup {NoSig}]
  /\ input \in [Steps -> Signature] /\ made \in [Steps -> Signature]
  /\ leader \in Replicas
  /\ loop \in [Replicas -> LoopState] /\ api \in ApiState /\ cancel \in CancelState
  /\ count \in [reruns : Nat, cancels : Nat, terms : Nat]
  /\ \A s \in Steps : out[s] = "Running" => st[s] = "Running"

Init ==
  /\ run = "Running" /\ gen = 0 /\ posts = {}
  /\ st = Fresh /\ tries = Blank
  /\ out = [s \in Steps |-> "none"] /\ work = [s \in Steps |-> "none"]
  /\ ident = Blank /\ sig = [s \in Steps |-> NoSig]
  /\ input = [s \in Steps |-> Blank] /\ made = [s \in Steps |-> Blank]
  /\ leader \in Replicas
  /\ loop = [r \in Replicas |-> IdleLoop]
  /\ api = IdleApi /\ cancel = IdleCancel
  /\ count = [reruns |-> 0, cancels |-> 0, terms |-> 0]

-----------------------------------------------------------------------------
(* Pieces.                                                                 *)

\* Mutant: the post is keyed per (run, state) alone.
KeyedByState(g, to) == <<0, to>>

\* `run_status_post_key`: per generation and state.
PostKey(g, to) == <<g, to>>

\* The commit of a Run transition: the status, and the post in its outbox.  A
\* transition out of a terminal status opens the next generation.
MoveRun(to) ==
  /\ run' = to
  /\ gen' = IF run \in RunOver THEN gen + 1 ELSE gen
  /\ posts' = posts \cup {PostKey(gen', to)}

\* A Step row leaves for status `to` and its in-flight Attempt, if any, ends
\* with `outcome`.
MoveStep(s, to, outcome) ==
  /\ st' = [st EXCEPT ![s] = to]
  /\ out' = [out EXCEPT ![s] = IF st[s] = "Running" THEN outcome ELSE @]
  /\ work' = [work EXCEPT ![s] = "none"]
  /\ UNCHANGED tries

\* Mutant: a need that is over counts as met.
SatisfiedWhenOver(s, snap) == \A d \in Needs[s] : snap[d] \in Over

\* `deps_satisfied`, over a snapshot.
Satisfied(s, snap) == \A d \in Needs[s] : snap[d] = "Succeeded"

\* Mutant: only a failed need is dead, not a skipped or cancelled one.
DepFailed(s, snap) == \E d \in Needs[s] : snap[d] = "Failed"

\* `dep_dead`, over a snapshot.
DepDead(s, snap) == \E d \in Needs[s] : snap[d] \in Over \ {"Succeeded"}

\* `invalidation_set`: the target and every Step that transitively needs it.
\* The fixpoint is reached in as many rounds as there are Steps.
Invalidated(t) ==
  LET grow[n \in Nat] ==
        IF n = 0 THEN {t}
        ELSE grow[n - 1] \cup {s \in Steps : Needs[s] \cap grow[n - 1] # {}}
  IN  grow[Len(Order)]

LoopAt(r, pc) == loop[r].pc = pc
Leave(r) == loop' = [loop EXCEPT ![r] = IdleLoop]

-----------------------------------------------------------------------------
(* admit_as_leader.                                                        *)

\* The leader finds the Run live and takes the pass's snapshot of its Steps.
AdmitBegin(r) ==
  /\ LoopAt(r, "idle")
  /\ leader = r
  /\ run \notin RunOver
  /\ loop' = [loop EXCEPT ![r].pc = "ids", ![r].snap = st]
  /\ UNCHANGED <<runRow, stepRows, data, leader, api, cancel, count>>

\* The identities recorded so far, for the signatures.
AdmitIdentities(r) ==
  /\ LoopAt(r, "ids")
  /\ loop' = [loop EXCEPT ![r].pc = "steps", ![r].ids = ident]
  /\ UNCHANGED <<runRow, stepRows, data, leader, api, cancel, count>>

\* The Step a replica's admission is at.
Turn(r) == Order[loop[r].i]

AdmitMove(r) ==
  loop' = [loop EXCEPT ![r].i = IF @ < Len(Order) THEN @ + 1 ELSE 1,
                       ![r].pc = IF loop[r].i < Len(Order) THEN "steps" ELSE "claim"]

\* A re-armed Step whose inputs did not change keeps its output.
Unchanged(r, s) ==
  loop[r].ids[s] # 0 /\ sig[s] = Consumed(s, loop[r].ids)

Admissible(r, s) == loop[r].snap[s] = "Pending" /\ Satisfied(s, loop[r].snap)

\* `skip_unchanged`: Pending to Succeeded with no Attempt, unfenced.
AdmitUnchanged(r) ==
  LET s == Turn(r) IN
  /\ LoopAt(r, "steps")
  /\ Admissible(r, s) /\ Unchanged(r, s)
  /\ IF st[s] = "Pending" THEN MoveStep(s, "Succeeded", "none") ELSE UNCHANGED stepRows
  /\ AdmitMove(r)
  /\ UNCHANGED <<runRow, data, leader, api, cancel, count>>

\* `promote_step`: fenced; Pending to Ready with the signature.
AdmitPromote(r) ==
  LET s == Turn(r) IN
  /\ LoopAt(r, "steps")
  /\ Admissible(r, s) /\ ~Unchanged(r, s)
  /\ leader = r
  /\ IF st[s] = "Pending"
     THEN /\ MoveStep(s, "Ready", "none")
          /\ sig' = [sig EXCEPT ![s] = Consumed(s, loop[r].ids)]
     ELSE UNCHANGED <<stepRows, sig>>
  /\ AdmitMove(r)
  /\ UNCHANGED <<runRow, ident, input, made, leader, api, cancel, count>>

\* A Step behind a need that can no longer succeed is Skipped, unfenced.
AdmitSkip(r) ==
  LET s == Turn(r) IN
  /\ LoopAt(r, "steps")
  /\ loop[r].snap[s] = "Pending"
  /\ DepDead(s, loop[r].snap)
  /\ IF st[s] = "Pending" THEN MoveStep(s, "Skipped", "none") ELSE UNCHANGED stepRows
  /\ AdmitMove(r)
  /\ UNCHANGED <<runRow, data, leader, api, cancel, count>>

\* Not Pending, or its needs are still going: passed over.
AdmitPass(r) ==
  LET s == Turn(r) IN
  /\ LoopAt(r, "steps")
  /\ \/ loop[r].snap[s] # "Pending"
     \/ ~Satisfied(s, loop[r].snap) /\ ~DepDead(s, loop[r].snap)
  /\ AdmitMove(r)
  /\ UNCHANGED <<runRow, stepRows, data, leader, api, cancel, count>>

\* `claim_ready_steps`: fenced; every Ready Step is Running on a new Attempt,
\* with its launch intent, in one commit.
AdmitClaim(r) ==
  LET ready == {s \in Steps : st[s] = "Ready"} IN
  /\ LoopAt(r, "claim")
  /\ leader = r
  /\ st' = [s \in Steps |-> IF s \in ready THEN "Running" ELSE st[s]]
  /\ tries' = [s \in Steps |-> IF s \in ready THEN tries[s] + 1 ELSE tries[s]]
  /\ out' = [s \in Steps |-> IF s \in ready THEN "Running" ELSE out[s]]
  /\ work' = [s \in Steps |-> IF s \in ready THEN "intent" ELSE work[s]]
  /\ Leave(r)
  /\ UNCHANGED <<runRow, data, leader, api, cancel, count>>

\* A deposed leader's next fenced write is refused: the leg ends.
FencedOff(r) ==
  /\ leader # r
  /\ \/ LoopAt(r, "claim")
     \/ LoopAt(r, "steps") /\ Admissible(r, Turn(r)) /\ ~Unchanged(r, Turn(r))
  /\ Leave(r)
  /\ UNCHANGED <<runRow, stepRows, data, leader, api, cancel, count>>

-----------------------------------------------------------------------------
(* advance: any replica, no fence.                                         *)

\* The verdict of a set of finished Steps.  Whether a Failed Step died without
\* a verdict of its code (infra, lost) is its last Attempt's.
Verdicts(snap) ==
  IF \E s \in Steps : snap[s] = "Failed" THEN {"Failed", "DeadLettered"}
  ELSE IF \E s \in Steps : snap[s] = "Cancelled" THEN {"Failed"}
  ELSE {"Succeeded"}

\* The Steps are read and all are terminal.
AdvanceRead(r) ==
  /\ LoopAt(r, "idle")
  /\ \A s \in Steps : st[s] \in Over
  /\ \E to \in Verdicts(st) :
       loop' = [loop EXCEPT ![r].pc = "status", ![r].to = to]
  /\ UNCHANGED <<runRow, stepRows, data, leader, api, cancel, count>>

\* The Run's status, and the generation its transition is guarded on.
AdvanceStatus(r) ==
  /\ LoopAt(r, "status")
  /\ IF run \in RunOver THEN Leave(r)
     ELSE loop' = [loop EXCEPT ![r].pc = "settle", ![r].gen = gen]
  /\ UNCHANGED <<runRow, stepRows, data, leader, api, cancel, count>>

\* The guard of the Run's commit: the status and the generation as read.
StillSameRun(r) == run \notin RunOver /\ gen = loop[r].gen

\* `commit_run_transition`, or a conflict that writes nothing.
AdvanceCommit(r) ==
  /\ LoopAt(r, "settle")
  /\ IF StillSameRun(r) THEN MoveRun(loop[r].to) ELSE UNCHANGED runRow
  /\ Leave(r)
  /\ UNCHANGED <<stepRows, data, leader, api, cancel, count>>

-----------------------------------------------------------------------------
(* The drivers of the claimed Steps (AttemptUnit, in one step each).       *)

\* The launch consumes the outputs its needs have now.
Launch(s) ==
  /\ work[s] = "intent"
  /\ IF run \in RunOver
     THEN work' = [work EXCEPT ![s] = "none"] /\ UNCHANGED input
     ELSE /\ work' = [work EXCEPT ![s] = "unit"]
          /\ input' = [input EXCEPT ![s] = Consumed(s, ident)]
  /\ UNCHANGED <<runRow, st, tries, out, ident, sig, made, actors>>

Succeed(s) ==
  /\ work[s] = "unit"
  /\ MoveStep(s, "Succeeded", "Succeeded")
  /\ \E c \in Contents : ident' = [ident EXCEPT ![s] = c]
  /\ made' = [made EXCEPT ![s] = input[s]]
  /\ UNCHANGED <<runRow, sig, input, actors>>

\* A failure with attempts left in this Take re-arms the Step; else it is
\* final.
Fail(s) ==
  /\ work[s] = "unit"
  /\ MoveStep(s, IF tries[s] < MaxAttempts THEN "Ready" ELSE "Failed", "Failed")
  /\ UNCHANGED <<runRow, data, actors>>

-----------------------------------------------------------------------------
(* rerun_step and retry_step: the API, no lease, one request at a time.    *)

\* `blocking_dep`: a need that neither succeeded nor was skipped.
Blocked(t) == \E d \in Needs[t] : st[d] \notin {"Succeeded", "Skipped"}

\* The Steps are read, the rerun is allowed, and its RunRerunRequested event
\* starts the covered Steps' attempt counts over.
RerunRead(t) ==
  /\ api.pc = "idle"
  /\ count.reruns < MaxReruns
  /\ ~Blocked(t)
  /\ api' = [pc |-> "clear", i |-> 1, snap |-> st, target |-> t]
  /\ tries' = [s \in Steps |-> IF s \in Invalidated(t) THEN 0 ELSE tries[s]]
  /\ count' = [count EXCEPT !.reruns = @ + 1]
  /\ UNCHANGED <<runRow, st, out, work, data, leader, loop, cancel>>

\* `retry_step`: of a Failed Step only, and within the current Take, so the
\* attempt counts go on.
RetryRead(t) ==
  /\ api.pc = "idle"
  /\ count.reruns < MaxReruns
  /\ st[t] = "Failed" /\ ~Blocked(t)
  /\ api' = [pc |-> "clear", i |-> 1, snap |-> st, target |-> t]
  /\ count' = [count EXCEPT !.reruns = @ + 1]
  /\ UNCHANGED <<runRow, stepRows, data, leader, loop, cancel>>

\* The target's signature is cleared, so that it is never taken as unchanged.
RerunClear ==
  /\ api.pc = "clear"
  /\ sig' = [sig EXCEPT ![api.target] = NoSig]
  /\ api' = [api EXCEPT !.pc = "reopen"]
  /\ UNCHANGED <<runRow, stepRows, ident, input, made, leader, loop, cancel, count>>

\* A settled Run is reopened, before any Step is re-armed.
RerunReopen ==
  /\ api.pc = "reopen"
  /\ IF run \in RunOver THEN MoveRun("Running") ELSE UNCHANGED runRow
  /\ api' = [api EXCEPT !.pc = "rearm"]
  /\ UNCHANGED <<stepRows, data, leader, loop, cancel, count>>

\* Mutant: an in-flight Attempt of a re-armed Step is not stamped.
RearmUnstamped(s) == MoveStep(s, "Pending", "Running")

\* `commit_rearm`, from the Step's live status (`rearm_raced_step` reads it
\* again on a conflict); an in-flight Attempt is superseded.
RearmStep(s) == MoveStep(s, "Pending", "Superseded")

\* The covered Steps, one commit each, in row order.  A Step that was Pending
\* when the Steps were read is not written.
RerunRearm ==
  LET s == Order[api.i] IN
  /\ api.pc = "rearm"
  /\ IF /\ s \in Invalidated(api.target)
        /\ api.snap[s] # "Pending"
        /\ st[s] # "Pending"
     THEN RearmStep(s)
     ELSE UNCHANGED stepRows
  /\ api' = IF api.i < Len(Order) THEN [api EXCEPT !.i = @ + 1] ELSE IdleApi
  /\ UNCHANGED <<runRow, data, leader, loop, cancel, count>>

-----------------------------------------------------------------------------
(* cancel_run_request: the API, no lease.                                  *)

\* The Run is live, and its Steps are read.
CancelRead ==
  /\ cancel.pc = "idle"
  /\ count.cancels < MaxCancels
  /\ run \notin RunOver
  /\ cancel' = [pc |-> "steps", i |-> 1, snap |-> st]
  /\ count' = [count EXCEPT !.cancels = @ + 1]
  /\ UNCHANGED <<runRow, stepRows, data, leader, loop, api>>

\* Mutant: a Step that moved since it was read is left alone.
CancelIfUnmoved(s) == st[s] = cancel.snap[s] /\ st[s] \notin Over

\* A Step read as terminal is left alone; any other is cancelled from its live
\* status, unless that is terminal.
CancelDue(s) == cancel.snap[s] \notin Over /\ st[s] \notin Over

\* Mutant: an in-flight Attempt of a cancelled Step is not stamped.
CancelUnstamped(s) == MoveStep(s, "Cancelled", "Running")

\* The commit of `cancel_step`.
CancelCommit(s) == MoveStep(s, "Cancelled", "Cancelled")

\* `cancel_step`, one commit per Step, in row order.
CancelStep ==
  LET s == Order[cancel.i] IN
  /\ cancel.pc = "steps"
  /\ IF CancelDue(s) THEN CancelCommit(s) ELSE UNCHANGED stepRows
  /\ cancel' = IF cancel.i < Len(Order) THEN [cancel EXCEPT !.i = @ + 1]
               ELSE [cancel EXCEPT !.pc = "run", !.i = 1]
  /\ UNCHANGED <<runRow, data, leader, loop, api, count>>

\* The Run's `-> Cancelled`, from the status read first, or a conflict.
CancelRun ==
  /\ cancel.pc = "run"
  /\ IF run \notin RunOver THEN MoveRun("Cancelled") ELSE UNCHANGED runRow
  /\ cancel' = IdleCancel
  /\ UNCHANGED <<stepRows, data, leader, loop, api, count>>

-----------------------------------------------------------------------------

\* The lease changes hands (Leadership).
NewLeader ==
  /\ count.terms < MaxTerms
  /\ leader' \in Replicas \ {leader}
  /\ count' = [count EXCEPT !.terms = @ + 1]
  /\ UNCHANGED <<runRow, stepRows, data, loop, api, cancel>>

Admit(r) ==
  \/ AdmitBegin(r) \/ AdmitIdentities(r) \/ AdmitUnchanged(r) \/ AdmitPromote(r)
  \/ AdmitSkip(r) \/ AdmitPass(r) \/ AdmitClaim(r) \/ FencedOff(r)

Advance(r) == AdvanceRead(r) \/ AdvanceStatus(r) \/ AdvanceCommit(r)

Drive(s) == Launch(s) \/ Succeed(s) \/ Fail(s)

Rerun == (\E t \in Steps : RerunRead(t) \/ RetryRead(t)) \/ RerunClear \/ RerunReopen \/ RerunRearm

CancelRequest == CancelRead \/ CancelStep \/ CancelRun

Next ==
  \/ \E r \in Replicas : Admit(r) \/ Advance(r)
  \/ \E s \in Steps : Drive(s)
  \/ Rerun \/ CancelRequest \/ NewLeader

Spec == Init /\ [][Next]_vars

\* Each replica's loop goes on: every tick admits and then advances every
\* active Run, so neither starves the other.  Drivers and requests go on too.
Fairness ==
  /\ \A r \in Replicas :
       /\ WF_vars(Admit(r) \/ Advance(r))
       /\ SF_vars(AdmitBegin(r)) /\ SF_vars(AdvanceRead(r))
  /\ \A s \in Steps : WF_vars(Drive(s))
  /\ WF_vars(RerunClear \/ RerunReopen \/ RerunRearm)
  /\ WF_vars(CancelStep \/ CancelRun)

FairSpec == Spec /\ Fairness

-----------------------------------------------------------------------------
(* Properties.                                                             *)

Requests == api.pc # "idle" \/ cancel.pc # "idle"

\* A settled Run is settled: once it is terminal and no request is at work,
\* none of its Steps is left waiting or running (a terminal Run is not admitted
\* again; and no half-cancelled limbo).
SettledIsSettled ==
  run \in RunOver /\ ~Requests => \A s \in Steps : st[s] \in Over

\* A Step starts only after all its needs succeeded.
StartsAfterNeeds ==
  [][\A s \in Steps : st[s] # "Running" /\ st'[s] = "Running"
       => \A d \in Needs[s] : st[d] = "Succeeded"]_vars

\* Every transition of the Run has a status post of its own: none is lost to
\* the idempotency key of an earlier one.
EachTransitionPosted ==
  [][run' # run => PostKey(gen', run') \notin posts /\ posts' # posts]_vars

\* The Run comes to an end, and again each time a rerun reopens it.
RunSettles == []<>(run \in RunOver)

=============================================================================
