---------------------------- MODULE AttemptUnit ----------------------------
(***************************************************************************)
(* One Attempt of a Step: its launch intent, the backend unit (a Pod or a  *)
(* process) the intent creates, and the intents that tear the unit down.   *)
(*                                                                         *)
(* Each replica runs one scheduler loop: it claims an outbox message and   *)
(* works through it, one durable or backend call at a time.  A launch      *)
(* intent is worked only while its claim is held (`while_claimed`); a      *)
(* teardown intent is not renewed, so two replicas may drain it at once.   *)
(* Meanwhile the Run may be cancelled, rerun, settled and reopened, the    *)
(* unit exits or vanishes, calls fail, and replicas crash or are paused.   *)
(*                                                                         *)
(* An Attempt that has a successor can only write through guards that fail *)
(* for it, so one Attempt, and whether it is the latest, is enough state.  *)
(***************************************************************************)
EXTENDS Naturals

CONSTANTS
  Replicas,     \* the server processes that run a scheduler loop
  None,         \* nobody has claimed the launch intent
  MaxFailures,  \* MAX_DELIVERY_ATTEMPTS: the poison ceiling of a message
  MaxErrors,    \* bound: calls of a message's work that return an error
  MaxCrashes,   \* bound: process crashes
  MaxPauses,    \* bound: pauses of a driver past its claim's window
  Refusals      \* whether a launch may be refused (`ExecError::Refused`)

ASSUME AttemptUnitAssumption ==
  /\ None \notin Replicas
  /\ MaxFailures \in Nat \ {0}
  /\ MaxErrors \in Nat /\ MaxCrashes \in Nat /\ MaxPauses \in Nat
  /\ Refusals \in BOOLEAN

VARIABLES
  status,    \* the Step's status
  latest,    \* whether this Attempt is the Step's latest
  outcome,   \* the Attempt's outcome column
  runLive,   \* whether the Run is in a non-terminal status
  evidence,  \* whose output the Step row carries: no Attempt's, ours, a newer
  handle,    \* whether the Attempt's backend handle is recorded
  unit,      \* the backend unit
  msg,       \* the outbox message of each kind
  fails,     \* each message's delivery_attempts
  driver,    \* claimed_by of the launch intent
  at,        \* each replica: where it is, in which message, what it saw
  forsaken,  \* whether a unit was knowingly given up on
  faults     \* errors, crashes and pauses so far

vars == <<status, latest, outcome, runLive, evidence, handle, unit, msg, fails,
          driver, at, forsaken, faults>>

step == <<status, latest, outcome>>
box  == <<msg, fails>>

StepStatus == {"Pending", "Ready", "Running", "Succeeded", "Failed", "Cancelled"}
AttemptOutcome == {"Running", "Succeeded", "Failed", "Superseded", "Cancelled"}

\* An outcome by intent: the unit is torn down on purpose.
ByIntent == {"Superseded", "Cancelled"}

\* `late` is the CANCEL_ATTEMPT keyed `...:launch`.
Teardowns == {"cancel", "supersede", "late"}
Kinds == {"launch"} \cup Teardowns

UnitState ==
  {"none",         \* never created
   "alive",        \* running
   "ok", "bad",    \* exited; the backend still has the object
   "terminating",  \* cancel accepted, in its grace
   "gone"}         \* no such object any more

\* The places of process_launch_intent, inside `while_claimed`.
Driving ==
  {"handle", "wanted", "wantedRun", "launch", "landed", "record", "recheck",
   "recheckRun", "adopt", "late", "poll", "evidence", "settle", "stamp",
   "commit", "dispatch"}

\* The places of the poison path of `reconcile`.
Poisoning == {"poison", "deadRun", "cancelStep", "endRun"}

\* The places of drain_attempt_teardowns.
Draining == {"tHandle", "tCancel", "tGone", "tKey", "tRetire", "tCount", "tAbandon"}

Seen == {"-", "ok", "fail", "retry", "config", "terminating", "launching", "failed"}

Places == [pc : {"idle", "renew"} \cup Driving \cup Poisoning \cup Draining,
           kind : Kinds, saw : Seen]

Faults == [errors : 0..MaxErrors, crashes : 0..MaxCrashes, pauses : 0..MaxPauses]

\* The type of the state; and no late teardown is owed for an Attempt whose
\* handle is not recorded, which its drain would take for a unit never created.
TypeOK ==
  /\ status \in StepStatus /\ latest \in BOOLEAN /\ outcome \in AttemptOutcome
  /\ runLive \in BOOLEAN /\ handle \in BOOLEAN /\ forsaken \in BOOLEAN
  /\ evidence \in {"none", "ours", "newer"}
  /\ unit \in UnitState
  /\ msg \in [Kinds -> {"absent", "pending", "dispatched", "dead"}]
  /\ fails \in [Kinds -> 0..MaxFailures]
  /\ driver \in Replicas \cup {None}
  /\ at \in [Replicas -> Places]
  /\ faults \in Faults
  /\ msg["late"] # "absent" => handle

Idle == [pc |-> "idle", kind |-> "launch", saw |-> "-"]

\* `claim_ready_steps` has just committed: the Step is Running on a new
\* Attempt and its launch intent is pending.
Init ==
  /\ status = "Running" /\ latest = TRUE /\ outcome = "Running"
  /\ runLive = TRUE /\ evidence = "none" /\ handle = FALSE /\ unit = "none"
  /\ msg = [k \in Kinds |-> IF k = "launch" THEN "pending" ELSE "absent"]
  /\ fails = [k \in Kinds |-> 0]
  /\ driver = None
  /\ at = [r \in Replicas |-> Idle]
  /\ forsaken = FALSE
  /\ faults = [errors |-> 0, crashes |-> 0, pauses |-> 0]

-----------------------------------------------------------------------------
(* Pieces.                                                                 *)

At(r, pc) == at[r].pc = pc
Goto(r, pc) == at' = [at EXCEPT ![r].pc = pc]
GotoWith(r, pc, saw) == at' = [at EXCEPT ![r].pc = pc, ![r].saw = saw]
Finish(r) == at' = [at EXCEPT ![r] = Idle]

\* `in_flight_attempt`: the Step is Running on this Attempt, not yet stamped.
InFlight == status = "Running" /\ latest /\ outcome = "Running"

\* An INSERT ... ON CONFLICT (idempotency_key) DO NOTHING of kind k.
Enqueued(k) == IF msg[k] = "absent" THEN [msg EXCEPT ![k] = "pending"] ELSE msg

\* Mutant: an outcome stamp that overwrites a stamp by intent.
StampBlindly(o) == o

\* `update_attempt_outcome`, `update_attempt_failure`: a stamp by intent is
\* never overwritten.
Stamp(o) == IF outcome \in ByIntent THEN outcome ELSE o

\* The backend's `cancel`: an existing object is deleted, gracefully if it
\* runs; a missing one is no error.
Cancelled(u) ==
  CASE u \in {"ok", "bad"} -> "gone"
    [] u = "alive" -> "terminating"
    [] OTHER -> u

\* `record_outbox_failure`; only reaching the ceiling matters, so the count
\* stops there.
Counted(k) == [fails EXCEPT ![k] = IF @ < MaxFailures THEN @ + 1 ELSE @]

MayFail == faults.errors < MaxErrors
CallFails == faults' = [faults EXCEPT !.errors = @ + 1]

\* `cancel_step` on the Step's live row, in one commit: an in-flight Attempt
\* is stamped and its CANCEL_ATTEMPT written; a terminal Step is left alone.
CancelStepCommit ==
  /\ IF latest /\ status \in {"Pending", "Ready", "Running"}
     THEN /\ status' = "Cancelled"
          /\ outcome' = IF InFlight THEN "Cancelled" ELSE outcome
          /\ msg' = IF InFlight THEN Enqueued("cancel") ELSE msg
     ELSE UNCHANGED <<status, outcome, msg>>
  /\ UNCHANGED latest

-----------------------------------------------------------------------------
(* Claiming.                                                               *)

\* Mutant: a claim lasts until its message is dispatched.
ClaimNeverLapses(q) == q # None

\* Whether replica q is still at work, renewing, on the launch intent.
Renewing(q) == q # None /\ at[q].pc \in Driving

\* `claim_outbox(LAUNCH_STEP)`.  A claim nobody renews lapses; one that is
\* renewed lapses only if its replica is paused past the window.
ClaimLaunch(r) ==
  /\ At(r, "idle")
  /\ msg["launch"] = "pending"
  /\ \/ ~Renewing(driver) /\ UNCHANGED faults
     \/ /\ Renewing(driver) /\ driver # r
        /\ faults.pauses < MaxPauses
        /\ faults' = [faults EXCEPT !.pauses = @ + 1]
  /\ driver' = r
  /\ at' = [at EXCEPT ![r] = [pc |-> "renew", kind |-> "launch", saw |-> "-"]]
  /\ UNCHANGED <<step, runLive, evidence, handle, unit, box, forsaken>>

HoldsClaim(r) == driver = r /\ msg["launch"] = "pending"

\* `while_claimed` checks the claim before the work starts.
RenewFirst(r) ==
  /\ At(r, "renew")
  /\ IF HoldsClaim(r) THEN Goto(r, "handle") ELSE Finish(r)
  /\ UNCHANGED <<step, runLive, evidence, handle, unit, box, driver, forsaken, faults>>

\* A renewal finds the claim lost: the work is dropped where it stands.
DropWork(r) ==
  /\ at[r].pc \in Driving
  /\ ~HoldsClaim(r)
  /\ Finish(r)
  /\ UNCHANGED <<step, runLive, evidence, handle, unit, box, driver, forsaken, faults>>

-----------------------------------------------------------------------------
(* process_launch_intent: launch or adopt.                                 *)

\* Mutant: a recorded handle is not looked up.
LaunchAnyway(r) ==
  /\ At(r, "handle")
  /\ Goto(r, "wanted")
  /\ UNCHANGED <<step, runLive, evidence, handle, unit, box, driver, forsaken, faults>>

\* A recorded handle: poll only.  None: this Attempt never observably
\* launched.
ReadHandle(r) ==
  /\ At(r, "handle")
  /\ Goto(r, IF handle THEN "poll" ELSE "wanted")
  /\ UNCHANGED <<step, runLive, evidence, handle, unit, box, driver, forsaken, faults>>

\* `launch_still_wanted` is two reads, the Step's and then the Run's.
LaunchWanted(r) ==
  /\ \/ At(r, "wanted") /\ Goto(r, IF InFlight THEN "wantedRun" ELSE "adopt")
     \/ At(r, "wantedRun") /\ Goto(r, IF runLive THEN "launch" ELSE "adopt")
     \/ At(r, "recheck") /\ Goto(r, IF InFlight THEN "recheckRun" ELSE "late")
     \/ At(r, "recheckRun") /\ Goto(r, IF runLive THEN "poll" ELSE "late")
  /\ UNCHANGED <<step, runLive, evidence, handle, unit, box, driver, forsaken, faults>>

\* The backend creates the unit under its deterministic name, or adopts the
\* object that has it; its reply is not seen yet.
LaunchLands(r) ==
  /\ At(r, "launch")
  /\ unit' = IF unit \in {"none", "gone"} THEN "alive" ELSE unit
  /\ Goto(r, "landed")
  /\ UNCHANGED <<step, runLive, evidence, handle, box, driver, forsaken, faults>>

LaunchReturns(r) ==
  /\ At(r, "landed")
  /\ Goto(r, "record")
  /\ UNCHANGED <<step, runLive, evidence, handle, unit, box, driver, forsaken, faults>>

\* The spec cannot be resolved, or the launch is refused by policy: a Config
\* verdict with no unit of this delivery.
LaunchRefused(r) ==
  /\ Refusals
  /\ At(r, "launch")
  /\ GotoWith(r, "commit", "config")
  /\ UNCHANGED <<step, runLive, evidence, handle, unit, box, driver, forsaken, faults>>

\* Mutant: the refused launch owes a teardown but records no handle.
AdoptUnrecorded(r) ==
  /\ At(r, "adopt")
  /\ Goto(r, "late")
  /\ UNCHANGED <<step, runLive, evidence, handle, unit, box, driver, forsaken, faults>>

\* `set_attempt_handle`: after a launch, and before a refused launch is
\* dispatched (`adopt_unit_of_refused_launch`).
RecordHandle(r) ==
  /\ \/ At(r, "record") /\ Goto(r, "recheck")
     \/ At(r, "adopt") /\ Goto(r, "late")
  /\ handle' = TRUE
  /\ UNCHANGED <<step, runLive, evidence, unit, box, driver, forsaken, faults>>

\* Mutant: a late launch that leaves the teardown to whoever cancelled it.
NoLateTeardown(r) ==
  /\ At(r, "late")
  /\ Goto(r, "dispatch")
  /\ UNCHANGED <<step, runLive, evidence, handle, unit, box, driver, forsaken, faults>>

\* `enqueue_late_launch_teardown`.
EnqueueLate(r) ==
  /\ At(r, "late")
  /\ msg' = Enqueued("late")
  /\ Goto(r, "dispatch")
  /\ UNCHANGED <<step, runLive, evidence, handle, unit, fails, driver, forsaken, faults>>

-----------------------------------------------------------------------------
(* process_launch_intent: poll and settle.                                 *)

\* An exit 0, a classified failure or a vanished unit is settled; whether a
\* failure has attempts left is the retry policy's answer.  A unit still up
\* leaves the intent pending.
Poll(r) ==
  /\ At(r, "poll")
  /\ \/ unit = "ok" /\ GotoWith(r, "evidence", "ok")
     \/ /\ unit \in {"bad", "none", "gone"}
        /\ \E saw \in {"fail", "retry"} : GotoWith(r, "settle", saw)
     \/ unit \in {"alive", "terminating"} /\ Finish(r)
  /\ UNCHANGED <<step, runLive, evidence, handle, unit, box, driver, forsaken, faults>>

\* The timeout backstop: the unit is past its deadline and grace.  The cancel
\* is best-effort; when it fails the unit is the backend's own deadline's.
PollTimedOut(r) ==
  /\ At(r, "poll")
  /\ unit \in {"alive", "terminating"}
  /\ \/ unit' = Cancelled(unit) /\ UNCHANGED <<forsaken, faults>>
     \/ MayFail /\ CallFails /\ forsaken' = TRUE /\ UNCHANGED unit
  /\ \E saw \in {"fail", "retry"} : GotoWith(r, "settle", saw)
  /\ UNCHANGED <<step, runLive, evidence, handle, box, driver>>

\* `set_step_output`, `set_step_results`: the Step row's evidence is written
\* whatever the Attempt's standing.
RecordEvidence(r) ==
  /\ At(r, "evidence")
  /\ evidence' = "ours"
  /\ Goto(r, "settle")
  /\ UNCHANGED <<step, runLive, handle, unit, box, driver, forsaken, faults>>

\* The stale-observation guard of `succeed_step` and `settle_failed_attempt`.
SettleRead(r) ==
  /\ At(r, "settle")
  /\ Goto(r, CASE ~latest \/ outcome \in ByIntent -> "dispatch"
               [] at[r].saw = "ok" -> "commit"
               [] OTHER -> "stamp")
  /\ UNCHANGED <<step, runLive, evidence, handle, unit, box, driver, forsaken, faults>>

\* `set_attempt_failure`.
StampFailure(r) ==
  /\ At(r, "stamp")
  /\ outcome' = Stamp("Failed")
  /\ Goto(r, "commit")
  /\ UNCHANGED <<status, latest, runLive, evidence, handle, unit, box, driver, forsaken, faults>>

\* Mutant: a verdict committed on the Step's status alone.
RunningAny == status = "Running"

\* The guard of the verdict's commit: Running, and still on this Attempt.
RunningHere == status = "Running" /\ latest

\* `finalize_step` or `rearm_step`: one commit, or a conflict that writes
\* nothing.
CommitVerdict(r) ==
  /\ At(r, "commit")
  /\ IF RunningHere
     THEN CASE at[r].saw = "ok" -> status' = "Succeeded" /\ outcome' = Stamp("Succeeded")
            [] at[r].saw = "retry" -> status' = "Ready" /\ UNCHANGED outcome
            [] OTHER -> status' = "Failed" /\ outcome' = Stamp("Failed")
     ELSE UNCHANGED <<status, outcome>>
  /\ Goto(r, "dispatch")
  /\ UNCHANGED <<latest, runLive, evidence, handle, unit, box, driver, forsaken, faults>>

\* `mark_dispatched`, by id and unconditionally.
MarkDispatched(r) ==
  /\ At(r, "dispatch")
  /\ msg' = [msg EXCEPT !["launch"] = "dispatched"]
  /\ Finish(r)
  /\ UNCHANGED <<step, runLive, evidence, handle, unit, fails, driver, forsaken, faults>>

-----------------------------------------------------------------------------
(* reconcile: failed deliveries and poison.                                *)

\* A call of the work returns an error: one failed delivery is counted, and
\* at the ceiling the message is poison.
WorkFails(r) ==
  /\ at[r].pc \in Driving
  /\ MayFail /\ CallFails
  /\ fails' = Counted("launch")
  /\ IF fails'["launch"] = MaxFailures THEN Goto(r, "poison") ELSE Finish(r)
  /\ UNCHANGED <<step, runLive, evidence, handle, unit, msg, driver, forsaken>>

\* `dead_letter_outbox`: the message is never claimed again.
DeadLetterMessage(r) ==
  /\ At(r, "poison")
  /\ msg' = [msg EXCEPT !["launch"] = "dead"]
  /\ Goto(r, "deadRun")
  /\ UNCHANGED <<step, runLive, evidence, handle, unit, fails, driver, forsaken, faults>>

\* `dead_letter_run` does nothing to a Run already terminal.
DeadLetterRun(r) ==
  /\ At(r, "deadRun")
  /\ IF runLive THEN Goto(r, "cancelStep") ELSE Finish(r)
  /\ UNCHANGED <<step, runLive, evidence, handle, unit, box, driver, forsaken, faults>>

\* `cancel_live_steps`: the unit is asked to stop, best-effort, and the Step
\* cancelled.  A failure here is put in the diagnostic and passed over.
CancelLiveStep(r) ==
  /\ At(r, "cancelStep")
  /\ \/ /\ CancelStepCommit
        /\ unit' \in {unit, IF InFlight /\ handle THEN Cancelled(unit) ELSE unit}
        /\ UNCHANGED <<forsaken, faults>>
     \/ /\ MayFail /\ CallFails
        /\ forsaken' = TRUE
        /\ UNCHANGED <<step, msg, unit>>
  /\ Goto(r, "endRun")
  /\ UNCHANGED <<runLive, evidence, handle, fails, driver>>

\* The Run's `-> DeadLettered`.
EndDeadRun(r) ==
  /\ At(r, "endRun")
  /\ runLive' = FALSE
  /\ Finish(r)
  /\ UNCHANGED <<step, evidence, handle, unit, box, driver, forsaken, faults>>

-----------------------------------------------------------------------------
(* drain_attempt_teardowns and settle_teardown.                            *)

\* A drain does not renew its claim, so a second replica may claim the message
\* while the first is still at it.
ClaimTeardown(r, k) ==
  /\ At(r, "idle")
  /\ msg[k] = "pending"
  /\ at' = [at EXCEPT ![r] = [pc |-> "tHandle", kind |-> k, saw |-> "-"]]
  /\ UNCHANGED <<step, runLive, evidence, handle, unit, box, driver, forsaken, faults>>

\* The handle is read; a read that fails counts like a failed cancel
\* (`abandon_poison_message`).
TeardownReadsHandle(r) ==
  /\ At(r, "tHandle")
  /\ \/ Goto(r, IF handle THEN "tCancel" ELSE "tKey") /\ UNCHANGED faults
     \/ MayFail /\ CallFails /\ GotoWith(r, "tCount", "failed")
  /\ UNCHANGED <<step, runLive, evidence, handle, unit, box, driver, forsaken>>

\* `outbox_key_pending` of the launch intent: a launch may still create it.
LaunchPending == msg["launch"] = "pending"

\* No handle: the unit is gone only if its launch can no longer create one.
TeardownChecksLaunch(r) ==
  /\ At(r, "tKey")
  /\ IF LaunchPending THEN GotoWith(r, "tCount", "launching") ELSE Goto(r, "tRetire")
  /\ UNCHANGED <<step, runLive, evidence, handle, unit, box, driver, forsaken, faults>>

\* `cancel_until_gone`: the backend's cancel ...
TeardownCancels(r) ==
  /\ At(r, "tCancel")
  /\ \/ unit' = Cancelled(unit) /\ Goto(r, "tGone") /\ UNCHANGED faults
     \/ MayFail /\ CallFails /\ GotoWith(r, "tCount", "failed") /\ UNCHANGED unit
  /\ UNCHANGED <<step, runLive, evidence, handle, box, driver, forsaken>>

\* `torn_down`: no such object any more.
TornDown == unit \in {"none", "gone"}

\* ... and whether the unit is gone.
TeardownChecksGone(r) ==
  /\ At(r, "tGone")
  /\ IF TornDown THEN Goto(r, "tRetire") ELSE GotoWith(r, "tCount", "terminating")
  /\ UNCHANGED <<step, runLive, evidence, handle, unit, box, driver, forsaken, faults>>

TeardownRetires(r) ==
  /\ At(r, "tRetire")
  /\ msg' = [msg EXCEPT ![at[r].kind] = "dispatched"]
  /\ Finish(r)
  /\ UNCHANGED <<step, runLive, evidence, handle, unit, fails, driver, forsaken, faults>>

TeardownCounts(r) ==
  /\ At(r, "tCount")
  /\ fails' = Counted(at[r].kind)
  /\ IF fails'[at[r].kind] = MaxFailures THEN Goto(r, "tAbandon") ELSE Finish(r)
  /\ UNCHANGED <<step, runLive, evidence, handle, unit, msg, driver, forsaken, faults>>

\* The message is dead-lettered with its TeardownAbandoned diagnostic.  A unit
\* that would not stop is given up; a launch still pending is not, it owes a
\* teardown of its own.
TeardownAbandons(r) ==
  /\ At(r, "tAbandon")
  /\ msg' = [msg EXCEPT ![at[r].kind] = "dead"]
  /\ forsaken' = (forsaken \/ at[r].saw \in {"terminating", "failed"})
  /\ Finish(r)
  /\ UNCHANGED <<step, runLive, evidence, handle, unit, fails, driver, faults>>

-----------------------------------------------------------------------------
(* The rest of the engine, as this Attempt sees it.                        *)

\* A cancel of the Run reaches the Step (`cancel_step`).
Cancel ==
  /\ latest /\ status \in {"Pending", "Ready", "Running"}
  /\ CancelStepCommit
  /\ UNCHANGED <<runLive, evidence, handle, unit, fails, driver, at, forsaken, faults>>

\* A rerun or retry re-arms the Step (`commit_rearm`); an in-flight Attempt is
\* superseded and its SUPERSEDE_TEARDOWN written in the same commit.
Rearm ==
  /\ latest /\ status # "Pending"
  /\ status' = "Pending"
  /\ outcome' = IF InFlight THEN "Superseded" ELSE outcome
  /\ msg' = IF InFlight THEN Enqueued("supersede") ELSE msg
  /\ UNCHANGED <<latest, runLive, evidence, handle, unit, fails, driver, at, forsaken, faults>>

\* The Step is promoted if it must be, claimed, and runs on a new Attempt.
ClaimSuccessor ==
  /\ latest /\ status \in {"Pending", "Ready"}
  /\ status' = "Running" /\ latest' = FALSE
  /\ UNCHANGED <<outcome, runLive, evidence, handle, unit, box, driver, at, forsaken, faults>>

\* The new Attempt's driver records its output.
SuccessorEvidence ==
  /\ ~latest
  /\ evidence' = "newer"
  /\ UNCHANGED <<step, runLive, handle, unit, box, driver, at, forsaken, faults>>

\* The Run goes terminal, or is reopened.
RunMoves ==
  /\ runLive' = ~runLive
  /\ UNCHANGED <<step, evidence, handle, unit, box, driver, at, forsaken, faults>>

\* The unit's process ends, the unit vanishes (its node is lost, its object
\* is collected), or its termination grace ends.
UnitMoves ==
  /\ \/ unit = "alive" /\ unit' \in {"ok", "bad", "gone"}
     \/ unit \in {"ok", "bad", "terminating"} /\ unit' = "gone"
  /\ UNCHANGED <<step, runLive, evidence, handle, box, driver, at, forsaken, faults>>

\* A process dies: its work stops where it is.
Crash(r) ==
  /\ ~At(r, "idle")
  /\ faults.crashes < MaxCrashes
  /\ faults' = [faults EXCEPT !.crashes = @ + 1]
  /\ Finish(r)
  /\ UNCHANGED <<step, runLive, evidence, handle, unit, box, driver, forsaken>>

-----------------------------------------------------------------------------

\* One call of replica r's work on the message it holds.
Work(r) ==
  \/ RenewFirst(r) \/ ReadHandle(r) \/ LaunchWanted(r)
  \/ LaunchLands(r) \/ LaunchReturns(r) \/ RecordHandle(r) \/ EnqueueLate(r)
  \/ Poll(r) \/ RecordEvidence(r) \/ SettleRead(r) \/ StampFailure(r)
  \/ CommitVerdict(r) \/ MarkDispatched(r)
  \/ DeadLetterMessage(r) \/ DeadLetterRun(r) \/ CancelLiveStep(r) \/ EndDeadRun(r)
  \/ TeardownReadsHandle(r) \/ TeardownChecksLaunch(r) \/ TeardownCancels(r)
  \/ TeardownChecksGone(r) \/ TeardownRetires(r) \/ TeardownCounts(r)
  \/ TeardownAbandons(r)

Next ==
  \/ \E r \in Replicas :
       \/ ClaimLaunch(r) \/ Work(r) \/ DropWork(r) \/ LaunchRefused(r)
       \/ PollTimedOut(r) \/ WorkFails(r) \/ Crash(r)
       \/ \E k \in Teardowns : ClaimTeardown(r, k)
  \/ Cancel \/ Rearm \/ ClaimSuccessor \/ SuccessorEvidence \/ RunMoves \/ UnitMoves

Spec == Init /\ [][Next]_vars

\* A replica goes on with its work.  A tick claims every claimable message of
\* a kind, in batches, so a message that stays pending is claimed again and
\* again, and not always behind so long a batch that its claim lapses first.  A
\* unit polled for ever is past its deadline in the end.  Nothing is assumed of
\* the unit itself.
Fairness ==
  /\ \A r \in Replicas :
       /\ WF_vars(Work(r))
       /\ SF_vars(RenewFirst(r) /\ HoldsClaim(r))
       /\ SF_vars(PollTimedOut(r))
  /\ SF_vars(\E r \in Replicas : ClaimLaunch(r))
  /\ \A k \in Teardowns : SF_vars(\E r \in Replicas : ClaimTeardown(r, k))

FairSpec == Spec /\ Fairness

-----------------------------------------------------------------------------
(* Properties.                                                             *)

\* Somebody is going to look at the unit: a message is pending, the launch
\* intent that supervises it or a teardown, or a replica is still at work on
\* its launch.
Owned == \/ \E k \in Kinds : msg[k] = "pending"
         \/ \E r \in Replicas : at[r].pc \in Driving \cup Poisoning

\* No orphan: a unit that runs is owned, unless it was knowingly given up.
NoOrphan == unit = "alive" => Owned \/ forsaken

\* An Attempt stamped Superseded or Cancelled keeps that outcome, whatever its
\* dying unit reports.
IntentSticks == [][(outcome \in ByIntent) => outcome' = outcome]_vars

\* A verdict that lands is this Attempt's while it is the Step's latest and
\* not torn down: `git-bug 7f0744c`.
VerdictIsCurrent ==
  [][(status = "Running" /\ status' \in {"Succeeded", "Failed", "Ready"})
       => latest /\ outcome \notin ByIntent]_vars

\* Once the handle is recorded the unit is never created again under the same
\* fence: a vanished unit is Lost, not relaunched.
NeverRelaunched == [][handle /\ unit = "gone" => unit' # "alive"]_vars

\* An Attempt of a Run that stays live comes to an end: it gets an outcome.
AttemptConcludes == []runLive => <>(outcome # "Running")

\* The unit of an Attempt stamped by intent stops, or is given up on with a
\* diagnostic.
TornDownInTheEnd ==
  (outcome \in ByIntent) ~> (unit # "alive" \/ forsaken)

=============================================================================
