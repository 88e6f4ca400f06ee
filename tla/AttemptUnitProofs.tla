------------------------- MODULE AttemptUnitProofs -------------------------
(***************************************************************************)
(* Theorems about AttemptUnit, for any number of replicas and any bounds.  *)
(***************************************************************************)
EXTENDS AttemptUnit, TLAPS

PC == {"idle", "renew"} \cup Driving \cup Poisoning \cup Draining

\* Where a replica relies on the recorded handle: past a launch or an adoption,
\* and in the drain of a late teardown.
NeedsHandle(place) ==
  \/ place.pc \in {"recheck", "recheckRun", "late"}
  \/ place.pc \in Draining /\ place.kind = "late"

\* The handle is recorded first, so what a late driver enqueues names a unit
\* the drain can find.
HandleFirst == \A r \in Replicas : NeedsHandle(at[r]) => handle

\* An Attempt stamped by intent is not the one its Step runs on: the stamp and
\* the Step's departure from Running are one commit.
StampedIsOut == (status = "Running" /\ latest) => outcome \notin ByIntent

IInv == TypeOK /\ HandleFirst /\ StampedIsOut

-----------------------------------------------------------------------------
(* Moving one replica.                                                     *)

\* Goto moves replica r, and r alone, to place p of the same message.
LEMMA GotoMoves ==
  ASSUME at \in [Replicas -> Places], NEW r \in Replicas, NEW p \in PC, Goto(r, p)
  PROVE  /\ at' \in [Replicas -> Places]
         /\ at'[r].pc = p /\ at'[r].kind = at[r].kind /\ at'[r].saw = at[r].saw
         /\ \A q \in Replicas : q # r => at'[q] = at[q]
<1>1. at[r] \in Places
  OBVIOUS
<1>2. [at[r] EXCEPT !.pc = p] \in Places
  BY <1>1 DEF Places, PC
<1>3. QED
  BY <1>1, <1>2 DEF Goto, Places

\* GotoWith does the same and notes what was seen.
LEMMA GotoWithMoves ==
  ASSUME at \in [Replicas -> Places], NEW r \in Replicas, NEW p \in PC, NEW s \in Seen,
         GotoWith(r, p, s)
  PROVE  /\ at' \in [Replicas -> Places]
         /\ at'[r].pc = p /\ at'[r].kind = at[r].kind /\ at'[r].saw = s
         /\ \A q \in Replicas : q # r => at'[q] = at[q]
<1>1. at[r] \in Places
  OBVIOUS
<1>2. [at[r] EXCEPT !.pc = p, !.saw = s] \in Places
  BY <1>1 DEF Places, PC
<1>3. QED
  BY <1>1, <1>2 DEF GotoWith, Places

\* Finish leaves replica r idle and the others where they are.
LEMMA FinishMoves ==
  ASSUME at \in [Replicas -> Places], NEW r \in Replicas, Finish(r)
  PROVE  /\ at' \in [Replicas -> Places]
         /\ at'[r].pc = "idle"
         /\ \A q \in Replicas : q # r => at'[q] = at[q]
<1>1. Idle \in Places
  BY DEF Idle, Places, Kinds, Seen
<1>2. QED
  BY <1>1 DEF Finish, Idle

-----------------------------------------------------------------------------
(* The parts of the invariant an action may disturb, apart: where replicas *)
(* are, and what is durable.                                               *)

\* The durable part of the type.
Durable ==
  /\ status \in StepStatus /\ latest \in BOOLEAN /\ outcome \in AttemptOutcome
  /\ runLive \in BOOLEAN /\ handle \in BOOLEAN /\ forsaken \in BOOLEAN
  /\ evidence \in {"none", "ours", "newer"}
  /\ unit \in UnitState
  /\ msg \in [Kinds -> {"absent", "pending", "dispatched", "dead"}]
  /\ fails \in [Kinds -> 0..MaxFailures]
  /\ driver \in Replicas \cup {None}
  /\ faults \in Faults
  /\ msg["late"] # "absent" => handle

\* The type invariant is its durable part and where the replicas are.
LEMMA TypeOKParts == TypeOK <=> Durable /\ at \in [Replicas -> Places]
BY DEF TypeOK, Durable

\* Nothing durable changes.
Still == UNCHANGED <<step, runLive, evidence, handle, unit, box, driver, forsaken, faults>>

\* A step that writes nothing durable keeps what is said of it.
LEMMA StillKeeps ==
  ASSUME Durable, StampedIsOut, Still
  PROVE  Durable' /\ StampedIsOut' /\ handle' = handle
BY DEF Durable, StampedIsOut, Still, step, box

\* A replica's move keeps HandleFirst when it goes nowhere that needs the
\* handle, or has it.
LEMMA MoveKeepsHandleFirst ==
  ASSUME HandleFirst, NEW r \in Replicas, handle => handle',
         NeedsHandle(at'[r]) => handle',
         \A q \in Replicas : q # r => at'[q] = at[q]
  PROVE  HandleFirst'
BY DEF HandleFirst

-----------------------------------------------------------------------------
(* The steps that only read.                                               *)

\* The steps that only read and move their replica keep the invariant.
LEMMA ReadsKeep ==
  ASSUME IInv, NEW r \in Replicas,
         \/ RenewFirst(r) \/ DropWork(r) \/ ReadHandle(r) \/ LaunchWanted(r)
         \/ LaunchReturns(r) \/ LaunchRefused(r) \/ Poll(r) \/ SettleRead(r)
         \/ DeadLetterRun(r) \/ TeardownChecksLaunch(r) \/ TeardownChecksGone(r)
         \/ \E k \in Teardowns : ClaimTeardown(r, k)
  PROVE  IInv'
<1> USE DEF PC, Driving, Poisoning, Draining, NeedsHandle
<1>1. Durable /\ at \in [Replicas -> Places] /\ HandleFirst /\ StampedIsOut
  BY TypeOKParts DEF IInv
<1>2. SUFFICES /\ Still
               /\ at' \in [Replicas -> Places]
               /\ NeedsHandle(at'[r]) => handle
               /\ \A q \in Replicas : q # r => at'[q] = at[q]
  <2>1. Durable' /\ StampedIsOut' /\ handle' = handle
    BY <1>1, <1>2, StillKeeps
  <2>2. HandleFirst'
    BY <1>1, <1>2, <2>1, MoveKeepsHandleFirst
  <2>3. TypeOK'
    BY <1>2, <2>1 DEF TypeOK, Durable
  <2>4. QED
    BY <2>1, <2>2, <2>3 DEF IInv
<1>3. CASE RenewFirst(r)
  <2>1. CASE HoldsClaim(r)
    BY <1>1, <1>3, <2>1, GotoMoves DEF RenewFirst, Still
  <2>2. CASE ~HoldsClaim(r)
    BY <1>1, <1>3, <2>2, FinishMoves DEF RenewFirst, Still
  <2>3. QED
    BY <2>1, <2>2
<1>4. CASE DropWork(r)
  BY <1>1, <1>4, FinishMoves DEF DropWork, Still
<1>5. CASE ReadHandle(r)
  <2>1. (IF handle THEN "poll" ELSE "wanted") \in PC
    OBVIOUS
  <2>2. QED
    BY <1>1, <1>5, <2>1, GotoMoves DEF ReadHandle, Still
<1>6. CASE LaunchWanted(r)
  <2>1. CASE At(r, "wanted") /\ Goto(r, IF InFlight THEN "wantedRun" ELSE "adopt")
    BY <1>1, <1>6, <2>1, GotoMoves DEF LaunchWanted, Still
  <2>2. CASE At(r, "wantedRun") /\ Goto(r, IF runLive THEN "launch" ELSE "adopt")
    BY <1>1, <1>6, <2>2, GotoMoves DEF LaunchWanted, Still
  <2>3. CASE At(r, "recheck") /\ Goto(r, IF InFlight THEN "recheckRun" ELSE "late")
    BY <1>1, <1>6, <2>3, GotoMoves DEF LaunchWanted, Still, At, HandleFirst
  <2>4. CASE At(r, "recheckRun") /\ Goto(r, IF runLive THEN "poll" ELSE "late")
    BY <1>1, <1>6, <2>4, GotoMoves DEF LaunchWanted, Still, At, HandleFirst
  <2>5. QED
    BY <1>6, <2>1, <2>2, <2>3, <2>4 DEF LaunchWanted
<1>7. CASE LaunchReturns(r)
  BY <1>1, <1>7, GotoMoves DEF LaunchReturns, Still
<1>8. CASE LaunchRefused(r)
  BY SMTT(30), <1>1, <1>8, GotoWithMoves DEF LaunchRefused, Still, Seen
<1>9. CASE Poll(r)
  <2>1. CASE unit = "ok" /\ GotoWith(r, "evidence", "ok")
    BY <1>1, <1>9, <2>1, GotoWithMoves DEF Poll, Still, Seen
  <2>2. CASE \E saw \in {"fail", "retry"} : GotoWith(r, "settle", saw)
    <3>1. PICK saw \in {"fail", "retry"} : GotoWith(r, "settle", saw)
      BY <2>2
    <3>2. "settle" \in PC /\ saw \in Seen
      BY <3>1 DEF PC, Seen
    <3>3. QED
      BY <1>1, <1>9, <3>1, <3>2, GotoWithMoves DEF Poll, Still
  <2>3. CASE Finish(r)
    BY <1>1, <1>9, <2>3, FinishMoves DEF Poll, Still
  <2>4. QED
    BY <1>9, <2>1, <2>2, <2>3 DEF Poll
<1>10. CASE SettleRead(r)
  <2> DEFINE p == CASE ~latest \/ outcome \in ByIntent -> "dispatch"
                    [] at[r].saw = "ok" -> "commit"
                    [] OTHER -> "stamp"
  <2>1. p \in {"dispatch", "commit", "stamp"}
    OBVIOUS
  <2>2. Goto(r, p) /\ Still
    BY <1>10 DEF SettleRead, Still
  <2> HIDE DEF p
  <2>3. QED
    BY <1>1, <2>1, <2>2, GotoMoves
<1>11. CASE DeadLetterRun(r)
  <2>1. CASE runLive
    BY <1>1, <1>11, <2>1, GotoMoves DEF DeadLetterRun, Still
  <2>2. CASE ~runLive
    BY <1>1, <1>11, <2>2, FinishMoves DEF DeadLetterRun, Still
  <2>3. QED
    BY <2>1, <2>2
<1>12. CASE TeardownChecksLaunch(r)
  <2>1. CASE LaunchPending
    BY <1>1, <1>12, <2>1, GotoWithMoves DEF TeardownChecksLaunch, Still, Seen, At, HandleFirst
  <2>2. CASE ~LaunchPending
    BY <1>1, <1>12, <2>2, GotoMoves DEF TeardownChecksLaunch, Still, At, HandleFirst
  <2>3. QED
    BY <2>1, <2>2
<1>13. CASE TeardownChecksGone(r)
  <2>1. CASE TornDown
    BY <1>1, <1>13, <2>1, GotoMoves DEF TeardownChecksGone, Still, At, HandleFirst
  <2>2. CASE ~TornDown
    BY <1>1, <1>13, <2>2, GotoWithMoves DEF TeardownChecksGone, Still, Seen, At, HandleFirst
  <2>3. QED
    BY <2>1, <2>2
<1>14. CASE \E k \in Teardowns : ClaimTeardown(r, k)
  <2>1. PICK k \in Teardowns : ClaimTeardown(r, k)
    BY <1>14
  <2>2. [pc |-> "tHandle", kind |-> k, saw |-> "-"] \in Places
    BY DEF Places, Kinds, Seen
  <2>3. k = "late" => handle
    BY <1>1, <2>1 DEF ClaimTeardown, Durable
  <2>4. QED
    BY <1>1, <2>1, <2>2, <2>3 DEF ClaimTeardown, Still
<1>15. QED
  BY <1>3, <1>4, <1>5, <1>6, <1>7, <1>8, <1>9, <1>10, <1>11, <1>12, <1>13, <1>14

-----------------------------------------------------------------------------
(* The steps that write: what each leaves of the durable state.            *)

\* A failure counted stays within the ceiling.
LEMMA CountedTyped ==
  ASSUME fails \in [Kinds -> 0..MaxFailures], NEW k \in Kinds
  PROVE  Counted(k) \in [Kinds -> 0..MaxFailures]
BY AttemptUnitAssumption DEF Counted

\* An enqueued message has its type, and another kind than the late teardown
\* leaves that one alone.
LEMMA EnqueuedTyped ==
  ASSUME msg \in [Kinds -> {"absent", "pending", "dispatched", "dead"}], NEW k \in Kinds
  PROVE  /\ Enqueued(k) \in [Kinds -> {"absent", "pending", "dispatched", "dead"}]
         /\ k # "late" => Enqueued(k)["late"] = msg["late"]
BY DEF Enqueued, Kinds, Teardowns

\* The counters of the faults stay within their bounds.
LEMMA FaultsTyped ==
  ASSUME faults \in Faults
  PROVE  /\ MayFail /\ CallFails => faults' \in Faults
         /\ faults.crashes < MaxCrashes => [faults EXCEPT !.crashes = @ + 1] \in Faults
         /\ faults.pauses < MaxPauses => [faults EXCEPT !.pauses = @ + 1] \in Faults
<1>1. /\ faults.errors \in 0..MaxErrors
      /\ faults.crashes \in 0..MaxCrashes
      /\ faults.pauses \in 0..MaxPauses
  BY DEF Faults
<1>2. /\ faults.errors < MaxErrors => faults.errors + 1 \in 0..MaxErrors
      /\ faults.crashes < MaxCrashes => faults.crashes + 1 \in 0..MaxCrashes
      /\ faults.pauses < MaxPauses => faults.pauses + 1 \in 0..MaxPauses
  BY <1>1, AttemptUnitAssumption
<1>3. QED
  BY <1>1, <1>2 DEF Faults, MayFail, CallFails

\* An action that writes with a replica's move keeps the invariant if its
\* durable writes do.
LEMMA MoveKeeps ==
  ASSUME IInv, NEW r \in Replicas, Durable', StampedIsOut', handle => handle',
         at' \in [Replicas -> Places],
         NeedsHandle(at'[r]) => handle',
         \A q \in Replicas : q # r => at'[q] = at[q]
  PROVE  IInv'
<1>1. HandleFirst'
  BY MoveKeepsHandleFirst DEF IInv
<1>2. QED
  BY <1>1 DEF IInv, TypeOK, Durable

\* A cancelled unit is in a state of a unit.
LEMMA CancelledTyped == ASSUME NEW u \in UnitState PROVE Cancelled(u) \in UnitState
BY DEF Cancelled, UnitState

\* `cancel_step`'s commit: the stamp and the Step's departure are one.
LEMMA CancelStepKeeps ==
  ASSUME Durable, StampedIsOut, CancelStepCommit, handle' = handle
  PROVE  /\ status' \in StepStatus /\ latest' \in BOOLEAN /\ outcome' \in AttemptOutcome
         /\ msg' \in [Kinds -> {"absent", "pending", "dispatched", "dead"}]
         /\ msg'["late"] # "absent" => handle'
         /\ StampedIsOut'
<1> USE DEF Durable
<1>1. "cancel" \in Kinds
  BY DEF Kinds, Teardowns
<1>2. CASE latest /\ status \in {"Pending", "Ready", "Running"}
  <2>1. /\ status' = "Cancelled" /\ latest' = latest
        /\ outcome' = IF InFlight THEN "Cancelled" ELSE outcome
        /\ msg' = IF InFlight THEN Enqueued("cancel") ELSE msg
    BY <1>2 DEF CancelStepCommit
  <2>2. msg' \in [Kinds -> {"absent", "pending", "dispatched", "dead"}]
        /\ msg'["late"] = msg["late"]
    BY <1>1, <2>1, EnqueuedTyped
  <2>3. QED
    BY <2>1, <2>2 DEF StepStatus, AttemptOutcome, StampedIsOut
<1>3. CASE ~(latest /\ status \in {"Pending", "Ready", "Running"})
  BY <1>3 DEF CancelStepCommit, StampedIsOut
<1>4. QED
  BY <1>2, <1>3

\* Driving an Attempt.
LEMMA DriverKeeps ==
  ASSUME IInv, NEW r \in Replicas,
         \/ ClaimLaunch(r) \/ LaunchLands(r) \/ RecordHandle(r) \/ EnqueueLate(r)
         \/ PollTimedOut(r) \/ RecordEvidence(r) \/ StampFailure(r) \/ CommitVerdict(r)
         \/ MarkDispatched(r)
  PROVE  IInv'
<1> USE DEF PC, Driving, Poisoning, Draining, NeedsHandle
<1>1. Durable /\ at \in [Replicas -> Places] /\ HandleFirst /\ StampedIsOut
  BY TypeOKParts DEF IInv
<1>2. "launch" \in Kinds /\ "late" \in Kinds
  BY DEF Kinds, Teardowns
<1>3. CASE ClaimLaunch(r)
  <2>1. faults' \in Faults
    BY <1>1, <1>3, FaultsTyped DEF ClaimLaunch, Durable
  <2>2. Durable' /\ StampedIsOut' /\ handle' = handle
    BY <1>1, <1>3, <2>1 DEF ClaimLaunch, Durable, StampedIsOut, step, box
  <2>3. [pc |-> "renew", kind |-> "launch", saw |-> "-"] \in Places
    BY <1>2 DEF Places, Seen
  <2>4. /\ at' \in [Replicas -> Places] /\ at'[r].pc = "renew"
        /\ \A q \in Replicas : q # r => at'[q] = at[q]
    BY <1>1, <1>3, <2>3 DEF ClaimLaunch
  <2>5. QED
    BY <2>2, <2>4, MoveKeeps
<1>4. CASE LaunchLands(r)
  <2>1. Durable' /\ StampedIsOut' /\ handle' = handle
    BY <1>1, <1>4 DEF LaunchLands, Durable, StampedIsOut, UnitState, step, box
  <2>2. QED
    BY <1>1, <1>4, <2>1, GotoMoves, MoveKeeps DEF LaunchLands
<1>5. CASE RecordHandle(r)
  <2>1. Durable' /\ StampedIsOut' /\ handle'
    BY <1>1, <1>5 DEF RecordHandle, Durable, StampedIsOut, step, box
  <2>2. Goto(r, "recheck") \/ Goto(r, "late")
    BY <1>5 DEF RecordHandle
  <2>3. QED
    BY <1>1, <2>1, <2>2, GotoMoves, MoveKeeps
<1>6. CASE EnqueueLate(r)
  <2>1. handle
    BY <1>1, <1>6 DEF EnqueueLate, At, HandleFirst
  <2>2. Durable' /\ StampedIsOut' /\ handle' = handle
    BY <1>1, <1>2, <1>6, <2>1, EnqueuedTyped DEF EnqueueLate, Durable, StampedIsOut, step
  <2>3. QED
    BY <1>1, <1>6, <2>2, GotoMoves, MoveKeeps DEF EnqueueLate
<1>7. CASE PollTimedOut(r)
  <2>1. unit' \in UnitState /\ forsaken' \in BOOLEAN /\ faults' \in Faults
    BY <1>1, <1>7, CancelledTyped, FaultsTyped DEF PollTimedOut, Durable
  <2>2. Durable' /\ StampedIsOut' /\ handle' = handle
    BY <1>1, <1>7, <2>1 DEF PollTimedOut, Durable, StampedIsOut, step, box
  <2>3. PICK saw \in {"fail", "retry"} : GotoWith(r, "settle", saw)
    BY <1>7 DEF PollTimedOut
  <2>4. QED
    BY <1>1, <2>2, <2>3, GotoWithMoves, MoveKeeps DEF Seen
<1>8. CASE RecordEvidence(r)
  <2>1. Durable' /\ StampedIsOut' /\ handle' = handle
    BY <1>1, <1>8 DEF RecordEvidence, Durable, StampedIsOut, step, box
  <2>2. QED
    BY <1>1, <1>8, <2>1, GotoMoves, MoveKeeps DEF RecordEvidence
<1>9. CASE StampFailure(r)
  <2>1. Durable' /\ StampedIsOut' /\ handle' = handle
    BY <1>1, <1>9
    DEF StampFailure, Stamp, AttemptOutcome, ByIntent, Durable, StampedIsOut, step, box
  <2>2. QED
    BY <1>1, <1>9, <2>1, GotoMoves, MoveKeeps DEF StampFailure
<1>10. CASE CommitVerdict(r)
  <2>1. Durable' /\ StampedIsOut' /\ handle' = handle
    <3>1. CASE RunningHere
      <4>1. /\ status' \in {"Succeeded", "Ready", "Failed"}
            /\ outcome' \in {outcome, "Succeeded", "Failed"}
        BY <1>10, <3>1 DEF CommitVerdict, Stamp
      <4>2. QED
        BY <1>1, <1>10, <4>1
        DEF CommitVerdict, StepStatus, AttemptOutcome, Durable, StampedIsOut, step, box
    <3>2. CASE ~RunningHere
      BY <1>1, <1>10, <3>2 DEF CommitVerdict, Durable, StampedIsOut, step, box
    <3>3. QED
      BY <3>1, <3>2
  <2>2. QED
    BY <1>1, <1>10, <2>1, GotoMoves, MoveKeeps DEF CommitVerdict
<1>11. CASE MarkDispatched(r)
  <2>1. /\ msg' \in [Kinds -> {"absent", "pending", "dispatched", "dead"}]
        /\ msg'["late"] = msg["late"]
    BY <1>1, <1>2, <1>11 DEF MarkDispatched, Durable
  <2>2. Durable' /\ StampedIsOut' /\ handle' = handle
    BY <1>1, <1>11, <2>1 DEF MarkDispatched, Durable, StampedIsOut, step
  <2>3. QED
    BY <1>1, <1>11, <2>2, FinishMoves, MoveKeeps DEF MarkDispatched
<1>12. QED
  BY <1>3, <1>4, <1>5, <1>6, <1>7, <1>8, <1>9, <1>10, <1>11

\* A message's end keeps the type: a late teardown ends only once owed.
LEMMA EndedTyped ==
  ASSUME Durable, NEW k \in Kinds, NEW e \in {"dispatched", "dead"},
         k = "late" => handle, msg' = [msg EXCEPT ![k] = e], handle' = handle
  PROVE  /\ msg' \in [Kinds -> {"absent", "pending", "dispatched", "dead"}]
         /\ msg'["late"] # "absent" => handle'
<1>1. "late" \in Kinds
  BY DEF Kinds, Teardowns
<1>2. QED
  BY <1>1 DEF Durable

\* Failed deliveries and poison.
LEMMA PoisonKeeps ==
  ASSUME IInv, NEW r \in Replicas,
         \/ WorkFails(r) \/ DeadLetterMessage(r) \/ CancelLiveStep(r) \/ EndDeadRun(r)
         \/ Crash(r)
  PROVE  IInv'
<1> USE DEF PC, Driving, Poisoning, Draining, NeedsHandle
<1>1. Durable /\ at \in [Replicas -> Places] /\ HandleFirst /\ StampedIsOut
  BY TypeOKParts DEF IInv
<1>2. "launch" \in Kinds /\ "late" \in Kinds
  BY DEF Kinds, Teardowns
<1>3. CASE WorkFails(r)
  <2>1. faults' \in Faults /\ fails' \in [Kinds -> 0..MaxFailures]
    BY <1>1, <1>2, <1>3, FaultsTyped, CountedTyped DEF WorkFails, Durable
  <2>2. Durable' /\ StampedIsOut' /\ handle' = handle
    BY <1>1, <1>3, <2>1 DEF WorkFails, Durable, StampedIsOut, step
  <2>3. Goto(r, "poison") \/ Finish(r)
    BY <1>3 DEF WorkFails
  <2>4. QED
    BY <1>1, <2>2, <2>3, GotoMoves, FinishMoves, MoveKeeps
<1>4. CASE DeadLetterMessage(r)
  <2>1. /\ msg' \in [Kinds -> {"absent", "pending", "dispatched", "dead"}]
        /\ msg'["late"] # "absent" => handle'
    BY <1>1, <1>2, <1>4, EndedTyped DEF DeadLetterMessage
  <2>2. Durable' /\ StampedIsOut' /\ handle' = handle
    BY <1>1, <1>4, <2>1 DEF DeadLetterMessage, Durable, StampedIsOut, step
  <2>3. QED
    BY <1>1, <1>4, <2>2, GotoMoves, MoveKeeps DEF DeadLetterMessage
<1>5. CASE CancelLiveStep(r)
  <2>1. handle' = handle /\ Goto(r, "endRun")
        /\ UNCHANGED <<runLive, evidence, fails, driver>>
    BY <1>5 DEF CancelLiveStep
  <2>2. CASE /\ CancelStepCommit
             /\ unit' \in {unit, IF InFlight /\ handle THEN Cancelled(unit) ELSE unit}
             /\ UNCHANGED <<forsaken, faults>>
    <3>1. unit' \in UnitState
      BY <1>1, <2>2, CancelledTyped DEF Durable
    <3>2. Durable' /\ StampedIsOut'
      BY <1>1, <2>1, <2>2, <3>1, CancelStepKeeps DEF Durable
    <3>3. QED
      BY <1>1, <2>1, <3>2, GotoMoves, MoveKeeps
  <2>3. CASE MayFail /\ CallFails /\ forsaken' = TRUE /\ UNCHANGED <<step, msg, unit>>
    <3>1. faults' \in Faults
      BY <1>1, <2>3, FaultsTyped DEF Durable
    <3>2. Durable' /\ StampedIsOut'
      BY <1>1, <2>1, <2>3, <3>1 DEF Durable, StampedIsOut, step
    <3>3. QED
      BY <1>1, <2>1, <3>2, GotoMoves, MoveKeeps
  <2>4. QED
    BY <1>5, <2>2, <2>3 DEF CancelLiveStep
<1>6. CASE EndDeadRun(r)
  <2>1. Durable' /\ StampedIsOut' /\ handle' = handle
    BY <1>1, <1>6 DEF EndDeadRun, Durable, StampedIsOut, step, box
  <2>2. QED
    BY <1>1, <1>6, <2>1, FinishMoves, MoveKeeps DEF EndDeadRun
<1>7. CASE Crash(r)
  <2>1. faults' \in Faults
    BY <1>1, <1>7, FaultsTyped DEF Crash, Durable
  <2>2. Durable' /\ StampedIsOut' /\ handle' = handle
    BY <1>1, <1>7, <2>1 DEF Crash, Durable, StampedIsOut, step, box
  <2>3. QED
    BY <1>1, <1>7, <2>2, FinishMoves, MoveKeeps DEF Crash
<1>8. QED
  BY <1>3, <1>4, <1>5, <1>6, <1>7

\* Draining a teardown.
LEMMA DrainKeeps ==
  ASSUME IInv, NEW r \in Replicas,
         \/ TeardownReadsHandle(r) \/ TeardownCancels(r) \/ TeardownRetires(r)
         \/ TeardownCounts(r) \/ TeardownAbandons(r)
  PROVE  IInv'
<1> USE DEF PC, Draining, NeedsHandle
<1>1. Durable /\ at \in [Replicas -> Places] /\ HandleFirst /\ StampedIsOut
  BY TypeOKParts DEF IInv
<1>2. at[r].pc \in Draining /\ at[r].kind \in Kinds
  BY <1>1 DEF TeardownReadsHandle, TeardownCancels, TeardownRetires, TeardownCounts,
              TeardownAbandons, At, Places
<1>3. at[r].kind = "late" => handle
  BY <1>1, <1>2 DEF HandleFirst
<1>4. CASE TeardownReadsHandle(r)
  <2>1. faults' \in Faults
    BY <1>1, <1>4, FaultsTyped DEF TeardownReadsHandle, Durable
  <2>2. Durable' /\ StampedIsOut' /\ handle' = handle
    BY <1>1, <1>4, <2>1 DEF TeardownReadsHandle, Durable, StampedIsOut, step, box
  <2>3. Goto(r, "tCancel") \/ Goto(r, "tKey") \/ GotoWith(r, "tCount", "failed")
    BY <1>4 DEF TeardownReadsHandle
  <2>4. QED
    BY <1>1, <1>3, <2>2, <2>3, GotoMoves, GotoWithMoves, MoveKeeps DEF Seen
<1>5. CASE TeardownCancels(r)
  <2>1. unit' \in UnitState /\ faults' \in Faults
    BY <1>1, <1>5, CancelledTyped, FaultsTyped DEF TeardownCancels, Durable
  <2>2. Durable' /\ StampedIsOut' /\ handle' = handle
    BY <1>1, <1>5, <2>1 DEF TeardownCancels, Durable, StampedIsOut, step, box
  <2>3. Goto(r, "tGone") \/ GotoWith(r, "tCount", "failed")
    BY <1>5 DEF TeardownCancels
  <2>4. QED
    BY <1>1, <1>3, <2>2, <2>3, GotoMoves, GotoWithMoves, MoveKeeps DEF Seen
<1>6. CASE TeardownRetires(r)
  <2>1. /\ msg' \in [Kinds -> {"absent", "pending", "dispatched", "dead"}]
        /\ msg'["late"] # "absent" => handle'
    BY <1>1, <1>2, <1>3, <1>6, EndedTyped DEF TeardownRetires
  <2>2. Durable' /\ StampedIsOut' /\ handle' = handle
    BY <1>1, <1>6, <2>1 DEF TeardownRetires, Durable, StampedIsOut, step
  <2>3. QED
    BY <1>1, <1>6, <2>2, FinishMoves, MoveKeeps DEF TeardownRetires
<1>7. CASE TeardownCounts(r)
  <2>1. fails' \in [Kinds -> 0..MaxFailures]
    BY <1>1, <1>2, <1>7, CountedTyped DEF TeardownCounts, Durable
  <2>2. Durable' /\ StampedIsOut' /\ handle' = handle
    BY <1>1, <1>7, <2>1 DEF TeardownCounts, Durable, StampedIsOut, step
  <2>3. Goto(r, "tAbandon") \/ Finish(r)
    BY <1>7 DEF TeardownCounts
  <2>4. QED
    BY <1>1, <1>3, <2>2, <2>3, GotoMoves, FinishMoves, MoveKeeps
<1>8. CASE TeardownAbandons(r)
  <2>1. /\ msg' \in [Kinds -> {"absent", "pending", "dispatched", "dead"}]
        /\ msg'["late"] # "absent" => handle'
    BY <1>1, <1>2, <1>3, <1>8, EndedTyped DEF TeardownAbandons
  <2>2. forsaken' \in BOOLEAN
    BY <1>8 DEF TeardownAbandons
  <2>3. Durable' /\ StampedIsOut' /\ handle' = handle
    BY <1>1, <1>8, <2>1, <2>2 DEF TeardownAbandons, Durable, StampedIsOut, step
  <2>4. QED
    BY <1>1, <1>8, <2>3, FinishMoves, MoveKeeps DEF TeardownAbandons
<1>9. QED
  BY <1>4, <1>5, <1>6, <1>7, <1>8

\* What the rest of the engine and the backend do moves no replica.
LEMMA EnvironmentKeeps ==
  ASSUME IInv,
         \/ Cancel \/ Rearm \/ ClaimSuccessor \/ SuccessorEvidence \/ RunMoves \/ UnitMoves
         \/ UNCHANGED vars
  PROVE  IInv'
<1>1. Durable /\ at \in [Replicas -> Places] /\ HandleFirst /\ StampedIsOut
  BY TypeOKParts DEF IInv
<1>2. at' = at /\ handle' = handle
  BY DEF Cancel, Rearm, ClaimSuccessor, SuccessorEvidence, RunMoves, UnitMoves, vars
<1>3. SUFFICES Durable' /\ StampedIsOut'
  BY <1>1, <1>2, <1>3 DEF IInv, TypeOK, Durable, HandleFirst
<1>4. CASE Cancel
  BY <1>1, <1>2, <1>4, CancelStepKeeps DEF Cancel, Durable
<1>5. CASE Rearm
  <2>1. "supersede" \in Kinds
    BY DEF Kinds, Teardowns
  <2>2. /\ msg' \in [Kinds -> {"absent", "pending", "dispatched", "dead"}]
        /\ msg'["late"] = msg["late"]
    BY <1>1, <1>5, <2>1, EnqueuedTyped DEF Rearm, Durable
  <2>3. status' = "Pending" /\ outcome' \in {outcome, "Superseded"}
    BY <1>5 DEF Rearm
  <2>4. QED
    BY <1>1, <1>5, <2>2, <2>3
    DEF Rearm, Durable, StampedIsOut, StepStatus, AttemptOutcome
<1>6. CASE ClaimSuccessor
  BY <1>1, <1>6 DEF ClaimSuccessor, Durable, StampedIsOut, StepStatus, box
<1>7. CASE SuccessorEvidence
  BY <1>1, <1>7 DEF SuccessorEvidence, Durable, StampedIsOut, step, box
<1>8. CASE RunMoves
  BY <1>1, <1>8 DEF RunMoves, Durable, StampedIsOut, step, box
<1>9. CASE UnitMoves
  BY <1>1, <1>9 DEF UnitMoves, Durable, StampedIsOut, UnitState, step, box
<1>10. CASE UNCHANGED vars
  BY <1>1, <1>10 DEF vars, Durable, StampedIsOut
<1>11. QED
  BY <1>4, <1>5, <1>6, <1>7, <1>8, <1>9, <1>10

-----------------------------------------------------------------------------

\* The invariant holds when the Attempt has just been claimed.
LEMMA InitIInv == Init => IInv
<1> SUFFICES ASSUME Init PROVE IInv
  OBVIOUS
<1>1. Durable
  <2>1. faults \in Faults
    BY AttemptUnitAssumption DEF Init, Faults
  <2>2. fails \in [Kinds -> 0..MaxFailures]
    BY AttemptUnitAssumption DEF Init
  <2>3. /\ msg \in [Kinds -> {"absent", "pending", "dispatched", "dead"}]
        /\ msg["late"] = "absent"
    BY DEF Init, Kinds, Teardowns
  <2>4. QED
    BY <2>1, <2>2, <2>3 DEF Init, Durable, StepStatus, AttemptOutcome, UnitState
<1>2. Idle \in Places
  BY DEF Idle, Places, Kinds, Seen
<1>3. at \in [Replicas -> Places] /\ \A r \in Replicas : at[r].pc = "idle"
  BY <1>2 DEF Init, Idle
<1>4. HandleFirst
  BY <1>3 DEF HandleFirst, NeedsHandle, Draining
<1>5. StampedIsOut
  BY DEF Init, StampedIsOut, ByIntent
<1>6. QED
  BY <1>1, <1>3, <1>4, <1>5 DEF IInv, TypeOK, Durable

\* Every step keeps the invariant.
LEMMA NextIInv == IInv /\ [Next]_vars => IInv'
<1> SUFFICES ASSUME IInv, [Next]_vars PROVE IInv'
  OBVIOUS
<1>1. ASSUME NEW r \in Replicas, Work(r) PROVE IInv'
  BY <1>1, ReadsKeep, DriverKeeps, PoisonKeeps, DrainKeeps DEF Work
<1>2. ASSUME NEW r \in Replicas,
             \/ ClaimLaunch(r) \/ DropWork(r) \/ LaunchRefused(r) \/ PollTimedOut(r)
             \/ WorkFails(r) \/ Crash(r) \/ \E k \in Teardowns : ClaimTeardown(r, k)
      PROVE  IInv'
  BY <1>2, ReadsKeep, DriverKeeps, PoisonKeeps
<1>3. QED
  BY <1>1, <1>2, EnvironmentKeeps DEF Next

\* For any replicas and bounds the state has its type; in particular a late
\* teardown is owed only for a recorded handle, so its drain never takes the
\* unit of a late launch for one that was never created.
THEOREM TypeCorrect == Spec => []TypeOK
<1>1. IInv => TypeOK
  BY DEF IInv
<1>2. QED
  BY <1>1, InitIInv, NextIInv, PTL DEF Spec

\* An Attempt stamped by intent keeps its outcome: every writer either is
\* guarded by the Attempt being in flight, or goes through Stamp.
THEOREM StampedForGood == Spec => IntentSticks
<1>1. ASSUME [Next]_vars, outcome \in ByIntent PROVE outcome' = outcome
  <2>1. ~InFlight
    BY <1>1 DEF InFlight, ByIntent
  <2>2. CancelStepCommit => outcome' = outcome
    BY <2>1 DEF CancelStepCommit
  <2>3. \A o : Stamp(o) = outcome
    BY <1>1 DEF Stamp
  <2>4. ASSUME NEW r \in Replicas, CommitVerdict(r) PROVE outcome' = outcome
    BY <2>3, <2>4, Zenon DEF CommitVerdict
  <2>5. ASSUME NEW r \in Replicas, StampFailure(r) PROVE outcome' = outcome
    BY <2>3, <2>5 DEF StampFailure
  <2>6. ASSUME NEW r \in Replicas, CancelLiveStep(r) PROVE outcome' = outcome
    BY <2>2, <2>6 DEF CancelLiveStep, step
  <2>7. ASSUME Cancel \/ Rearm PROVE outcome' = outcome
    BY <2>1, <2>2, <2>7 DEF Cancel, Rearm
  <2>8. ASSUME NEW r \in Replicas, Work(r) PROVE outcome' = outcome
    BY <2>4, <2>5, <2>6, <2>8
    DEF Work, RenewFirst, ReadHandle, LaunchWanted, LaunchLands, LaunchReturns,
        RecordHandle, EnqueueLate, Poll, RecordEvidence, SettleRead, MarkDispatched,
        DeadLetterMessage, DeadLetterRun, EndDeadRun, TeardownReadsHandle,
        TeardownChecksLaunch, TeardownCancels, TeardownChecksGone, TeardownRetires,
        TeardownCounts, TeardownAbandons, step
  <2>9. QED
    BY <1>1, <2>7, <2>8
    DEF Next, ClaimLaunch, DropWork, LaunchRefused, PollTimedOut, WorkFails, Crash,
        ClaimTeardown, ClaimSuccessor, SuccessorEvidence, RunMoves, UnitMoves, vars, step
<1>2. QED
  BY <1>1, PTL DEF Spec, IntentSticks

\* A verdict that takes the Step out of Running is that of the Attempt the Step
\* is running on, and that Attempt is not one torn down by intent.
THEOREM VerdictCurrent == Spec => VerdictIsCurrent
<1>1. ASSUME StampedIsOut, [Next]_vars,
             status = "Running", status' \in {"Succeeded", "Failed", "Ready"}
      PROVE  latest /\ outcome \notin ByIntent
  <2>1. SUFFICES \E r \in Replicas : CommitVerdict(r)
    BY <1>1, <2>1 DEF CommitVerdict, RunningHere, StampedIsOut
  <2>2. status' # status
    BY <1>1
  <2>3. ~CancelStepCommit
    BY <1>1 DEF CancelStepCommit
  <2>4. ~Cancel /\ ~Rearm /\ ~ClaimSuccessor
    BY <1>1, <2>3 DEF Cancel, Rearm, ClaimSuccessor
  <2>5. ASSUME NEW r \in Replicas, Work(r), ~CommitVerdict(r) PROVE FALSE
    BY <2>2, <2>3, <2>5
    DEF Work, RenewFirst, ReadHandle, LaunchWanted, LaunchLands, LaunchReturns,
        RecordHandle, EnqueueLate, Poll, RecordEvidence, SettleRead, StampFailure,
        MarkDispatched, DeadLetterMessage, DeadLetterRun, CancelLiveStep, EndDeadRun,
        TeardownReadsHandle, TeardownChecksLaunch, TeardownCancels, TeardownChecksGone,
        TeardownRetires, TeardownCounts, TeardownAbandons, step
  <2>6. QED
    BY <1>1, <2>2, <2>4, <2>5
    DEF Next, ClaimLaunch, DropWork, LaunchRefused, PollTimedOut, WorkFails, Crash,
        ClaimTeardown, SuccessorEvidence, RunMoves, UnitMoves, vars, step
<1>2. IInv => StampedIsOut
  BY DEF IInv
<1>3. QED
  BY <1>1, <1>2, InitIInv, NextIInv, PTL DEF Spec, VerdictIsCurrent

-----------------------------------------------------------------------------
(* The launch fence.                                                       *)

\* Only the claim's holder is at work on the launch intent.
Sole == \A q \in Replicas : at[q].pc \in Driving => driver = q

BeforeLaunch == {"wanted", "wantedRun", "launch"}

\* Whoever is about to launch read no handle, and none was recorded since.
Unlaunched == \A q \in Replicas : at[q].pc \in BeforeLaunch => ~handle

Fence == IInv /\ Sole /\ Unlaunched

\* A replica that only goes on with work it had, or leaves it, keeps the fence.
LEMMA MoveKeepsFence ==
  ASSUME Fence, NEW r \in Replicas, driver' = driver, handle' = handle,
         at'[r].pc \in Driving => driver = r,
         at'[r].pc \in BeforeLaunch => ~handle,
         \A q \in Replicas : q # r => at'[q] = at[q]
  PROVE  Sole' /\ Unlaunched'
BY DEF Fence, Sole, Unlaunched

\* The calls of the work, one by one.
LEMMA WorkKeepsFence ==
  ASSUME Fence, NEW r \in Replicas, Work(r)
  PROVE  Sole' /\ Unlaunched'
<1> USE DEF PC, Driving, Poisoning, Draining, BeforeLaunch, At
<1>1. /\ at \in [Replicas -> Places]
      /\ at[r].pc \in Driving => driver = r
      /\ at[r].pc \in BeforeLaunch => ~handle
  BY DEF Fence, IInv, TypeOK, Sole, Unlaunched
<1>2. CASE RecordHandle(r)
  <2>1. at[r].pc \in Driving /\ driver' = driver
    BY <1>2 DEF RecordHandle
  <2>2. \A q \in Replicas : at[q].pc \in Driving => q = r
    BY <1>1, <2>1 DEF Fence, Sole
  <2>3. /\ at'[r].pc \in {"recheck", "late"}
        /\ \A q \in Replicas : q # r => at'[q] = at[q]
    BY <1>1, <1>2, GotoMoves DEF RecordHandle
  <2>4. QED
    BY <1>1, <2>1, <2>2, <2>3 DEF Sole, Unlaunched
<1>3. CASE RenewFirst(r)
  <2>1. CASE HoldsClaim(r)
    BY <1>1, <1>3, <2>1, GotoMoves, MoveKeepsFence DEF RenewFirst, HoldsClaim
  <2>2. CASE ~HoldsClaim(r)
    BY <1>1, <1>3, <2>2, FinishMoves, MoveKeepsFence DEF RenewFirst
  <2>3. QED
    BY <2>1, <2>2
<1>4. CASE ReadHandle(r)
  BY <1>1, <1>4, GotoMoves, MoveKeepsFence DEF ReadHandle
<1>5. CASE LaunchWanted(r)
  <2>1. PICK p \in {"wantedRun", "adopt", "launch", "recheckRun", "late", "poll"} : Goto(r, p)
    BY <1>5 DEF LaunchWanted
  <2>2. at[r].pc \in Driving
    BY <1>5 DEF LaunchWanted
  <2>3. p \in BeforeLaunch => at[r].pc \in BeforeLaunch
    <3>1. at'[r].pc = p
      BY <1>1, <2>1, GotoMoves
    <3>2. CASE At(r, "recheck")
      <4>1. Goto(r, "recheckRun") \/ Goto(r, "late")
        BY <1>5, <3>2 DEF LaunchWanted
      <4>2. QED
        BY <1>1, <3>1, <4>1, GotoMoves
    <3>3. CASE At(r, "recheckRun")
      <4>1. Goto(r, "poll") \/ Goto(r, "late")
        BY <1>5, <3>3 DEF LaunchWanted
      <4>2. QED
        BY <1>1, <3>1, <4>1, GotoMoves
    <3>4. QED
      BY <1>5, <3>2, <3>3 DEF LaunchWanted
  <2>4. driver' = driver /\ handle' = handle
    BY <1>5 DEF LaunchWanted
  <2>5. QED
    BY <1>1, <2>1, <2>2, <2>3, <2>4, GotoMoves, MoveKeepsFence
<1>6. CASE \/ LaunchLands(r) \/ LaunchReturns(r) \/ EnqueueLate(r) \/ RecordEvidence(r)
           \/ StampFailure(r) \/ CommitVerdict(r)
  <2>1. PICK p \in {"landed", "record", "dispatch", "settle", "commit"} : Goto(r, p)
    BY <1>6 DEF LaunchLands, LaunchReturns, EnqueueLate, RecordEvidence, StampFailure,
                CommitVerdict
  <2>2. at[r].pc \in Driving /\ driver' = driver /\ handle' = handle
    BY <1>6 DEF LaunchLands, LaunchReturns, EnqueueLate, RecordEvidence, StampFailure,
                CommitVerdict
  <2>3. QED
    BY <1>1, <2>1, <2>2, GotoMoves, MoveKeepsFence
<1>7. CASE SettleRead(r)
  <2> DEFINE p == CASE ~latest \/ outcome \in ByIntent -> "dispatch"
                    [] at[r].saw = "ok" -> "commit"
                    [] OTHER -> "stamp"
  <2>1. p \in {"dispatch", "commit", "stamp"}
    OBVIOUS
  <2>2. Goto(r, p) /\ at[r].pc \in Driving /\ driver' = driver /\ handle' = handle
    BY <1>7 DEF SettleRead
  <2> HIDE DEF p
  <2>3. QED
    BY <1>1, <2>1, <2>2, GotoMoves, MoveKeepsFence
<1>8. CASE Poll(r)
  <2>1. \/ Finish(r)
        \/ \E p \in {"evidence", "settle"}, saw \in {"ok", "fail", "retry"} : GotoWith(r, p, saw)
    BY <1>8 DEF Poll
  <2>2. at[r].pc \in Driving /\ driver' = driver /\ handle' = handle
    BY <1>8 DEF Poll
  <2>3. QED
    BY <1>1, <2>1, <2>2, GotoWithMoves, FinishMoves, MoveKeepsFence DEF Seen
<1>9. CASE \/ MarkDispatched(r) \/ DeadLetterMessage(r) \/ DeadLetterRun(r)
           \/ CancelLiveStep(r) \/ EndDeadRun(r)
  <2>1. Finish(r) \/ \E p \in {"deadRun", "cancelStep", "endRun"} : Goto(r, p)
    BY <1>9 DEF MarkDispatched, DeadLetterMessage, DeadLetterRun, CancelLiveStep, EndDeadRun
  <2>2. driver' = driver /\ handle' = handle
    BY <1>9 DEF MarkDispatched, DeadLetterMessage, DeadLetterRun, CancelLiveStep, EndDeadRun
  <2>3. QED
    BY <1>1, <2>1, <2>2, GotoMoves, FinishMoves, MoveKeepsFence
<1>10. CASE \/ TeardownReadsHandle(r) \/ TeardownChecksLaunch(r) \/ TeardownCancels(r)
            \/ TeardownChecksGone(r) \/ TeardownRetires(r) \/ TeardownCounts(r)
            \/ TeardownAbandons(r)
  <2>1. \/ Finish(r)
        \/ \E p \in {"tCancel", "tKey", "tRetire", "tGone", "tAbandon"} : Goto(r, p)
        \/ \E saw \in Seen : GotoWith(r, "tCount", saw)
    BY <1>10 DEF TeardownReadsHandle, TeardownChecksLaunch, TeardownCancels,
                 TeardownChecksGone, TeardownRetires, TeardownCounts, TeardownAbandons, Seen
  <2>2. driver' = driver /\ handle' = handle
    BY <1>10 DEF TeardownReadsHandle, TeardownChecksLaunch, TeardownCancels,
                 TeardownChecksGone, TeardownRetires, TeardownCounts, TeardownAbandons
  <2>3. QED
    BY <1>1, <2>1, <2>2, GotoMoves, GotoWithMoves, FinishMoves, MoveKeepsFence
<1>11. QED
  BY <1>2, <1>3, <1>4, <1>5, <1>6, <1>7, <1>8, <1>9, <1>10 DEF Work

\* With no pause past the claim's window, a claim passes on only once its
\* holder has left the work.
LEMMA NextFence == ASSUME MaxPauses = 0 PROVE Fence /\ [Next]_vars => Fence'
<1> SUFFICES ASSUME Fence, [Next]_vars PROVE Sole' /\ Unlaunched'
  BY NextIInv DEF Fence
<1> USE DEF PC, Driving, Poisoning, Draining, BeforeLaunch, At
<1>1. at \in [Replicas -> Places] /\ faults \in Faults
  BY DEF Fence, IInv, TypeOK
<1>2. ASSUME NEW r \in Replicas, ClaimLaunch(r) PROVE Sole' /\ Unlaunched'
  <2>1. ~(faults.pauses < MaxPauses)
    BY <1>1 DEF Faults
  <2>2. ~Renewing(driver)
    BY <1>2, <2>1 DEF ClaimLaunch
  <2>3. \A q \in Replicas : at[q].pc \notin Driving
    BY <2>2, AttemptUnitAssumption DEF Fence, Sole, Renewing
  <2>4. /\ at'[r].pc = "renew"
        /\ \A q \in Replicas : q # r => at'[q] = at[q]
    BY <1>1, <1>2 DEF ClaimLaunch
  <2>5. QED
    BY <2>3, <2>4 DEF Sole, Unlaunched
<1>3. ASSUME NEW r \in Replicas, DropWork(r) \/ Crash(r) PROVE Sole' /\ Unlaunched'
  BY <1>1, <1>3, FinishMoves, MoveKeepsFence DEF DropWork, Crash
<1>4. ASSUME NEW r \in Replicas, LaunchRefused(r) \/ PollTimedOut(r) PROVE Sole' /\ Unlaunched'
  <2>1. \E p \in {"commit", "settle"}, saw \in {"config", "fail", "retry"} : GotoWith(r, p, saw)
    BY <1>4 DEF LaunchRefused, PollTimedOut
  <2>2. at[r].pc \in Driving /\ driver' = driver /\ handle' = handle
    BY <1>4 DEF LaunchRefused, PollTimedOut
  <2>3. driver = r
    BY <2>2 DEF Fence, Sole
  <2>4. QED
    BY <1>1, <2>1, <2>2, <2>3, GotoWithMoves, MoveKeepsFence DEF Seen
<1>5. ASSUME NEW r \in Replicas, WorkFails(r) PROVE Sole' /\ Unlaunched'
  <2>1. (Goto(r, "poison") \/ Finish(r)) /\ driver' = driver /\ handle' = handle
    BY <1>5 DEF WorkFails
  <2>2. QED
    BY <1>1, <2>1, GotoMoves, FinishMoves, MoveKeepsFence
<1>6. ASSUME NEW r \in Replicas, NEW k \in Teardowns, ClaimTeardown(r, k)
      PROVE  Sole' /\ Unlaunched'
  <2>1. /\ at'[r].pc = "tHandle" /\ driver' = driver /\ handle' = handle
        /\ \A q \in Replicas : q # r => at'[q] = at[q]
    BY <1>1, <1>6 DEF ClaimTeardown
  <2>2. QED
    BY <2>1, MoveKeepsFence
<1>7. ASSUME \/ Cancel \/ Rearm \/ ClaimSuccessor \/ SuccessorEvidence \/ RunMoves
             \/ UnitMoves \/ UNCHANGED vars
      PROVE  Sole' /\ Unlaunched'
  <2>1. at' = at /\ driver' = driver /\ handle' = handle
    BY <1>7 DEF Cancel, Rearm, ClaimSuccessor, SuccessorEvidence, RunMoves, UnitMoves, vars
  <2>2. QED
    BY <2>1 DEF Fence, Sole, Unlaunched
<1>8. QED
  BY <1>2, <1>3, <1>4, <1>5, <1>6, <1>7, WorkKeepsFence DEF Next

\* As long as no replica is paused past its claim's window, a unit that
\* vanished after its handle was recorded is never created a second time under
\* the same fence: at most one replica drives the launch, and it launches only
\* while no handle is recorded.
THEOREM LaunchedOnce == ASSUME MaxPauses = 0 PROVE Spec => NeverRelaunched
<1>1. Init => Fence
  <2>1. ASSUME Init PROVE \A q \in Replicas : at[q].pc = "idle"
    BY <2>1 DEF Init, Idle
  <2>2. QED
    BY <2>1, InitIInv DEF Fence, Sole, Unlaunched, Driving, BeforeLaunch
<1>2. Fence /\ [Next]_vars => (handle /\ unit = "gone" => unit' # "alive")
  <2> SUFFICES ASSUME Fence, [Next]_vars, handle, unit = "gone" PROVE unit' # "alive"
    OBVIOUS
  <2>1. \A r \in Replicas : ~LaunchLands(r)
    BY DEF LaunchLands, At, Fence, Unlaunched, BeforeLaunch
  <2>2. Cancelled(unit) = "gone"
    BY DEF Cancelled
  <2>3. ASSUME NEW r \in Replicas, Work(r) PROVE unit' # "alive"
    BY <2>1, <2>2, <2>3
    DEF Work, RenewFirst, ReadHandle, LaunchWanted, LaunchReturns,
        RecordHandle, EnqueueLate, Poll, RecordEvidence, SettleRead, StampFailure,
        CommitVerdict, MarkDispatched, DeadLetterMessage, DeadLetterRun, CancelLiveStep,
        EndDeadRun, TeardownReadsHandle, TeardownChecksLaunch, TeardownCancels,
        TeardownChecksGone, TeardownRetires, TeardownCounts, TeardownAbandons
  <2>4. QED
    BY <2>2, <2>3
    DEF Next, ClaimLaunch, DropWork, LaunchRefused, PollTimedOut, WorkFails, Crash,
        ClaimTeardown, Cancel, Rearm, ClaimSuccessor, SuccessorEvidence, RunMoves,
        UnitMoves, vars
<1>3. QED
  BY <1>1, <1>2, NextFence, PTL DEF Spec, NeverRelaunched

-----------------------------------------------------------------------------
(* No orphan.  The launch intent is dispatched only once its unit is done  *)
(* with or its late teardown is owed, and that is retired only once the    *)
(* unit is gone.  The cancel and supersede teardowns stop the unit sooner; *)
(* that it is not forgotten does not depend on them.                       *)

\* The unit does not run, or was knowingly given up.
Quiet(u, f) == u # "alive" \/ f

\* Where the driver is before it may owe a late teardown.
BeforeLate == BeforeLaunch \cup {"landed", "record", "adopt", "recheck", "recheckRun", "late"}

\* What a replica's place p says of the messages m and the unit u.
PlaceOwns(p, m, u, f) ==
  /\ p.pc \notin Poisoning
  /\ p.pc \in Driving => m["launch"] = "pending"
  /\ p.pc \in BeforeLate => m["late"] = "absent"
  /\ p.pc \in {"evidence", "settle", "stamp", "commit"} => Quiet(u, f)
  /\ p.pc = "dispatch" => Quiet(u, f) \/ m["late"] # "absent"
  /\ p.pc \in Draining => p.kind \in Teardowns
  /\ p.pc \in Draining /\ p.kind = "late" => m["late"] # "absent"
  /\ p.pc = "tKey" => p.kind # "late"
  /\ p.pc = "tRetire" /\ p.kind = "late" => u # "alive"
  /\ p.pc \in {"tCount", "tAbandon"} /\ p.kind = "late" => p.saw \in {"terminating", "failed"}

\* What the messages say of the unit.
MsgOwns ==
  /\ msg["launch"] \in {"pending", "dispatched"}
  /\ msg["launch"] = "dispatched" => Quiet(unit, forsaken) \/ msg["late"] # "absent"
  /\ msg["late"] = "dispatched" => unit # "alive"
  /\ msg["late"] = "dead" => forsaken

\* The launch intent has not reached the poison ceiling.
Unpoisoned == fails["launch"] < MaxFailures

OwnParts == MsgOwns /\ \A r \in Replicas : PlaceOwns(at[r], msg, unit, forsaken)
OwnInv == Unpoisoned => OwnParts

\* A step that starts no unit and leaves the launch intent and the late
\* teardown as they are.
Tame ==
  /\ msg'["launch"] = msg["launch"] /\ msg'["late"] = msg["late"]
  /\ forsaken => forsaken'
  /\ unit' = "alive" => unit = "alive"

\* Such a step keeps what the places of the others say.
LEMMA TamePlace ==
  ASSUME NEW p, PlaceOwns(p, msg, unit, forsaken), Tame
  PROVE  PlaceOwns(p, msg', unit', forsaken')
BY DEF PlaceOwns, Tame, Quiet

\* ... and the invariant, if the place of the replica that moved is right.
LEMMA TameKeeps ==
  ASSUME OwnParts, NEW r \in Replicas, Tame,
         PlaceOwns(at'[r], msg', unit', forsaken'),
         \A q \in Replicas : q # r => at'[q] = at[q]
  PROVE  OwnParts'
<1>1. MsgOwns'
  BY DEF OwnParts, MsgOwns, Tame, Quiet
<1>2. \A q \in Replicas : PlaceOwns(at'[q], msg', unit', forsaken')
  BY TamePlace DEF OwnParts
<1>3. QED
  BY <1>1, <1>2 DEF OwnParts

\* A count only grows.
LEMMA StaysUnpoisoned ==
  ASSUME TypeOK, [Next]_vars, Unpoisoned'
  PROVE  Unpoisoned
<1>1. fails["launch"] \in 0..MaxFailures /\ MaxFailures \in Nat
  BY AttemptUnitAssumption DEF TypeOK, Kinds
<1>2. ASSUME NEW k \in Kinds, fails' = Counted(k) PROVE Unpoisoned
  <2>1. fails["launch"] = MaxFailures => fails'["launch"] = MaxFailures
    <3>1. fails \in [Kinds -> 0..MaxFailures] /\ "launch" \in Kinds
      BY DEF TypeOK, Kinds
    <3>2. CASE k = "launch"
      BY <1>1, <1>2, <3>1, <3>2 DEF Counted
    <3>3. CASE k # "launch"
      BY <1>1, <1>2, <3>1, <3>3 DEF Counted
    <3>4. QED
      BY <3>2, <3>3
  <2>2. QED
    BY <1>1, <2>1 DEF Unpoisoned
<1>3. ASSUME fails' = fails PROVE Unpoisoned
  BY <1>3 DEF Unpoisoned
<1>4. ASSUME NEW r \in Replicas, Work(r) PROVE Unpoisoned
  <2>1. at[r].kind \in Kinds
    BY DEF TypeOK, Places
  <2>2. CASE TeardownCounts(r)
    BY <1>2, <2>1, <2>2 DEF TeardownCounts
  <2>3. CASE ~TeardownCounts(r)
    BY <1>3, <1>4, <2>3
    DEF Work, RenewFirst, ReadHandle, LaunchWanted, LaunchLands, LaunchReturns,
        RecordHandle, EnqueueLate, Poll, RecordEvidence, SettleRead, StampFailure,
        CommitVerdict, MarkDispatched, DeadLetterMessage, DeadLetterRun, CancelLiveStep,
        EndDeadRun, TeardownReadsHandle, TeardownChecksLaunch, TeardownCancels,
        TeardownChecksGone, TeardownRetires, TeardownAbandons, box
  <2>4. QED
    BY <2>2, <2>3
<1>5. ASSUME NEW r \in Replicas, WorkFails(r) PROVE Unpoisoned
  BY <1>2, <1>5 DEF WorkFails, Kinds
<1>6. QED
  BY <1>3, <1>4, <1>5
  DEF Next, ClaimLaunch, DropWork, LaunchRefused, PollTimedOut, Crash, ClaimTeardown,
      Cancel, Rearm, ClaimSuccessor, SuccessorEvidence, RunMoves, UnitMoves, vars, box

\* The driver's calls.
LEMMA DriverOwns ==
  ASSUME Fence, OwnParts, NEW r \in Replicas,
         \/ RenewFirst(r) \/ ReadHandle(r) \/ LaunchWanted(r) \/ LaunchReturns(r)
         \/ RecordHandle(r) \/ Poll(r) \/ RecordEvidence(r) \/ SettleRead(r)
         \/ StampFailure(r) \/ CommitVerdict(r) \/ PollTimedOut(r)
  PROVE  OwnParts'
<1> USE DEF PC, Driving, Poisoning, Draining, BeforeLaunch, BeforeLate, At
<1>1. at \in [Replicas -> Places] /\ PlaceOwns(at[r], msg, unit, forsaken)
  BY DEF Fence, IInv, TypeOK, OwnParts
<1>2. ~handle => msg["late"] = "absent"
  BY DEF Fence, IInv, TypeOK
<1>3. SUFFICES /\ Tame
               /\ PlaceOwns(at'[r], msg', unit', forsaken')
               /\ \A q \in Replicas : q # r => at'[q] = at[q]
  BY TameKeeps
<1>4. ASSUME UNCHANGED <<box, unit, forsaken>>, Finish(r)
      PROVE  /\ Tame
             /\ PlaceOwns(at'[r], msg', unit', forsaken')
             /\ \A q \in Replicas : q # r => at'[q] = at[q]
  BY <1>1, <1>4, FinishMoves DEF Tame, PlaceOwns, box
<1>5. CASE RenewFirst(r)
  <2>1. CASE HoldsClaim(r)
    <3>1. at'[r].pc = "handle" /\ \A q \in Replicas : q # r => at'[q] = at[q]
      BY <1>1, <1>5, <2>1, GotoMoves DEF RenewFirst
    <3>2. QED
      BY <1>1, <1>5, <2>1, <3>1 DEF RenewFirst, HoldsClaim, Tame, PlaceOwns, box
  <2>2. CASE ~HoldsClaim(r)
    BY <1>4, <1>5, <2>2 DEF RenewFirst
  <2>3. QED
    BY <2>1, <2>2
<1>6. CASE ReadHandle(r)
  <2>1. /\ at'[r].pc = IF handle THEN "poll" ELSE "wanted"
        /\ \A q \in Replicas : q # r => at'[q] = at[q]
    BY <1>1, <1>6, GotoMoves DEF ReadHandle
  <2>2. QED
    BY <1>1, <1>2, <1>6, <2>1 DEF ReadHandle, Tame, PlaceOwns, box
<1>7. CASE LaunchWanted(r)
  <2>1. PICK p \in {"wantedRun", "adopt", "launch", "recheckRun", "late", "poll"} : Goto(r, p)
    BY <1>7 DEF LaunchWanted
  <2>2. at[r].pc \in BeforeLate
    BY <1>7 DEF LaunchWanted
  <2>3. at'[r].pc = p /\ \A q \in Replicas : q # r => at'[q] = at[q]
    BY <1>1, <2>1, GotoMoves
  <2>4. QED
    BY <1>1, <1>7, <2>2, <2>3 DEF LaunchWanted, Tame, PlaceOwns, box
<1>8. CASE LaunchReturns(r)
  <2>1. at'[r].pc = "record" /\ \A q \in Replicas : q # r => at'[q] = at[q]
    BY <1>1, <1>8, GotoMoves DEF LaunchReturns
  <2>2. QED
    BY <1>1, <1>8, <2>1 DEF LaunchReturns, Tame, PlaceOwns, box
<1>9. CASE RecordHandle(r)
  <2>1. at'[r].pc \in {"recheck", "late"} /\ \A q \in Replicas : q # r => at'[q] = at[q]
    BY <1>1, <1>9, GotoMoves DEF RecordHandle
  <2>2. QED
    BY <1>1, <1>9, <2>1 DEF RecordHandle, Tame, PlaceOwns, box
<1>10. CASE Poll(r)
  <2>1. CASE unit \in {"alive", "terminating"}
    BY <1>4, <1>10, <2>1 DEF Poll
  <2>2. CASE unit \notin {"alive", "terminating"}
    <3>1. \E p \in {"evidence", "settle"}, saw \in {"ok", "fail", "retry"} : GotoWith(r, p, saw)
      BY <1>10, <2>2 DEF Poll
    <3>2. at'[r].pc \in {"evidence", "settle"} /\ \A q \in Replicas : q # r => at'[q] = at[q]
      BY <1>1, <3>1, GotoWithMoves DEF Seen
    <3>3. QED
      BY <1>1, <1>10, <2>2, <3>2 DEF Poll, Tame, PlaceOwns, Quiet, box
  <2>3. QED
    BY <2>1, <2>2
<1>11. CASE RecordEvidence(r)
  <2>1. at'[r].pc = "settle" /\ \A q \in Replicas : q # r => at'[q] = at[q]
    BY <1>1, <1>11, GotoMoves DEF RecordEvidence
  <2>2. QED
    BY <1>1, <1>11, <2>1 DEF RecordEvidence, Tame, PlaceOwns, box
<1>12. CASE SettleRead(r)
  <2> DEFINE p == CASE ~latest \/ outcome \in ByIntent -> "dispatch"
                    [] at[r].saw = "ok" -> "commit"
                    [] OTHER -> "stamp"
  <2>1. p \in {"dispatch", "commit", "stamp"}
    OBVIOUS
  <2>2. Goto(r, p) /\ At(r, "settle") /\ UNCHANGED <<box, unit, forsaken>>
    BY <1>12 DEF SettleRead
  <2> HIDE DEF p
  <2>3. at'[r].pc = p /\ \A q \in Replicas : q # r => at'[q] = at[q]
    BY <1>1, <2>1, <2>2, GotoMoves
  <2>4. QED
    BY <1>1, <2>1, <2>2, <2>3 DEF Tame, PlaceOwns, box
<1>13. CASE StampFailure(r)
  <2>1. at'[r].pc = "commit" /\ \A q \in Replicas : q # r => at'[q] = at[q]
    BY <1>1, <1>13, GotoMoves DEF StampFailure
  <2>2. QED
    BY <1>1, <1>13, <2>1 DEF StampFailure, Tame, PlaceOwns, box
<1>14. CASE CommitVerdict(r)
  <2>1. at'[r].pc = "dispatch" /\ \A q \in Replicas : q # r => at'[q] = at[q]
    BY <1>1, <1>14, GotoMoves DEF CommitVerdict
  <2>2. QED
    BY <1>1, <1>14, <2>1 DEF CommitVerdict, Tame, PlaceOwns, box
<1>15. CASE PollTimedOut(r)
  <2>1. \E saw \in {"fail", "retry"} : GotoWith(r, "settle", saw)
    BY <1>15 DEF PollTimedOut
  <2>2. at'[r].pc = "settle" /\ \A q \in Replicas : q # r => at'[q] = at[q]
    BY <1>1, <2>1, GotoWithMoves DEF Seen
  <2>3. At(r, "poll") /\ msg' = msg /\ Quiet(unit', forsaken') /\ (forsaken => forsaken')
    BY <1>15 DEF PollTimedOut, Cancelled, Quiet, box
  <2>4. unit' = "alive" => unit = "alive"
    BY <1>15 DEF PollTimedOut, Cancelled
  <2>5. QED
    BY <1>1, <2>2, <2>3, <2>4 DEF Tame, PlaceOwns
<1>16. QED
  BY <1>5, <1>6, <1>7, <1>8, <1>9, <1>10, <1>11, <1>12, <1>13, <1>14, <1>15

\* The driver's three steps that are not tame: nobody else drives meanwhile, so
\* they disturb only what the drains say.
LEMMA DriverMoves ==
  ASSUME Fence, OwnParts, NEW r \in Replicas,
         LaunchLands(r) \/ EnqueueLate(r) \/ MarkDispatched(r)
  PROVE  OwnParts'
<1> USE DEF PC, Driving, Poisoning, Draining, BeforeLaunch, BeforeLate, At
<1>1. /\ at \in [Replicas -> Places] /\ PlaceOwns(at[r], msg, unit, forsaken)
      /\ msg \in [Kinds -> {"absent", "pending", "dispatched", "dead"}] /\ MsgOwns
  BY DEF Fence, IInv, TypeOK, OwnParts
<1>2. \A q \in Replicas : q # r => at[q].pc \notin Driving
  BY DEF LaunchLands, EnqueueLate, MarkDispatched, Fence, Sole
<1>3. \A q \in Replicas : PlaceOwns(at[q], msg, unit, forsaken)
  BY DEF OwnParts
<1>4. ASSUME at'[r].pc \in Driving \cup {"idle"}, PlaceOwns(at'[r], msg', unit', forsaken'), MsgOwns',
             \A q \in Replicas : q # r => at'[q] = at[q],
             \A q \in Replicas : q # r /\ at[q].pc = "tRetire" /\ at[q].kind = "late" => unit' # "alive",
             msg["late"] # "absent" => msg'["late"] # "absent"
      PROVE  OwnParts'
  <2>1. ASSUME NEW q \in Replicas, q # r PROVE PlaceOwns(at'[q], msg', unit', forsaken')
    BY <1>2, <1>3, <1>4, <2>1 DEF PlaceOwns
  <2>2. QED
    BY <1>4, <2>1 DEF OwnParts
<1>5. CASE LaunchLands(r)
  <2>1. at'[r].pc = "landed" /\ \A q \in Replicas : q # r => at'[q] = at[q]
    BY <1>1, <1>5, GotoMoves DEF LaunchLands
  <2>2. msg["launch"] = "pending" /\ msg["late"] = "absent" /\ msg' = msg /\ forsaken' = forsaken
    BY <1>1, <1>5 DEF LaunchLands, PlaceOwns, box
  <2>3. ~handle
    BY <1>5 DEF LaunchLands, Fence, Unlaunched
  <2>4. \A q \in Replicas : ~(at[q].pc = "tRetire" /\ at[q].kind = "late")
    BY <2>3 DEF Fence, IInv, HandleFirst, NeedsHandle
  <2>5. PlaceOwns(at'[r], msg', unit', forsaken') /\ MsgOwns'
    BY <2>1, <2>2 DEF PlaceOwns, MsgOwns
  <2>6. QED
    BY <1>4, <2>1, <2>2, <2>4, <2>5
<1>6. CASE EnqueueLate(r)
  <2>1. at'[r].pc = "dispatch" /\ \A q \in Replicas : q # r => at'[q] = at[q]
    BY <1>1, <1>6, GotoMoves DEF EnqueueLate
  <2>2. msg["launch"] = "pending" /\ msg["late"] = "absent"
    BY <1>1, <1>6 DEF EnqueueLate, PlaceOwns
  <2>3. msg'["launch"] = "pending" /\ msg'["late"] = "pending" /\ unit' = unit
    BY <1>1, <1>6, <2>2 DEF EnqueueLate, Enqueued, Kinds, Teardowns
  <2>4. PlaceOwns(at'[r], msg', unit', forsaken') /\ MsgOwns'
    BY <2>1, <2>3 DEF PlaceOwns, MsgOwns
  <2>5. QED
    BY <1>3, <1>4, <2>1, <2>3, <2>4 DEF PlaceOwns
<1>7. CASE MarkDispatched(r)
  <2>1. at'[r].pc = "idle" /\ \A q \in Replicas : q # r => at'[q] = at[q]
    BY <1>1, <1>7, FinishMoves DEF MarkDispatched
  <2>2. /\ msg'["launch"] = "dispatched" /\ msg'["late"] = msg["late"]
        /\ unit' = unit /\ forsaken' = forsaken
    BY <1>1, <1>7 DEF MarkDispatched, Kinds, Teardowns
  <2>3. Quiet(unit, forsaken) \/ msg["late"] # "absent"
    BY <1>1, <1>7 DEF MarkDispatched, PlaceOwns
  <2>4. PlaceOwns(at'[r], msg', unit', forsaken') /\ MsgOwns'
    BY <1>1, <2>1, <2>2, <2>3 DEF PlaceOwns, MsgOwns
  <2>5. QED
    BY <1>3, <1>4, <2>1, <2>2, <2>4 DEF PlaceOwns
<1>8. QED
  BY <1>5, <1>6, <1>7

\* The drains.  A late teardown is retired after the unit was seen gone, with
\* the handle recorded, so that nobody creates it again; it is abandoned only
\* over a unit that would not stop.
LEMMA DrainOwns ==
  ASSUME Fence, OwnParts, NEW r \in Replicas,
         \/ TeardownReadsHandle(r) \/ TeardownChecksLaunch(r) \/ TeardownCancels(r)
         \/ TeardownChecksGone(r) \/ TeardownRetires(r) \/ TeardownCounts(r)
         \/ TeardownAbandons(r)
  PROVE  OwnParts'
<1> USE DEF PC, Driving, Poisoning, Draining, BeforeLaunch, BeforeLate, At
<1>1. /\ at \in [Replicas -> Places] /\ PlaceOwns(at[r], msg, unit, forsaken)
      /\ msg \in [Kinds -> {"absent", "pending", "dispatched", "dead"}] /\ MsgOwns
      /\ forsaken \in BOOLEAN
  BY DEF Fence, IInv, TypeOK, OwnParts
<1>2. at[r].pc \in Draining /\ at[r].kind \in Teardowns
  BY <1>1 DEF TeardownReadsHandle, TeardownChecksLaunch, TeardownCancels, TeardownChecksGone,
              TeardownRetires, TeardownCounts, TeardownAbandons, PlaceOwns
<1>3. at[r].kind = "late" => handle
  BY <1>2 DEF Fence, IInv, HandleFirst, NeedsHandle
<1>4. ASSUME Tame, \A q \in Replicas : q # r => at'[q] = at[q],
             at'[r].pc = "idle" \/ (at'[r].pc \in Draining /\ at'[r].kind = at[r].kind),
             at[r].kind = "late" => /\ at'[r].pc # "tKey"
                                    /\ at'[r].pc = "tRetire" => unit' # "alive"
                                    /\ at'[r].pc \in {"tCount", "tAbandon"}
                                         => at'[r].saw \in {"terminating", "failed"}
      PROVE  OwnParts'
  <2>1. PlaceOwns(at'[r], msg', unit', forsaken')
    BY <1>1, <1>2, <1>4 DEF PlaceOwns, Tame
  <2>2. QED
    BY <1>4, <2>1, TameKeeps
<1>5. CASE TeardownReadsHandle(r)
  <2>1. \/ Goto(r, IF handle THEN "tCancel" ELSE "tKey") \/ GotoWith(r, "tCount", "failed")
    BY <1>5 DEF TeardownReadsHandle
  <2>2. \/ at'[r].pc = (IF handle THEN "tCancel" ELSE "tKey")
        \/ at'[r].pc = "tCount" /\ at'[r].saw = "failed"
    BY <1>1, <2>1, GotoMoves, GotoWithMoves DEF Seen
  <2>3. at'[r].kind = at[r].kind /\ \A q \in Replicas : q # r => at'[q] = at[q]
    BY <1>1, <2>1, GotoMoves, GotoWithMoves DEF Seen
  <2>4. Tame
    BY <1>5 DEF TeardownReadsHandle, Tame, box
  <2>5. QED
    BY <1>3, <1>4, <2>2, <2>3, <2>4
<1>6. CASE TeardownChecksLaunch(r)
  <2>1. Goto(r, "tRetire") \/ GotoWith(r, "tCount", "launching")
    BY <1>6 DEF TeardownChecksLaunch
  <2>2. /\ at'[r].pc \in {"tRetire", "tCount"} /\ at'[r].kind = at[r].kind
        /\ \A q \in Replicas : q # r => at'[q] = at[q]
    BY <1>1, <2>1, GotoMoves, GotoWithMoves DEF Seen
  <2>3. at[r].kind # "late" /\ Tame
    BY <1>1, <1>6 DEF TeardownChecksLaunch, PlaceOwns, Tame, box
  <2>4. QED
    BY <1>4, <2>2, <2>3
<1>7. CASE TeardownCancels(r)
  <2>1. Goto(r, "tGone") \/ GotoWith(r, "tCount", "failed")
    BY <1>7 DEF TeardownCancels
  <2>2. /\ at'[r].pc = "tGone" \/ (at'[r].pc = "tCount" /\ at'[r].saw = "failed")
        /\ at'[r].kind = at[r].kind /\ \A q \in Replicas : q # r => at'[q] = at[q]
    BY <1>1, <2>1, GotoMoves, GotoWithMoves DEF Seen
  <2>3. Tame
    BY <1>7 DEF TeardownCancels, Cancelled, Tame, box
  <2>4. QED
    BY <1>4, <2>2, <2>3
<1>8. CASE TeardownChecksGone(r)
  <2>1. \/ Goto(r, "tRetire") /\ TornDown
        \/ GotoWith(r, "tCount", "terminating")
    BY <1>8 DEF TeardownChecksGone
  <2>2. /\ \/ at'[r].pc = "tRetire" /\ TornDown
           \/ at'[r].pc = "tCount" /\ at'[r].saw = "terminating"
        /\ at'[r].kind = at[r].kind /\ \A q \in Replicas : q # r => at'[q] = at[q]
    BY <1>1, <2>1, GotoMoves, GotoWithMoves DEF Seen
  <2>3. Tame /\ unit' = unit
    BY <1>8 DEF TeardownChecksGone, Tame, box
  <2>4. QED
    BY <1>4, <2>2, <2>3 DEF TornDown
<1>9. CASE TeardownCounts(r)
  <2>1. Goto(r, "tAbandon") \/ Finish(r)
    BY <1>9 DEF TeardownCounts
  <2>2. /\ \/ at'[r].pc = "tAbandon" /\ at'[r].saw = at[r].saw /\ at'[r].kind = at[r].kind
           \/ at'[r].pc = "idle"
        /\ \A q \in Replicas : q # r => at'[q] = at[q]
    BY <1>1, <2>1, GotoMoves, FinishMoves
  <2>3. Tame
    BY <1>9 DEF TeardownCounts, Tame
  <2>4. QED
    BY <1>1, <1>4, <1>9, <2>2, <2>3 DEF TeardownCounts, PlaceOwns
<1>10. CASE TeardownRetires(r) \/ TeardownAbandons(r)
  <2>1. at'[r].pc = "idle" /\ \A q \in Replicas : q # r => at'[q] = at[q]
    BY <1>1, <1>10, FinishMoves DEF TeardownRetires, TeardownAbandons
  <2>2. PICK to \in {"dispatched", "dead"} :
          /\ msg' = [msg EXCEPT ![at[r].kind] = to]
          /\ to = "dispatched" => unit' # "alive" \/ at[r].kind # "late"
          /\ to = "dead" => forsaken' \/ at[r].kind # "late"
    BY <1>1, <1>10 DEF TeardownRetires, TeardownAbandons, PlaceOwns
  <2>3. unit' = unit /\ (forsaken => forsaken')
    BY <1>1, <1>10 DEF TeardownRetires, TeardownAbandons
  <2>4. CASE at[r].kind # "late"
    <3>1. Tame
      BY <1>1, <1>2, <2>2, <2>3, <2>4 DEF Tame, Kinds, Teardowns
    <3>2. QED
      BY <1>4, <2>1, <2>4, <3>1
  <2>5. CASE at[r].kind = "late"
    <3>1. msg'["launch"] = msg["launch"] /\ msg'["late"] = to
      BY <1>1, <2>2, <2>5 DEF Kinds, Teardowns
    <3>2. MsgOwns'
      BY <1>1, <2>2, <2>3, <2>5, <3>1 DEF MsgOwns, Quiet
    <3>3. \A q \in Replicas : at[q].pc \notin BeforeLate
      BY <1>1, <1>2, <2>5 DEF OwnParts, PlaceOwns
    <3>4. ASSUME NEW q \in Replicas PROVE PlaceOwns(at'[q], msg', unit', forsaken')
      <4>1. CASE q = r
        BY <2>1, <4>1 DEF PlaceOwns
      <4>2. CASE q # r
        <5>1. PlaceOwns(at[q], msg, unit, forsaken) /\ at'[q] = at[q]
          BY <2>1, <4>2 DEF OwnParts
        <5>2. QED
          BY <2>2, <2>3, <3>1, <3>3, <5>1 DEF PlaceOwns, Quiet
      <4>3. QED
        BY <4>1, <4>2
    <3>5. QED
      BY <3>2, <3>4 DEF OwnParts
  <2>6. QED
    BY <2>4, <2>5
<1>11. QED
  BY <1>5, <1>6, <1>7, <1>8, <1>9, <1>10

\* Claims, lost work and crashes.
LEMMA ClaimsOwn ==
  ASSUME Fence, OwnParts, NEW r \in Replicas,
         \/ ClaimLaunch(r) \/ DropWork(r) \/ Crash(r)
         \/ \E k \in Teardowns : ClaimTeardown(r, k)
  PROVE  OwnParts'
<1> USE DEF PC, Driving, Poisoning, Draining, BeforeLaunch, BeforeLate, At
<1>1. /\ at \in [Replicas -> Places] /\ PlaceOwns(at[r], msg, unit, forsaken)
      /\ msg \in [Kinds -> {"absent", "pending", "dispatched", "dead"}]
  BY DEF Fence, IInv, TypeOK, OwnParts
<1>2. CASE ClaimLaunch(r)
  <2>1. at'[r].pc = "renew" /\ \A q \in Replicas : q # r => at'[q] = at[q]
    BY <1>1, <1>2 DEF ClaimLaunch
  <2>2. PlaceOwns(at'[r], msg', unit', forsaken') /\ Tame
    BY <1>2, <2>1 DEF ClaimLaunch, PlaceOwns, Tame, box
  <2>3. QED
    BY <2>1, <2>2, TameKeeps
<1>3. CASE DropWork(r) \/ Crash(r)
  <2>1. at'[r].pc = "idle" /\ \A q \in Replicas : q # r => at'[q] = at[q]
    BY <1>1, <1>3, FinishMoves DEF DropWork, Crash
  <2>2. PlaceOwns(at'[r], msg', unit', forsaken') /\ Tame
    BY <1>3, <2>1 DEF DropWork, Crash, PlaceOwns, Tame, box
  <2>3. QED
    BY <2>1, <2>2, TameKeeps
<1>4. ASSUME NEW k \in Teardowns, ClaimTeardown(r, k) PROVE OwnParts'
  <2>1. /\ at'[r].pc = "tHandle" /\ at'[r].kind = k /\ msg[k] = "pending"
        /\ \A q \in Replicas : q # r => at'[q] = at[q]
    BY <1>1, <1>4 DEF ClaimTeardown
  <2>2. PlaceOwns(at'[r], msg', unit', forsaken') /\ Tame
    BY <1>4, <2>1 DEF ClaimTeardown, PlaceOwns, Tame, box
  <2>3. QED
    BY <2>1, <2>2, TameKeeps
<1>5. QED
  BY <1>2, <1>3, <1>4

\* What the rest of the engine and the backend do.
LEMMA EngineOwns ==
  ASSUME Fence, OwnParts,
         \/ Cancel \/ Rearm \/ ClaimSuccessor \/ SuccessorEvidence \/ RunMoves \/ UnitMoves
         \/ UNCHANGED vars
  PROVE  OwnParts'
<1>1. msg \in [Kinds -> {"absent", "pending", "dispatched", "dead"}]
  BY DEF Fence, IInv, TypeOK
<1>2. at' = at /\ forsaken' = forsaken /\ (unit' = "alive" => unit = "alive")
  BY DEF Cancel, Rearm, ClaimSuccessor, SuccessorEvidence, RunMoves, UnitMoves, vars
<1>3. msg' = msg \/ \E k \in {"cancel", "supersede"} : msg' = [msg EXCEPT ![k] = "pending"]
  BY DEF Cancel, CancelStepCommit, Rearm, ClaimSuccessor, SuccessorEvidence, RunMoves,
         UnitMoves, Enqueued, vars, box
<1>4. Tame
  BY <1>1, <1>2, <1>3 DEF Tame, Kinds, Teardowns
<1>5. MsgOwns'
  BY <1>4 DEF OwnParts, MsgOwns, Tame, Quiet
<1>6. \A q \in Replicas : PlaceOwns(at'[q], msg', unit', forsaken')
  BY <1>2, <1>4, TamePlace DEF OwnParts
<1>7. QED
  BY <1>5, <1>6 DEF OwnParts

\* One step keeps the invariant.
LEMMA NextOwn ==
  ASSUME MaxPauses = 0, Refusals = FALSE
  PROVE  Fence /\ OwnInv /\ [Next]_vars => OwnInv'
<1> SUFFICES ASSUME Fence, OwnInv, [Next]_vars, Unpoisoned' PROVE OwnParts'
  BY DEF OwnInv
<1>1. OwnParts
  BY StaysUnpoisoned DEF OwnInv, Fence, IInv
<1>2. ASSUME NEW r \in Replicas, WorkFails(r) PROVE OwnParts'
  <2>1. at \in [Replicas -> Places] /\ fails' = Counted("launch") /\ at[r].pc \in Driving
    BY <1>2 DEF Fence, IInv, TypeOK, WorkFails
  <2>2. fails'["launch"] # MaxFailures
    BY AttemptUnitAssumption DEF Unpoisoned
  <2>3. Finish(r)
    BY <1>2, <2>2 DEF WorkFails
  <2>4. at'[r].pc = "idle" /\ \A q \in Replicas : q # r => at'[q] = at[q]
    BY <2>1, <2>3, FinishMoves
  <2>5. PlaceOwns(at'[r], msg', unit', forsaken') /\ Tame
    BY <1>2, <2>4 DEF WorkFails, PlaceOwns, Tame, Driving, Poisoning, Draining, BeforeLate,
                      BeforeLaunch
  <2>6. QED
    BY <1>1, <2>4, <2>5, TameKeeps
<1>3. ASSUME NEW r \in Replicas, Work(r) PROVE OwnParts'
  <2>1. at[r].pc \notin Poisoning
    BY <1>1 DEF OwnParts, PlaceOwns
  <2>2. ~DeadLetterMessage(r) /\ ~DeadLetterRun(r) /\ ~CancelLiveStep(r) /\ ~EndDeadRun(r)
    BY <2>1 DEF DeadLetterMessage, DeadLetterRun, CancelLiveStep, EndDeadRun, At, Poisoning
  <2>3. QED
    BY <1>1, <1>3, <2>2, DriverOwns, DriverMoves, DrainOwns DEF Work
<1>4. ASSUME NEW r \in Replicas, PollTimedOut(r) PROVE OwnParts'
  BY <1>1, <1>4, DriverOwns
<1>5. ASSUME NEW r \in Replicas,
             ClaimLaunch(r) \/ DropWork(r) \/ Crash(r) \/ (\E k \in Teardowns : ClaimTeardown(r, k))
      PROVE  OwnParts'
  BY <1>1, <1>5, ClaimsOwn
<1>6. ASSUME \/ Cancel \/ Rearm \/ ClaimSuccessor \/ SuccessorEvidence \/ RunMoves \/ UnitMoves
             \/ UNCHANGED vars
      PROVE  OwnParts'
  BY <1>1, <1>6, EngineOwns
<1>7. \A r \in Replicas : ~LaunchRefused(r)
  BY DEF LaunchRefused
<1>8. QED
  BY <1>2, <1>3, <1>4, <1>5, <1>6, <1>7 DEF Next

\* The unit is never orphaned, for any number of replicas, crashes and failing
\* calls: as long as the launch intent has not reached its poison ceiling, a
\* unit that runs is still owed a look (the launch intent or a teardown is
\* pending, or somebody is at work on it) or was given up with a diagnostic.
\* Excepted are a replica paused past its claim's window and a refused launch:
\* each breaks it.
THEOREM NeverOrphaned ==
  ASSUME MaxPauses = 0, Refusals = FALSE
  PROVE  Spec => [](Unpoisoned => NoOrphan)
<1>1. Init => Fence /\ OwnInv
  <2> SUFFICES ASSUME Init PROVE Fence /\ OwnInv
    OBVIOUS
  <2>1. \A q \in Replicas : at[q].pc = "idle"
    BY DEF Init, Idle
  <2>2. Fence
    BY <2>1, InitIInv DEF Fence, Sole, Unlaunched, Driving, BeforeLaunch
  <2>3. msg["launch"] = "pending" /\ msg["late"] = "absent"
    BY DEF Init, Kinds, Teardowns
  <2>4. OwnParts
    BY <2>1, <2>3 DEF OwnParts, MsgOwns, PlaceOwns, Driving, Poisoning, Draining, BeforeLate,
                      BeforeLaunch
  <2>5. QED
    BY <2>2, <2>4 DEF OwnInv
<1>2. Fence /\ OwnInv => (Unpoisoned => NoOrphan)
  <2> SUFFICES ASSUME Fence, OwnInv, Unpoisoned, unit = "alive" PROVE Owned \/ forsaken
    BY DEF NoOrphan
  <2>1. MsgOwns /\ msg \in [Kinds -> {"absent", "pending", "dispatched", "dead"}]
    BY DEF OwnInv, OwnParts, Fence, IInv, TypeOK
  <2>2. forsaken \/ msg["launch"] = "pending" \/ msg["late"] = "pending"
    BY <2>1 DEF MsgOwns, Quiet, Kinds, Teardowns
  <2>3. QED
    BY <2>2 DEF Owned, Kinds, Teardowns
<1>3. QED
  BY <1>1, <1>2, NextFence, NextOwn, PTL DEF Spec

=============================================================================
